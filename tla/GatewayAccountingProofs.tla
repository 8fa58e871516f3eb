----------------------- MODULE GatewayAccountingProofs -----------------------
(***************************************************************************)
(* Theorems about GatewayAccounting, for all clients, addresses, flows,    *)
(* windows and bounds.                                                     *)
(***************************************************************************)
EXTENDS GatewayAccounting, SumTheorems, TLAPS

-----------------------------------------------------------------------------
(* The functions of the model package.                                     *)

(* Minutes since the window opened, before and after midnight.             *)
LEMMA Wrapped ==
  ASSUME NEW x \in Int, -Day < x, x < Day
  PROVE  x % Day = IF x >= 0 THEN x ELSE x + Day
<1> DEFINE q == x \div Day
           r == x % Day
<1>1. Day \in Nat /\ Day > 0
  BY BoundsAssumption
<1>2. q \in Int /\ r \in 0 .. Day - 1 /\ x = Day * q + r
  BY <1>1
<1> HIDE DEF q, r
<1>3. CASE q >= 1
  <2>1. Day * q >= Day
    BY <1>1, <1>2, <1>3
  <2> QED BY <1>1, <1>2, <2>1
<1>4. CASE q <= -2
  <2>1. Day * q <= -2 * Day
    BY <1>1, <1>2, <1>4
  <2> QED BY <1>1, <1>2, <2>1
<1>5. CASE q = 0
  BY <1>1, <1>2, <1>5 DEF r
<1>6. CASE q = -1
  <2>1. Day * q = -Day
    BY <1>1, <1>6
  <2> QED BY <1>1, <1>2, <2>1 DEF r
<1> QED BY <1>2, <1>3, <1>4, <1>5, <1>6

(* Whether or not the window crosses midnight, and however short it is,    *)
(* the code tells its minutes from the others.                             *)
LEMMA PeriodsAreTrue ==
  ASSUME window \in Windows, NEW minute \in Minutes
  PROVE  PeriodAt(minute, window) = TruePeriod(minute)
<1>1. /\ Day \in Nat /\ Day > 0 /\ minute \in 0 .. Day - 1
      /\ window.start \in 0 .. Day - 1 /\ window.end \in 0 .. Day - 1
  BY BoundsAssumption, WindowsAssumption DEF Minutes
<1> DEFINE a == minute - window.start
           b == window.end - window.start
<1>2. /\ a % Day = IF a >= 0 THEN a ELSE a + Day
      /\ b % Day = IF b >= 0 THEN b ELSE b + Day
  <2>1. a \in Int /\ -Day < a /\ a < Day /\ b \in Int /\ -Day < b /\ b < Day
    BY <1>1
  <2> HIDE DEF a, b
  <2> QED BY <2>1, Wrapped
<1>3. InWindow(minute, window.start, window.end) <=> a % Day < b % Day
  BY <1>1, <1>2 DEF InWindow
<1> QED BY <1>3 DEF PeriodAt, TruePeriod

LEMMA PlainNames ==
  /\ \A c \in Clients : c \notin ClientIPs \cup Others /\ c # NoMAC
  /\ \A ip \in ClientIPs : ip \notin Clients \cup Others
  /\ "server" \in Others /\ "docker" \in Others /\ "public" \in Others
BY NamesAssumption DEF Others

LEMMA RemoteScopes ==
  /\ \A ip \in ClientIPs \cup {"server"} : ClassifyRemoteIP(ip) = "lan"
  /\ ClassifyRemoteIP("docker") = "docker_internal"
  /\ ClassifyRemoteIP("public") = "internet"
<1>1. \A ip \in ClientIPs : ip # "server" /\ ip # "docker" /\ ip # "public"
  BY PlainNames DEF Others
<1> QED BY <1>1, PlainNames DEF ClassifyRemoteIP

LEMMA ScopeType ==
  ASSUME NEW o \in Observations
  PROVE  ClassifyScope(o, serverIPs) \in Scopes
<1>1. o.dst \in ClientIPs \cup {"server", "docker", "public"}
  BY DEF Observations, Others
<1>2. ClassifyRemoteIP(o.dst) \in Scopes
  BY <1>1, RemoteScopes DEF Scopes
<1> QED BY <1>2 DEF ClassifyScope, Scopes

LEMMA SourceType ==
  ASSUME NEW mac \in Clients \cup {NoMAC}, NEW ip \in ClientIPs \cup Others
  PROVE  Resolve(mac, ip) \in Sources
BY DEF Resolve, Sources

(* A delta, if the observation gives one.                                  *)
LEMMA DeltaType ==
  ASSUME TypeOK, NEW o \in pending, NEW source \in Sources,
         NEW d \in Delta(o, source, serverIPs, window)
  PROVE  /\ d.of = o /\ d.source = source /\ d.scope = ClassifyScope(o, serverIPs)
         /\ d.scope = "internet" => d.period = TruePeriod(o.at)
         /\ d.upload = o.original /\ d.download = o.reply
         /\ d \in [of : Observations, source : Sources, scope : Scopes,
                   period : Periods, upload : Nat, download : Nat]
<1>1. o \in Observations /\ o.at \in Minutes /\ o.original \in Nat /\ o.reply \in Nat
  BY DEF TypeOK, Observations
<1>2. PeriodAt(o.at, window) = TruePeriod(o.at) /\ PeriodAt(o.at, window) \in Periods
  BY <1>1, PeriodsAreTrue DEF TypeOK, PeriodAt, Periods
<1>3. ClassifyScope(o, serverIPs) \in Scopes
  BY <1>1, ScopeType
<1> DEFINE scope == ClassifyScope(o, serverIPs)
<1>4. d = [of |-> o, source |-> source, scope |-> scope,
           period |-> IF scope = "internet" THEN PeriodAt(o.at, window) ELSE "anytime",
           upload |-> o.original, download |-> o.reply]
  BY DEF Delta
<1> HIDE DEF scope
<1> QED BY <1>1, <1>2, <1>3, <1>4 DEF Periods, scope

(* An observation gives at most one delta, and only at the two points that *)
(* count.                                                                  *)
Counting == {"forward_prenat", "host_socket"}
SourceOf(o) == IF o.point = "host_socket" THEN Host ELSE Resolve(o.mac, o.src)
NewDeltas(o) == BuildGatewayDelta(o, serverIPs, window) \cup BuildHostDelta(o, serverIPs, window)

LEMMA NewDelta ==
  ASSUME NEW o
  PROVE  NewDeltas(o) =
           IF o.point \in Counting THEN Delta(o, SourceOf(o), serverIPs, window) ELSE {}
BY DEF NewDeltas, BuildGatewayDelta, BuildHostDelta, AuthoritativeHook, Counting, SourceOf

LEMMA AtMostOne ==
  ASSUME NEW o
  PROVE  /\ o.original = 0 /\ o.reply = 0 => NewDeltas(o) = {}
         /\ ~(o.original = 0 /\ o.reply = 0) /\ o.point \in Counting => \E d : NewDeltas(o) = {d}
         /\ IsFiniteSet(NewDeltas(o))
<1>1. \/ NewDeltas(o) = {}
      \/ ~(o.original = 0 /\ o.reply = 0) /\ \E d : NewDeltas(o) = {d}
  BY NewDelta DEF Delta
<1>2. ~(o.original = 0 /\ o.reply = 0) /\ o.point \in Counting => NewDeltas(o) # {}
  BY NewDelta DEF Delta
<1> QED BY <1>1, <1>2, FS_EmptySet, FS_Singleton

-----------------------------------------------------------------------------
(* Types.                                                                  *)

(* The address an observation shows in place of a party. *)
Stands(ip, party) == IF party \in Clients THEN ip \in ClientIPs ELSE ip = party

ObservedFrom(o, t) ==
  /\ o.n = t.n /\ o.at = t.at /\ o.mac = t.mac
  /\ o.original = t.load.original /\ o.reply = t.load.reply
  /\ o.point \in Path(t.flow)
  /\ o.point \in Counting => Stands(o.src, t.flow.from)
  /\ Stands(o.dst, t.flow.to)

(* Transfers are numbered, an observation is of one of them and of one     *)
(* point on its way, and what was handled is of an earlier one than will   *)
(* come.                                                                   *)
Numbered ==
  /\ IsFiniteSet(sent) /\ IsFiniteSet(deltas)
  /\ \A t \in sent :
       t.n < Cardinality(sent) /\ t.mac \in {NoMAC, IF t.flow.from \in Clients THEN t.flow.from ELSE NoMAC}
  /\ \A t, u \in sent : t.n = u.n => t = u
  /\ \A d \in deltas : d.of.n < Cardinality(sent)

Observed ==
  /\ \A o \in pending : \E t \in sent : ObservedFrom(o, t)
  /\ \A o, q \in pending : o.n = q.n /\ o.point = q.point => o = q

Typed == TypeOK /\ Numbered /\ Observed

(* What a transfer and its observations are.                               *)
LEMMA TransferTypes ==
  ASSUME Typed, NEW f \in Flows, NEW load \in Loads, NEW mac \in Clients \cup {NoMAC},
         Transfer(f, load, mac)
  PROVE  LET n == Cardinality(sent)
             t == [n |-> n, flow |-> f, at |-> clock, mac |-> mac, load |-> load]
         IN  /\ n \in Nat /\ n < MaxTransfers /\ t \notin sent /\ sent' = sent \cup {t}
             /\ IsFiniteSet(sent') /\ Cardinality(sent') = n + 1
             /\ t.mac \in {NoMAC, IF t.flow.from \in Clients THEN t.flow.from ELSE NoMAC}
             /\ pending \subseteq pending' /\ pending' \subseteq Observations
             /\ \A o \in pending' \ pending : ObservedFrom(o, t)
             /\ \A o, q \in pending' \ pending : o.point = q.point => o = q
             /\ \A p \in Path(f) \cap Tapped : \E o \in pending' : o.n = n /\ o.point = p
             /\ UNCHANGED <<serverIPs, window, clock, lease, deltas>>
<1> DEFINE n == Cardinality(sent)
           t == [n |-> n, flow |-> f, at |-> clock, mac |-> mac, load |-> load]
           Of(p) == [n |-> n, at |-> clock, point |-> p, mac |-> mac,
                     src |-> SourceAt(f, p), dst |-> AddressOf(f.to),
                     original |-> load.original, reply |-> load.reply]
           points == Path(f) \cap Tapped
           new == {Of(p) : p \in points}
<1>1. /\ n < MaxTransfers /\ sent' = sent \cup {t} /\ pending' = pending \cup new
      /\ mac \in {NoMAC, IF f.from \in Clients THEN f.from ELSE NoMAC}
      /\ UNCHANGED <<serverIPs, window, clock, lease, deltas>>
  BY DEF Transfer
<1>2. n \in Nat /\ IsFiniteSet(sent)
  BY FS_CardinalityType DEF Typed, Numbered
<1>3. t \notin sent
  BY <1>2 DEF Typed, Numbered
<1>4. IsFiniteSet(sent') /\ Cardinality(sent') = n + 1
  BY <1>1, <1>2, <1>3, FS_AddElement
<1>5. /\ f.from \in Clients \cup Others /\ f.to \in Clients \cup Others
      /\ load.original \in Nat /\ load.reply \in Nat
  BY FlowsAssumption, LoadsAssumption
<1>6. \A party \in Clients \cup Others :
        AddressOf(party) \in ClientIPs \cup Others /\ Stands(AddressOf(party), party)
  BY DEF AddressOf, Stands, Typed, TypeOK
<1>7. ASSUME NEW p \in points
      PROVE  Of(p) \in Observations /\ ObservedFrom(Of(p), t)
  <2>1. p \in Points /\ p \in Path(f)
    BY TappedAssumption
  <2>2. SourceAt(f, p) \in ClientIPs \cup Others
        /\ (p \in Counting => SourceAt(f, p) = AddressOf(f.from))
    BY <1>5, <1>6 DEF SourceAt, Others, Counting
  <2>3. n \in 0 .. MaxTransfers /\ clock \in Minutes
    BY <1>1, <1>2, BoundsAssumption DEF Typed, TypeOK
  <2>4. Of(p) \in Observations
    BY <1>5, <1>6, <2>1, <2>2, <2>3 DEF Observations
  <2>5. p \in Counting => Stands(SourceAt(f, p), f.from)
    BY <1>5, <1>6, <2>2
  <2>6. Stands(AddressOf(f.to), f.to)
    BY <1>5, <1>6
  <2> QED BY <2>1, <2>4, <2>5, <2>6 DEF ObservedFrom
<1>8. \A o \in new : \E p \in points : o = Of(p) /\ o.point = p
  OBVIOUS
<1>9. pending' \subseteq Observations /\ \A o \in pending' \ pending : ObservedFrom(o, t)
  <2>1. \A o \in new : o \in Observations /\ ObservedFrom(o, t)
    BY <1>7, <1>8
  <2> HIDE DEF new, t
  <2> QED BY <1>1, <2>1 DEF Typed, TypeOK
<1>10. \A o, q \in pending' \ pending : o.point = q.point => o = q
  <2>1. \A o, q \in new : o.point = q.point => o = q
    BY <1>8
  <2> HIDE DEF new
  <2> QED BY <1>1, <2>1
<1>11. \A p \in points : \E o \in pending' : o.n = n /\ o.point = p
  <2> SUFFICES ASSUME NEW p \in points PROVE \E o \in pending' : o.n = n /\ o.point = p
    OBVIOUS
  <2>1. Of(p) \in pending' /\ Of(p).n = n /\ Of(p).point = p
    BY <1>1
  <2> HIDE DEF Of
  <2> QED BY <2>1
<1> HIDE DEF new, Of
<1> QED BY <1>1, <1>2, <1>3, <1>4, <1>9, <1>10, <1>11

LEMMA TransferTyped ==
  ASSUME Typed, NEW f \in Flows, NEW load \in Loads, NEW mac \in Clients \cup {NoMAC},
         Transfer(f, load, mac)
  PROVE  Typed'
<1> DEFINE n == Cardinality(sent)
           t == [n |-> n, flow |-> f, at |-> clock, mac |-> mac, load |-> load]
<1>1. /\ n \in Nat /\ n < MaxTransfers /\ t \notin sent /\ sent' = sent \cup {t}
      /\ IsFiniteSet(sent') /\ Cardinality(sent') = n + 1
      /\ t.mac \in {NoMAC, IF t.flow.from \in Clients THEN t.flow.from ELSE NoMAC}
      /\ pending \subseteq pending' /\ pending' \subseteq Observations
      /\ \A o \in pending' \ pending : ObservedFrom(o, t)
      /\ \A o, q \in pending' \ pending : o.point = q.point => o = q
      /\ UNCHANGED <<serverIPs, window, clock, lease, deltas>>
  BY TransferTypes
<1>2. t.n = n /\ t \in [n : 0 .. MaxTransfers, flow : Flows, at : Minutes,
                        mac : Clients \cup {NoMAC}, load : Loads]
  BY <1>1, BoundsAssumption DEF Typed, TypeOK
<1> HIDE DEF t
<1>3. \A u \in sent : u.n < n
  BY DEF Typed, Numbered
<1>4. \A o \in pending' \ pending : o.n = n
  BY <1>1, <1>2 DEF ObservedFrom
<1>5. \A o \in pending : o.n < n
  BY <1>3 DEF Typed, Observed, ObservedFrom
<1>6. \A d \in deltas : d.of \notin pending' /\ d.of.n < n
  BY <1>1, <1>4 DEF Typed, TypeOK, Numbered
<1>7. TypeOK'
  <2>1. deltas' \subseteq [of : Observations \ pending', source : Sources, scope : Scopes,
                           period : Periods, upload : Nat, download : Nat]
    <3> SUFFICES ASSUME NEW d \in deltas
                 PROVE  d \in [of : Observations \ pending', source : Sources, scope : Scopes,
                               period : Periods, upload : Nat, download : Nat]
      BY <1>1
    <3>1. d \in [of : Observations \ pending, source : Sources, scope : Scopes,
                 period : Periods, upload : Nat, download : Nat]
      BY DEF Typed, TypeOK
    <3> QED BY <1>6, <3>1
  <2>2. sent' \subseteq [n : 0 .. MaxTransfers, flow : Flows, at : Minutes,
                         mac : Clients \cup {NoMAC}, load : Loads]
    BY <1>1, <1>2 DEF Typed, TypeOK
  <2> QED BY <1>1, <2>1, <2>2 DEF Typed, TypeOK
<1>8. Numbered'
  <2>1. \A u, v \in sent' : u.n = v.n => u = v
    BY <1>1, <1>2, <1>3 DEF Typed, Numbered
  <2>2. \A u \in sent' : u.n < n + 1
    <3>1. \A u \in sent : u.n \in Int
      BY DEF Typed, TypeOK
    <3> QED BY <1>1, <1>2, <1>3, <3>1
  <2>3. \A d \in deltas' : d.of.n < n + 1
    <3>1. \A d \in deltas : d.of.n \in Int
      BY DEF Typed, TypeOK, Observations
    <3> QED BY <1>1, <1>6, <3>1
  <2>4. \A u \in sent' :
          u.mac \in {NoMAC, IF u.flow.from \in Clients THEN u.flow.from ELSE NoMAC}
    BY <1>1 DEF Typed, Numbered
  <2> HIDE DEF n
  <2>5. IsFiniteSet(deltas')
    BY <1>1 DEF Typed, Numbered
  <2> QED BY <1>1, <2>1, <2>2, <2>3, <2>4, <2>5 DEF Numbered
<1>9. Observed'
  <2>1. \A o \in pending' : \E u \in sent' : ObservedFrom(o, u)
    BY <1>1 DEF Typed, Observed
  <2>2. ASSUME NEW o \in pending', NEW q \in pending', o.n = q.n, o.point = q.point
        PROVE  o = q
    <3>1. \A x \in pending' : x \in pending \/ x \in pending' \ pending
      OBVIOUS
    <3>2. o \in pending <=> q \in pending
      <4>1. \A x \in pending' : x \in pending => x.n # n
        BY <1>5, <1>1
      <4> QED BY <1>4, <2>2, <4>1
    <3> QED BY <1>1, <2>2, <3>2 DEF Typed, Observed
  <2> QED BY <2>1, <2>2 DEF Observed
<1> QED BY <1>7, <1>8, <1>9 DEF Typed

LEMMA HandleTyped ==
  ASSUME Typed, NEW o \in pending, Handle(o)
  PROVE  Typed'
<1>1. /\ pending' = pending \ {o} /\ deltas' = deltas \cup NewDeltas(o)
      /\ UNCHANGED <<serverIPs, window, clock, lease, sent>>
  BY DEF Handle, NewDeltas
<1>2. o \in Observations /\ o.mac \in Clients \cup {NoMAC} /\ o.src \in ClientIPs \cup Others
  BY DEF Typed, TypeOK, Observations
<1>3. SourceOf(o) \in Sources
  BY <1>2, SourceType DEF SourceOf, Sources
<1>4. ASSUME NEW d \in NewDeltas(o)
      PROVE  /\ d.of = o
             /\ d \in [of : Observations, source : Sources, scope : Scopes,
                       period : Periods, upload : Nat, download : Nat]
  BY <1>3, NewDelta, DeltaType DEF Typed
<1>5. TypeOK'
  <2>1. deltas' \subseteq [of : Observations \ pending', source : Sources, scope : Scopes,
                           period : Periods, upload : Nat, download : Nat]
    <3> SUFFICES ASSUME NEW d \in deltas'
                 PROVE  d \in [of : Observations \ pending', source : Sources, scope : Scopes,
                               period : Periods, upload : Nat, download : Nat]
      OBVIOUS
    <3>1. d \in [of : Observations, source : Sources, scope : Scopes,
                 period : Periods, upload : Nat, download : Nat]
          /\ d.of \notin pending'
      BY <1>1, <1>4 DEF Typed, TypeOK
    <3> QED BY <3>1
  <2> QED BY <1>1, <2>1 DEF Typed, TypeOK
<1>6. Numbered'
  <2>1. IsFiniteSet(deltas')
    BY <1>1, AtMostOne, FS_Union DEF Typed, Numbered
  <2>2. o.n < Cardinality(sent)
    BY DEF Typed, Observed, ObservedFrom, Numbered
  <2>3. \A d \in deltas' : d.of.n < Cardinality(sent)
    BY <1>1, <1>4, <2>2 DEF Typed, Numbered
  <2> QED BY <1>1, <2>1, <2>3 DEF Typed, Numbered
<1>7. Observed'
  BY <1>1 DEF Typed, Observed
<1> QED BY <1>5, <1>6, <1>7 DEF Typed

LEMMA TypeInductive == (Init => Typed) /\ (Typed /\ [Next]_vars => Typed')
<1>1. ASSUME Init PROVE Typed
  <2>1. TypeOK
    BY <1>1, BoundsAssumption DEF Init, TypeOK, Minutes
  <2>2. Numbered /\ Observed
    BY <1>1, FS_EmptySet DEF Init, Numbered, Observed
  <2> QED BY <2>1, <2>2 DEF Typed
<1>2. ASSUME Typed, [Next]_vars PROVE Typed'
  <2>1. ASSUME clock' \in Minutes, lease' \in [Clients -> ClientIPs],
               UNCHANGED <<serverIPs, window, pending, deltas, sent>>
        PROVE  Typed'
    BY <1>2, <2>1 DEF Typed, TypeOK, Numbered, Observed
  <2>2. CASE PassTime
    <3>1. (clock + 1) % Day \in Minutes
      BY <1>2, BoundsAssumption DEF Typed, TypeOK, Minutes
    <3> QED BY <1>2, <2>1, <2>2, <3>1 DEF PassTime, Typed, TypeOK
  <2>3. ASSUME NEW c \in Clients, NEW ip \in ClientIPs, Renew(c, ip)
        PROVE  Typed'
    <3>1. lease' \in [Clients -> ClientIPs]
      BY <1>2, <2>3 DEF Renew, Typed, TypeOK
    <3> QED BY <1>2, <2>1, <2>3, <3>1 DEF Renew, Typed, TypeOK
  <2>4. CASE UNCHANGED vars
    BY <1>2, <2>1, <2>4 DEF vars, Typed, TypeOK
  <2> QED BY <1>2, <2>2, <2>3, <2>4, TransferTyped, HandleTyped DEF Next
<1> QED BY <1>1, <1>2

(* Every variable keeps its type, and no observation is handled that has   *)
(* been handled before.                                                    *)
THEOREM AccountingTypes == Spec => []TypeOK
BY TypeInductive, PTL DEF Spec, Typed

-----------------------------------------------------------------------------
(* What is measured.                                                       *)

(* The point at which a transfer counts. *)
PointOf(t) == IF t.flow.from = "server" THEN "host_socket" ELSE "forward_prenat"

(* The sources that stand for these parties with these hardware addresses. *)
Fits(sources, parties, macs) ==
  /\ parties \subseteq Clients \cup {"server"}
  /\ Host \in sources <=> "server" \in parties /\ NoMAC \in macs
  /\ \A c \in Clients, ip \in ClientIPs : \A mac \in {NoMAC, c} :
       Resolve(mac, ip) \in sources <=> c \in parties /\ mac \in macs

(* A delta is of the Internet exactly if its transfer goes there from a    *)
(* client or the server, whether or not the server knows its address.      *)
LEMMA InternetDeltas ==
  ASSUME Typed, NEW o \in pending, NEW t \in sent, ObservedFrom(o, t), o.point \in Counting
  PROVE  /\ ClassifyScope(o, serverIPs) = "internet"
              <=> t.flow.to = "public" /\ t.flow.from \in Clients \cup {"server"}
         /\ t.flow.to = "public" => o.point = PointOf(t)
<1>1. /\ t.flow.from \in Clients \cup Others /\ t.flow.to \in Clients \cup Others
      /\ t.flow.from # t.flow.to
      /\ Stands(o.src, t.flow.from) /\ Stands(o.dst, t.flow.to)
      /\ serverIPs \subseteq {"server"}
  BY FlowsAssumption DEF Typed, TypeOK, ObservedFrom
<1>2. /\ o.point = "forward_prenat" => t.flow.from # "server" /\ t.flow.to # "server"
      /\ o.point = "host_socket" => t.flow.from = "server" \/ t.flow.to = "server"
      /\ o.point = "forward_prenat" \/ o.point = "host_socket"
  BY DEF ObservedFrom, Path, Counting
<1>3. t.flow.to = "public" => o.point = PointOf(t)
  BY <1>2 DEF PointOf
<1>4. CASE t.flow.to # "public"
  <2>1. o.dst \in ClientIPs \cup {"server", "docker"}
    BY <1>1, <1>4 DEF Stands, Others
  <2>2. ClassifyRemoteIP(o.dst) # "internet"
    BY <2>1, RemoteScopes
  <2> QED BY <1>3, <1>4, <2>2 DEF ClassifyScope
<1>5. CASE t.flow.to = "public"
  <2>1. o.dst = "public" /\ ClassifyRemoteIP(o.dst) = "internet"
    BY <1>1, <1>5, PlainNames, RemoteScopes DEF Stands
  <2>2. CASE t.flow.from = "docker"
    <3>1. o.src = "docker"
      BY <1>1, <2>2, PlainNames DEF Stands
    <3>2. {o.src, o.dst} \cap serverIPs = {}
      BY <1>1, <2>1, <3>1
    <3>3. ClassifyScope(o, serverIPs) = "docker_internal"
      BY <3>1, <3>2 DEF ClassifyScope
    <3> QED BY <1>3, <2>2, <3>3, PlainNames
  <2>3. CASE t.flow.from = "server"
    <3>1. o.src = "server" /\ o.point = "host_socket"
      BY <1>1, <1>2, <2>3, PlainNames DEF Stands
    <3>2. "docker" \notin {o.src, o.dst}
      BY <2>1, <3>1
    <3>3. ClassifyScope(o, serverIPs) = "internet"
      BY <2>1, <3>1, <3>2 DEF ClassifyScope
    <3> QED BY <1>3, <1>5, <2>3, <3>3
  <2>4. CASE t.flow.from \in Clients
    <3>1. o.src \in ClientIPs /\ o.src # "server" /\ o.src # "docker"
      BY <1>1, <2>4, PlainNames DEF Stands
    <3>2. {o.src, o.dst} \cap serverIPs = {} /\ "docker" \notin {o.src, o.dst}
      BY <1>1, <2>1, <3>1
    <3>3. ClassifyScope(o, serverIPs) = "internet"
      BY <2>1, <3>2 DEF ClassifyScope
    <3> QED BY <1>3, <1>5, <2>4, <3>3
  <2> QED BY <1>1, <1>5, <2>2, <2>3, <2>4 DEF Others
<1> QED BY <1>3, <1>4, <1>5

(* A delta is measured for the sources of these parties exactly if its     *)
(* transfer is theirs, in the period and with the bytes of the transfer.   *)
LEMMA DeltaCounts ==
  ASSUME Typed, NEW o \in pending, NEW t \in sent, ObservedFrom(o, t), NEW d \in NewDeltas(o),
         NEW sources, NEW parties, NEW macs, Fits(sources, parties, macs)
  PROVE  /\ d.of = o /\ d.upload = t.load.original /\ d.download = t.load.reply
         /\ d.scope = "internet" /\ d.source \in sources
              <=> o.point = PointOf(t) /\ t.flow \in Outbound(parties) /\ t.mac \in macs
         /\ d.scope = "internet" => d.period = TruePeriod(t.at)
<1>1. o.point \in Counting /\ d \in Delta(o, SourceOf(o), serverIPs, window)
  BY NewDelta
<1>2. o \in Observations /\ SourceOf(o) \in Sources
  BY SourceType DEF Typed, TypeOK, Observations, SourceOf, Sources
<1>3. /\ d.of = o /\ d.source = SourceOf(o) /\ d.scope = ClassifyScope(o, serverIPs)
      /\ d.scope = "internet" => d.period = TruePeriod(o.at)
      /\ d.upload = o.original /\ d.download = o.reply
  BY <1>1, <1>2, DeltaType DEF Typed
<1>4. /\ o.at = t.at /\ o.mac = t.mac /\ o.original = t.load.original /\ o.reply = t.load.reply
      /\ Stands(o.src, t.flow.from) /\ t.flow \in Flows
      /\ t.mac \in {NoMAC, IF t.flow.from \in Clients THEN t.flow.from ELSE NoMAC}
  BY <1>1 DEF ObservedFrom, Typed, TypeOK, Numbered
<1>5. d.scope = "internet"
        <=> t.flow.to = "public" /\ t.flow.from \in Clients \cup {"server"} /\ o.point = PointOf(t)
  BY <1>1, <1>3, InternetDeltas
<1>6. t.flow \in Outbound(parties) <=> t.flow.to = "public" /\ t.flow.from \in parties
  BY <1>4 DEF Outbound
<1>7. parties \subseteq Clients \cup {"server"}
  BY DEF Fits
<1>8. ASSUME d.scope = "internet"
      PROVE  d.source \in sources <=> t.flow.from \in parties /\ t.mac \in macs
  <2>1. CASE t.flow.from = "server"
    <3>1. "server" \notin Clients
      BY PlainNames
    <3>2. d.source = Host /\ t.mac = NoMAC
      BY <1>3, <1>4, <1>5, <1>8, <2>1, <3>1 DEF SourceOf, PointOf
    <3> QED BY <2>1, <3>2 DEF Fits
  <2>2. CASE t.flow.from \in Clients
    <3>1. "server" \notin Clients
      BY PlainNames
    <3>2. o.point = "forward_prenat"
      BY <1>5, <1>8, <2>2, <3>1 DEF PointOf
    <3>3. d.source = Resolve(t.mac, o.src) /\ o.src \in ClientIPs
          /\ t.mac \in {NoMAC, t.flow.from}
      BY <1>3, <1>4, <2>2, <3>2 DEF SourceOf, Stands
    <3> QED BY <2>2, <3>3 DEF Fits
  <2> QED BY <1>5, <1>8, <2>1, <2>2
<1> QED BY <1>3, <1>4, <1>5, <1>6, <1>7, <1>8

LEMMA SumAdd ==
  ASSUME NEW S, IsFiniteSet(S), NEW x, x \notin S, NEW f, \A y \in S \cup {x} : f[y] \in Nat
  PROVE  Sum(f, S \cup {x}) = f[x] + Sum(f, S)
<1>1. IsFiniteSet(S \cup {x}) /\ x \in S \cup {x} /\ (S \cup {x}) \ {x} = S
  BY FS_AddElement
<1> DEFINE T == S \cup {x}
<1>2. IsFiniteSet(T) /\ x \in T /\ \A y \in T : f[y] \in Nat
  BY <1>1
<1>3. T \ {x} = S
  BY <1>1
<1> HIDE DEF T
<1>4. Sum(f, T) = f[x] + Sum(f, T \ {x})
  BY <1>2, SumRemove
<1> QED BY <1>3, <1>4 DEF T

(* Handling an observation makes one transfer at most count as handled: at *)
(* the point where the transfer counts, the one it is of.                  *)
LEMMA HandledBy ==
  ASSUME Typed, NEW o \in pending, Handle(o), NEW t \in sent, ObservedFrom(o, t)
  PROVE  \A u \in sent :
           /\ u = t /\ o.point = PointOf(t) => ~Handled(u) /\ Handled(u)'
           /\ ~(u = t /\ o.point = PointOf(t)) => (Handled(u)' <=> Handled(u))
<1>1. pending' = pending \ {o} /\ o.n = t.n
  BY DEF Handle, ObservedFrom
<1>2. \A u \in sent : Handled(u) <=> \A q \in pending : q.n = u.n => q.point # PointOf(u)
  BY DEF Handled, PointOf
<1>3. \A u \in sent : Handled(u)' <=> \A q \in pending' : q.n = u.n => q.point # PointOf(u)
  BY DEF Handled, PointOf
<1>4. \A q \in pending : q.n = o.n /\ q.point = o.point => q = o
  BY DEF Typed, Observed
<1>5. \A u \in sent : u.n = t.n => u = t
  BY DEF Typed, Numbered
<1> QED BY <1>1, <1>2, <1>3, <1>4, <1>5

(* The two sums of Balanced: the deltas and the transfers they are over.   *)
Measured(sources, period) ==
  {d \in deltas : d.scope = "internet" /\ d.source \in sources /\ d.period = period}
Carried(flows, macs, period) ==
  {t \in sent : /\ t.flow \in flows /\ t.mac \in macs /\ TruePeriod(t.at) = period /\ Handled(t)}
Bytes(dir) == [d \in deltas |-> d[dir]]
Loaded(dir) == [t \in sent |-> IF dir = "upload" THEN t.load.original ELSE t.load.reply]

LEMMA SumsAreTyped ==
  ASSUME Typed, NEW sources, NEW flows, NEW macs, NEW period, NEW dir \in Directions
  PROVE  /\ SumInternet(sources, period, dir) = Sum(Bytes(dir), Measured(sources, period))
         /\ Expected(flows, macs, period, dir) = Sum(Loaded(dir), Carried(flows, macs, period))
         /\ Measured(sources, period) \subseteq deltas /\ Carried(flows, macs, period) \subseteq sent
         /\ IsFiniteSet(Measured(sources, period)) /\ IsFiniteSet(Carried(flows, macs, period))
         /\ \A d \in deltas : Bytes(dir)[d] \in Nat
         /\ \A t \in sent : Loaded(dir)[t] \in Nat
<1>1. IsFiniteSet(deltas) /\ IsFiniteSet(sent)
  BY DEF Typed, Numbered
<1>2. Measured(sources, period) \subseteq deltas /\ Carried(flows, macs, period) \subseteq sent
  BY DEF Measured, Carried
<1>3. IsFiniteSet(Measured(sources, period)) /\ IsFiniteSet(Carried(flows, macs, period))
  BY <1>1, <1>2, FS_Subset
<1>4. \A d \in deltas : d.upload \in Nat /\ d.download \in Nat
  BY DEF Typed, TypeOK
<1>5. \A t \in sent : t.load.original \in Nat /\ t.load.reply \in Nat
  BY LoadsAssumption DEF Typed, TypeOK
<1>6. dir = "upload" \/ dir = "download"
  BY DEF Directions
<1>7. \A d \in deltas : Bytes(dir)[d] \in Nat
  BY <1>4, <1>6 DEF Bytes
<1>8. \A t \in sent : Loaded(dir)[t] \in Nat
  BY <1>5, <1>6 DEF Loaded
<1> QED
  BY <1>2, <1>3, <1>7, <1>8 DEF SumInternet, Expected, Bytes, Loaded, Measured, Carried

(* The same of the next state. *)
LEMMA NextSumsAreTyped ==
  ASSUME Typed', NEW sources, NEW flows, NEW macs, NEW period, NEW dir \in Directions
  PROVE  /\ SumInternet(sources, period, dir)' = Sum(Bytes(dir)', Measured(sources, period)')
         /\ Expected(flows, macs, period, dir)' = Sum(Loaded(dir)', Carried(flows, macs, period)')
         /\ Measured(sources, period)' \subseteq deltas' /\ Carried(flows, macs, period)' \subseteq sent'
         /\ \A d \in deltas' : Bytes(dir)'[d] \in Nat
         /\ \A t \in sent' : Loaded(dir)'[t] \in Nat
<1>1. /\ SumInternet(sources, period, dir)' = Sum(Bytes(dir)', Measured(sources, period)')
      /\ Expected(flows, macs, period, dir)' = Sum(Loaded(dir)', Carried(flows, macs, period)')
  BY DEF SumInternet, Expected, Bytes, Loaded, Measured, Carried
<1>2. Measured(sources, period)' \subseteq deltas' /\ Carried(flows, macs, period)' \subseteq sent'
  BY DEF Measured, Carried
<1>3. TypeOK'
  BY DEF Typed
<1>4. \A d \in deltas' : d.upload \in Nat /\ d.download \in Nat
  BY <1>3 DEF TypeOK
<1>5. \A t \in sent' : t.load.original \in Nat /\ t.load.reply \in Nat
  BY <1>3, LoadsAssumption DEF TypeOK
<1>6. dir = "upload" \/ dir = "download"
  BY DEF Directions
<1>7. \A d \in deltas' : Bytes(dir)'[d] \in Nat
  BY <1>4, <1>6 DEF Bytes
<1>8. \A t \in sent' : Loaded(dir)'[t] \in Nat
  BY <1>5, <1>6 DEF Loaded
<1> QED BY <1>1, <1>2, <1>7, <1>8

(* Two sums over the same elements, before and after a step.               *)
LEMMA SumKept ==
  ASSUME NEW S, IsFiniteSet(S), NEW f, NEW g, NEW R, R = S, \A x \in S : f[x] = g[x]
  PROVE  Sum(g, R) = Sum(f, S)
BY SumEqual

LEMMA SumGrown ==
  ASSUME NEW S, IsFiniteSet(S), NEW f, NEW g, NEW x, x \notin S, NEW R, R = S \cup {x},
         \A y \in S : f[y] = g[y], \A y \in R : g[y] \in Nat
  PROVE  Sum(g, R) = g[x] + Sum(f, S)
<1>1. Sum(g, S \cup {x}) = g[x] + Sum(g, S)
  BY SumAdd
<1>2. Sum(g, S) = Sum(f, S)
  BY SumEqual
<1> QED BY <1>1, <1>2

(* Handling an observation adds the same bytes to both sums, or none.      *)
LEMMA HandleBalanced ==
  ASSUME Typed, NEW o \in pending, Handle(o),
         NEW sources, NEW parties, NEW macs, Fits(sources, parties, macs),
         Balanced(sources, Outbound(parties), macs)
  PROVE  Balanced(sources, Outbound(parties), macs)'
<1> SUFFICES ASSUME NEW period \in Periods, NEW dir \in Directions
             PROVE  SumInternet(sources, period, dir)' = Expected(Outbound(parties), macs, period, dir)'
  BY DEF Balanced
<1> DEFINE D == Measured(sources, period)
           C == Carried(Outbound(parties), macs, period)
           f == Bytes(dir)
           g == Loaded(dir)
<1>1. SumInternet(sources, period, dir) = Expected(Outbound(parties), macs, period, dir)
  BY DEF Balanced
<1>2. /\ SumInternet(sources, period, dir) = Sum(f, D)
      /\ Expected(Outbound(parties), macs, period, dir) = Sum(g, C)
      /\ D \subseteq deltas /\ C \subseteq sent /\ IsFiniteSet(D) /\ IsFiniteSet(C)
      /\ \A d \in deltas : f[d] \in Nat
      /\ \A t \in sent : g[t] \in Nat
  BY SumsAreTyped
<1>3. Typed'
  BY HandleTyped
<1>4. /\ SumInternet(sources, period, dir)' = Sum(f', D')
      /\ Expected(Outbound(parties), macs, period, dir)' = Sum(g', C')
      /\ \A d \in deltas' : f'[d] \in Nat
      /\ \A t \in sent' : g'[t] \in Nat
      /\ D' \subseteq deltas' /\ C' \subseteq sent'
  BY <1>3, NextSumsAreTyped
<1>5. deltas' = deltas \cup NewDeltas(o) /\ UNCHANGED <<sent, window, serverIPs>>
  BY DEF Handle, NewDeltas
<1>6. PICK t \in sent : ObservedFrom(o, t)
  BY DEF Typed, Observed
<1> DEFINE In == /\ o.point = PointOf(t) /\ t.flow \in Outbound(parties) /\ t.mac \in macs
                 /\ TruePeriod(t.at) = period
<1>7. /\ \A u \in sent : TruePeriod(u.at)' = TruePeriod(u.at)
      /\ g' = g
  BY <1>5 DEF TruePeriod, Loaded
<1>8. C' = IF In THEN C \cup {t} ELSE C
  <2>1. \A u \in sent :
           /\ u = t /\ o.point = PointOf(t) => ~Handled(u) /\ Handled(u)'
           /\ ~(u = t /\ o.point = PointOf(t)) => (Handled(u)' <=> Handled(u))
    BY <1>6, HandledBy
  <2>2. \A u : u \in C <=> u \in sent /\ u.flow \in Outbound(parties) /\ u.mac \in macs
                           /\ TruePeriod(u.at) = period /\ Handled(u)
    BY DEF Carried
  <2>3. \A u : u \in C' <=> u \in sent /\ u.flow \in Outbound(parties) /\ u.mac \in macs
                           /\ TruePeriod(u.at)' = period /\ Handled(u)'
    BY <1>5 DEF Carried
  <2> HIDE DEF C
  <2> QED BY <1>7, <2>1, <2>2, <2>3
<1>9. In => t \notin C
  BY <1>6, HandledBy DEF Carried
<1>10. \A d \in deltas : d \notin NewDeltas(o) /\ f'[d] = f[d]
  <2>1. \A d \in deltas : d.of # o
    BY DEF Typed, TypeOK
  <2>2. \A d \in NewDeltas(o) : d.of = o
    BY <1>6, DeltaCounts
  <2> QED BY <1>5, <2>1, <2>2 DEF Bytes
<1>11. D' = D \cup {d \in NewDeltas(o) : In}
  <2>1. \A d \in NewDeltas(o) :
          (d.scope = "internet" /\ d.source \in sources /\ d.period = period) <=> In
    BY <1>6, DeltaCounts
  <2>2. \A d : d \in D <=> d \in deltas /\ d.scope = "internet" /\ d.source \in sources /\ d.period = period
    BY DEF Measured
  <2>3. \A d : d \in D' <=> d \in deltas' /\ d.scope = "internet" /\ d.source \in sources /\ d.period = period
    BY DEF Measured
  <2> HIDE DEF D, In
  <2> QED BY <1>5, <2>1, <2>2, <2>3
<1>12. g[t] = IF dir = "upload" THEN o.original ELSE o.reply
  BY <1>6 DEF Loaded, ObservedFrom
<1>13. \A d \in NewDeltas(o) : f'[d] = g[t]
  <2>1. \A d \in NewDeltas(o) : d.upload = t.load.original /\ d.download = t.load.reply
    BY <1>6, DeltaCounts
  <2> QED BY <1>5, <1>6, <2>1 DEF Bytes, Loaded, Directions
<1>14. CASE ~In
  <2>1. C' = C /\ D' = D
    BY <1>8, <1>11, <1>14
  <2> HIDE DEF C, D, f, g, In
  <2>2. Sum(f', D') = Sum(f, D)
    BY <1>2, <1>10, <2>1, SumKept
  <2>3. Sum(g', C') = Sum(g, C)
    BY <1>7, <2>1
  <2> QED BY <1>1, <1>2, <1>4, <2>2, <2>3
<1>15. CASE In
  <2>1. C' = C \cup {t} /\ D' = D \cup NewDeltas(o) /\ t \notin C
    BY <1>8, <1>9, <1>11, <1>15
  <2>2. o.point \in Counting
    BY <1>15 DEF PointOf, Counting
  <2> HIDE DEF C, D, f, g, In
  <2>3. Sum(g', C') = g[t] + Sum(g, C)
    BY <1>2, <1>4, <1>7, <2>1, SumGrown
  <2>4. CASE NewDeltas(o) = {}
    <3>1. o.original = 0 /\ o.reply = 0
      BY <2>2, <2>4, AtMostOne
    <3>2. g[t] = 0
      BY <1>12, <3>1
    <3>3. Sum(f', D') = Sum(f, D)
      BY <1>2, <1>10, <2>1, <2>4, SumKept
    <3>4. Sum(g, C) \in Nat
      BY <1>2, SumType
    <3>5. \A k \in Nat : 0 + k = k
      OBVIOUS
    <3>6. Sum(g', C') = Sum(g, C)
      BY ONLY <2>3, <3>2, <3>4, <3>5
    <3> QED BY ONLY <1>1, <1>2, <1>4, <3>3, <3>6
  <2>5. CASE NewDeltas(o) # {}
    <3>1. PICK d : NewDeltas(o) = {d}
      <4>1. ~(o.original = 0 /\ o.reply = 0)
        BY <2>5, AtMostOne
      <4> QED BY <2>2, <4>1, AtMostOne
    <3>2. d \notin D /\ D' = D \cup {d} /\ f'[d] = g[t]
      BY <1>2, <1>10, <1>13, <2>1, <3>1
    <3>3. Sum(f', D') = f'[d] + Sum(f, D)
      BY <1>2, <1>4, <1>10, <3>2, SumGrown
    <3> QED BY <1>1, <1>2, <1>4, <2>3, <3>2, <3>3
  <2> QED BY <2>4, <2>5
<1> QED BY <1>14, <1>15

(* A new transfer is not handled until its observation is.                 *)
LEMMA TransferBalanced ==
  ASSUME Typed, NEW fl \in Flows, NEW load \in Loads, NEW mac \in Clients \cup {NoMAC},
         Transfer(fl, load, mac),
         NEW sources, NEW parties, NEW macs, Fits(sources, parties, macs),
         Balanced(sources, Outbound(parties), macs)
  PROVE  Balanced(sources, Outbound(parties), macs)'
<1> SUFFICES ASSUME NEW period \in Periods, NEW dir \in Directions
             PROVE  SumInternet(sources, period, dir)' = Expected(Outbound(parties), macs, period, dir)'
  BY DEF Balanced
<1> DEFINE D == Measured(sources, period)
           C == Carried(Outbound(parties), macs, period)
           f == Bytes(dir)
           g == Loaded(dir)
<1>1. SumInternet(sources, period, dir) = Expected(Outbound(parties), macs, period, dir)
  BY DEF Balanced
<1>2. /\ SumInternet(sources, period, dir) = Sum(f, D)
      /\ Expected(Outbound(parties), macs, period, dir) = Sum(g, C)
      /\ C \subseteq sent /\ IsFiniteSet(C)
  BY SumsAreTyped
<1>3. Typed'
  BY TransferTyped
<1>4. /\ SumInternet(sources, period, dir)' = Sum(f', D')
      /\ Expected(Outbound(parties), macs, period, dir)' = Sum(g', C')
  BY <1>3, NextSumsAreTyped
<1>5. PICK n : n = Cardinality(sent)
  OBVIOUS
<1>6. PICK t : t = [n |-> n, flow |-> fl, at |-> clock, mac |-> mac, load |-> load]
  OBVIOUS
<1>7. /\ sent' = sent \cup {t} /\ pending \subseteq pending' /\ t \notin sent
      /\ \A o \in pending' \ pending : ObservedFrom(o, t)
      /\ \A p \in Path(fl) \cap Tapped : \E o \in pending' : o.n = n /\ o.point = p
      /\ UNCHANGED <<serverIPs, window, clock, lease, deltas>>
  BY <1>5, <1>6, TransferTypes
<1>8. t.flow = fl /\ t.n = n
  BY <1>6
<1>9. D' = D /\ f' = f
  BY <1>7 DEF Measured, Bytes
<1>10. \A u \in sent : Handled(u)' <=> Handled(u)
  <2>1. \A u \in sent : u.n # n
    <3>1. \A u \in sent : u.n < n /\ u.n \in Int /\ n \in Int
      BY <1>5, FS_CardinalityType DEF Typed, TypeOK, Numbered
    <3> QED BY <3>1
  <2>2. \A o \in pending' \ pending : o.n = n
    BY <1>7, <1>8 DEF ObservedFrom
  <2>3. \A u \in sent : Handled(u) <=> \A q \in pending : q.n = u.n => q.point # PointOf(u)
    BY DEF Handled, PointOf
  <2>4. \A u \in sent : Handled(u)' <=> \A q \in pending' : q.n = u.n => q.point # PointOf(u)
    BY DEF Handled, PointOf
  <2> QED BY <1>7, <2>1, <2>2, <2>3, <2>4
<1>11. t.flow \in Outbound(parties) => ~Handled(t)'
  <2> SUFFICES ASSUME t.flow \in Outbound(parties) PROVE ~Handled(t)'
    OBVIOUS
  <2>1. fl.to = "public" /\ fl.from \in Clients \cup {"server"}
    BY <1>8 DEF Outbound, Fits
  <2>2. PointOf(t) \in Path(fl) \cap Tapped
    BY <1>8, <2>1, TappedAssumption, PlainNames DEF PointOf, Path
  <2>3. PICK o \in pending' : o.n = t.n /\ o.point = PointOf(t)
    BY <1>7, <1>8, <2>2
  <2>4. Handled(t)' <=> \A q \in pending' : q.n = t.n => q.point # PointOf(t)
    BY DEF Handled, PointOf
  <2> QED BY <2>3, <2>4
<1>12. C' = C
  <2>1. \A u : u \in C <=> u \in sent /\ u.flow \in Outbound(parties) /\ u.mac \in macs
                           /\ TruePeriod(u.at) = period /\ Handled(u)
    BY DEF Carried
  <2>2. \A u : u \in C' <=> u \in sent' /\ u.flow \in Outbound(parties) /\ u.mac \in macs
                           /\ TruePeriod(u.at)' = period /\ Handled(u)'
    BY DEF Carried
  <2>3. \A u \in sent' : TruePeriod(u.at)' = TruePeriod(u.at)
    BY <1>7 DEF TruePeriod
  <2> HIDE DEF C
  <2> QED BY <1>7, <1>10, <1>11, <2>1, <2>2, <2>3
<1>13. \A u \in C : g[u] = g'[u]
  BY <1>2, <1>7 DEF Loaded
<1> HIDE DEF C, D, f, g
<1>14. Sum(g', C') = Sum(g, C)
  BY <1>2, <1>12, <1>13, SumKept
<1> QED BY <1>1, <1>2, <1>4, <1>9, <1>14

(* At the start both sums are empty, and no step of the environment        *)
(* changes them.                                                           *)
LEMMA BalancedInductive ==
  ASSUME NEW sources, NEW parties, NEW macs, Fits(sources, parties, macs)
  PROVE  /\ Init => Balanced(sources, Outbound(parties), macs)
         /\ Typed /\ Balanced(sources, Outbound(parties), macs) /\ [Next]_vars
              => Balanced(sources, Outbound(parties), macs)'
<1>1. ASSUME Init, NEW period \in Periods, NEW dir \in Directions
      PROVE  SumInternet(sources, period, dir) = Expected(Outbound(parties), macs, period, dir)
  <2>1. Typed
    BY <1>1, TypeInductive
  <2>2. Measured(sources, period) = {} /\ Carried(Outbound(parties), macs, period) = {}
    BY <1>1 DEF Init, Measured, Carried
  <2>3. \A h : Sum(h, {}) = 0
    BY FS_EmptySet, SumStep
  <2> QED BY <2>1, <2>2, <2>3, SumsAreTyped
<1>2. ASSUME Typed, Balanced(sources, Outbound(parties), macs), [Next]_vars
      PROVE  Balanced(sources, Outbound(parties), macs)'
  <2>1. CASE UNCHANGED <<window, pending, deltas, sent>>
    BY <1>2, <2>1 DEF Balanced, SumInternet, Expected, TruePeriod, Handled
  <2> QED BY <1>2, <2>1, TransferBalanced, HandleBalanced DEF Next, PassTime, Renew, vars
<1> QED BY <1>1, <1>2 DEF Balanced

(* What goes to the Internet from one client, or from all and the server,  *)
(* is known by its source.                                                 *)
LEMMA DeviceFits ==
  ASSUME NEW c \in Clients
  PROVE  Fits({s \in Sources : s.of = c}, Clients, {c})
<1>1. Host \notin {s \in Sources : s.of = c} /\ "server" \notin Clients /\ c # NoMAC
  BY PlainNames DEF Host
<1>2. ASSUME NEW d \in Clients, NEW ip \in ClientIPs, NEW mac \in {NoMAC, d}
      PROVE  Resolve(mac, ip) \in {s \in Sources : s.of = c} <=> mac \in {c}
  <2>1. ip # c /\ d # NoMAC
    BY PlainNames
  <2>2. Resolve(mac, ip) \in Sources
    BY SourceType
  <2>3. Resolve(mac, ip).of = IF mac = NoMAC THEN ip ELSE mac
    BY DEF Resolve
  <2> QED BY <1>1, <2>1, <2>2, <2>3
<1> QED BY <1>1, <1>2 DEF Fits

LEMMA AllFit == Fits(Sources, Clients \cup {"server"}, Clients \cup {NoMAC})
<1>1. Host \in Sources
  BY DEF Sources
<1>2. ASSUME NEW c \in Clients, NEW ip \in ClientIPs, NEW mac \in {NoMAC, c}
      PROVE  Resolve(mac, ip) \in Sources
  BY SourceType
<1> QED BY <1>1, <1>2 DEF Fits

LEMMA DevicesInductive ==
  /\ Init => DevicesKeepTheirBytes
  /\ Typed /\ DevicesKeepTheirBytes /\ [Next]_vars => DevicesKeepTheirBytes'
BY DeviceFits, BalancedInductive DEF DevicesKeepTheirBytes

LEMMA OutboundInductive ==
  /\ Init => OutboundIsMeasuredOnce
  /\ Typed /\ OutboundIsMeasuredOnce /\ [Next]_vars => OutboundIsMeasuredOnce'
BY AllFit, BalancedInductive DEF OutboundIsMeasuredOnce

(* However addresses move between clients and however late observations    *)
(* are handled, a device is charged with its own Internet bytes, in the    *)
(* period they were carried in (model.go:92-116, 132-152, 211-248).        *)
THEOREM DevicesAlwaysKeepTheirBytes == Spec => []DevicesKeepTheirBytes
BY TypeInductive, DevicesInductive, PTL DEF Spec

(* Of all points a transfer passes, one counts, and LAN, server and        *)
(* container traffic is not taken for the Internet's (model.go:211-217,    *)
(* 250-256, 292-306).                                                      *)
THEOREM OutboundIsAlwaysMeasuredOnce == Spec => []OutboundIsMeasuredOnce
BY TypeInductive, OutboundInductive, PTL DEF Spec
=============================================================================
