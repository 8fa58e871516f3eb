------------------------ MODULE ReportingProofs -----------------------------
(***************************************************************************)
(* Theorems about what is reported of the traffic: by TrafficReports, for  *)
(* days of any length, any number of days, any offset and free window; and *)
(* by the Dashboard, for any endpoints, intervals and times.               *)
(***************************************************************************)
EXTENDS TrafficReports, Dashboard, SumTheorems

-----------------------------------------------------------------------------
(* Time.                                                                   *)

(* Division is where linear arithmetic ends: what it gives, once.          *)
LEMMA Quotient ==
  ASSUME NEW n \in Nat, NEW m \in Nat \ {0}
  PROVE  /\ n \div m \in Nat
         /\ m * (n \div m) <= n /\ n < m * (n \div m) + m
OBVIOUS

LEMMA QuotientBound ==
  ASSUME NEW n \in Nat, NEW m \in Nat \ {0}, NEW d \in Nat, n < m * d
  PROVE  n \div m < d
<1> DEFINE q == n \div m
<1>1. q \in Nat /\ m * q <= n
  BY Quotient
<1> HIDE DEF q
<1>2. SUFFICES ASSUME q >= d PROVE FALSE
  BY <1>1 DEF q
<1>3. PICK k \in Nat : q = d + k
  <2>1. q - d \in Nat /\ q = d + (q - d)
    BY <1>1, <1>2
  <2> QED BY <2>1
<1>4. m * q = m * d + m * k /\ m * k \in Nat /\ m * d \in Nat
  BY <1>3
<1> QED BY <1>1, <1>4

(* Every half hour is in an hour and a day, and its hour is in its day.    *)
LEMMA HoursAndDays ==
  /\ IsFiniteSet(Slots) /\ IsFiniteSet(Buckets) /\ IsFiniteSet(Classes)
  /\ Slots \subseteq Nat /\ Buckets \subseteq Nat
  /\ \A s \in Slots :
       /\ HourOf(s) \in Buckets /\ DayOf(s) \in 0 .. Days - 1
       /\ Midnight(DayOf(s)) <= HourOf(s) /\ HourOf(s) < Midnight(DayOf(s) + 1)
       /\ 2 * HourOf(s) <= s /\ s <= 2 * HourOf(s) + 1
  /\ \A s \in Slots : \A t \in 0 .. s : t \in Slots /\ HourOf(t) <= HourOf(s)
  /\ \A day \in Nat : Midnight(day) \in Nat
<1> DEFINE all == Hours * Days
<1>1. /\ Hours \in Nat \ {0} /\ Days \in Nat \ {0} /\ all \in Nat /\ 2 * Hours * Days = 2 * all
      /\ (2 * Hours) * Days = 2 * all
  BY BoundsAssumption
<1> HIDE DEF all
<1>2. Slots = 0 .. 2 * all - 1 /\ Buckets = 0 .. all - 1
  BY <1>1 DEF Slots, Buckets, all
<1>3. IsFiniteSet(Slots) /\ IsFiniteSet(Buckets)
  BY <1>1, <1>2, FS_Interval
<1>4. IsFiniteSet(Classes)
  <2>1. IsFiniteSet({"lan"})
    BY FS_Singleton
  <2>2. IsFiniteSet({"lan"} \cup {"internet"})
    BY <2>1, FS_AddElement
  <2>3. Classes = {"lan"} \cup {"internet"}
    BY DEF Classes
  <2> QED BY <2>2, <2>3
<1>5. ASSUME NEW s \in Slots
      PROVE  /\ HourOf(s) \in Buckets
             /\ 2 * HourOf(s) <= s /\ s <= 2 * HourOf(s) + 1
             /\ \A t \in 0 .. s : t \in Slots /\ HourOf(t) <= HourOf(s)
  BY <1>1, <1>2 DEF HourOf
<1>6. ASSUME NEW s \in Slots
      PROVE  /\ DayOf(s) \in 0 .. Days - 1
             /\ Midnight(DayOf(s)) <= HourOf(s) /\ HourOf(s) < Midnight(DayOf(s) + 1)
  <2> DEFINE day == DayOf(s)
             k == day * Hours
  <2>1. s \in Nat /\ s < (2 * Hours) * Days /\ 2 * Hours \in Nat \ {0}
    BY <1>1, <1>2
  <2>2. day \in Nat /\ (2 * Hours) * day <= s /\ s < (2 * Hours) * day + 2 * Hours
    BY <2>1, Quotient DEF DayOf
  <2>3. day < Days
    BY <1>1, <2>1, QuotientBound DEF DayOf
  <2> HIDE DEF day
  <2>4. (2 * Hours) * day = 2 * k /\ (day + 1) * Hours = k + Hours /\ k \in Nat
    BY <1>1, <2>2
  <2>5. Midnight(day) = k /\ Midnight(day + 1) = k + Hours
    BY <2>4 DEF Midnight
  <2> HIDE DEF k
  <2>6. 2 * k <= s /\ s < 2 * (k + Hours) /\ k \in Nat
    BY <1>1, <2>2, <2>4
  <2>7. k <= HourOf(s) /\ HourOf(s) < k + Hours
    BY <1>1, <2>1, <2>6 DEF HourOf
  <2> QED BY <1>1, <2>2, <2>3, <2>5, <2>7 DEF day
<1>7. \A day \in Nat : Midnight(day) \in Nat
  BY <1>1 DEF Midnight
<1>8. Slots \subseteq Nat /\ Buckets \subseteq Nat
  BY <1>1, <1>2
<1> QED BY <1>3, <1>4, <1>5, <1>6, <1>7, <1>8

-----------------------------------------------------------------------------
(* Types.                                                                  *)

(* The totals of a query are natural numbers.                              *)
LEMMA QueryTypes ==
  ASSUME TypeOK
  PROVE  /\ \A c \in Classes, S \in SUBSET Buckets : Sum(hourly[c], S) \in Nat
         /\ \A S \in SUBSET Buckets : FreeOf(S) \in Nat
<1>1. ASSUME NEW c \in Classes, NEW S \in SUBSET Buckets
      PROVE  Sum(hourly[c], S) \in Nat
  <2>1. IsFiniteSet(S)
    BY HoursAndDays, FS_Subset
  <2>2. \A h \in S : hourly[c][h] \in Nat
    BY DEF TypeOK
  <2> QED BY <2>1, <2>2, SumType
<1>2. "internet" \in Classes
  BY DEF Classes
<1>3. \A S \in SUBSET Buckets : {h \in S : PeriodAt(StartOf(h)) = "free_night"} \in SUBSET Buckets
  OBVIOUS
<1> QED BY <1>1, <1>2, <1>3 DEF FreeOf

Replies ==
  [kind : Kinds \cup {"none"}, status : {"none", "ok", "unavailable"},
   day : 0 .. Days - 1, internet : Nat, free : Nat]

LEMMA AnswerTypes ==
  /\ NoAnswer \in Replies
  /\ \A kind \in Kinds : Unavailable(kind) \in Replies
<1>1. 0 \in 0 .. Days - 1
  BY BoundsAssumption
<1>2. NoAnswer \in Replies
  BY <1>1 DEF NoAnswer, Replies
<1>3. ASSUME NEW kind \in Kinds PROVE Unavailable(kind) \in Replies
  <2> QED BY <1>2, <1>3 DEF Unavailable, Replies
<1> QED BY <1>2, <1>3

(* Every report leaves the types alone.                                    *)
LEMMA RespondTypes ==
  ASSUME TypeOK, NEW reply \in Replies, Respond(reply)
  PROVE  TypeOK'
BY DEF Respond, TypeOK, Replies, collector, tables

(* A write adds the batch to the rows of its hour.                         *)
LEMMA WriteRows ==
  ASSUME TypeOK, WriteDeltas
  PROVE  /\ batch \in [stamp : 0 .. now, bytes : [Classes -> Nat]]
         /\ HourOf(batch.stamp) \in Buckets
         /\ hourly' \in [Classes -> [Buckets -> Nat]]
         /\ \A c \in Classes, h \in Buckets :
              hourly'[c][h] = hourly[c][h] + (IF HourOf(batch.stamp) = h THEN batch.bytes[c] ELSE 0)
<1> DEFINE hour == HourOf(batch.stamp)
           row(c) == [hourly[c] EXCEPT ![hour] = @ + batch.bytes[c]]
<1>1. batch \in [stamp : 0 .. now, bytes : [Classes -> Nat]]
  BY DEF TypeOK, WriteDeltas
<1>2. hour \in Buckets
  BY <1>1, HoursAndDays DEF TypeOK
<1>3. hourly' = [c \in Classes |-> row(c)]
  BY DEF WriteDeltas
<1> HIDE DEF hour
<1>4. \A c \in Classes : hourly[c] \in [Buckets -> Nat] /\ batch.bytes[c] \in Nat
  BY <1>1 DEF TypeOK
<1>5. \A c \in Classes :
        /\ row(c) \in [Buckets -> Nat]
        /\ \A h \in Buckets : row(c)[h] = hourly[c][h] + (IF hour = h THEN batch.bytes[c] ELSE 0)
  BY <1>2, <1>4
<1> HIDE DEF row
<1>6. hourly' \in [Classes -> [Buckets -> Nat]] /\ \A c \in Classes : hourly'[c] = row(c)
  BY <1>3, <1>5
<1> QED BY <1>1, <1>2, <1>5, <1>6 DEF hour

LEMMA TypeInductive == (Init => TypeOK) /\ (TypeOK /\ [Next]_vars => TypeOK')
<1>1. ASSUME Init PROVE TypeOK
  <2>1. 0 \in Slots
    BY BoundsAssumption, HoursAndDays DEF Slots
  <2> QED BY <1>1, <2>1, AnswerTypes DEF Init, TypeOK, Replies
<1>2. ASSUME TypeOK, [Next]_vars PROVE TypeOK'
  <2> USE DEF collector, tables, api
  <2>1. CASE PassTime
    <3>1. now' \in Slots /\ \A n \in 0 .. now : n \in 0 .. now'
      BY <1>2, <2>1, HoursAndDays DEF PassTime, TypeOK
    <3>2. batch' \in {NoBatch} \cup [stamp : 0 .. now', bytes : [Classes -> Nat]]
      BY <1>2, <2>1, <3>1 DEF PassTime, TypeOK
    <3>3. request' \in {NoRequest} \cup [kind : Kinds, step : {"has_data", "query"}, at : 0 .. now']
      BY <1>2, <2>1, <3>1 DEF PassTime, TypeOK
    <3>4. prompt' \in BOOLEAN
      BY <2>1 DEF PassTime
    <3> QED BY <1>2, <2>1, <3>1, <3>2, <3>3, <3>4 DEF PassTime, TypeOK
  <2>2. ASSUME NEW c \in Classes, Carry(c) PROVE TypeOK'
    <3>1. carried' \in [Classes -> [Slots -> Nat]]
      BY <1>2, <2>2 DEF Carry, TypeOK
    <3>2. unbooked' \in [Classes -> Nat]
      BY <1>2, <2>2 DEF Carry, TypeOK
    <3> QED BY <1>2, <2>2, <3>1, <3>2 DEF Carry, TypeOK
  <2>3. CASE StopCollecting
    BY <1>2, <2>3 DEF StopCollecting, TypeOK
  <2>4. CASE Tick
    <3>1. now \in 0 .. now
      BY <1>2, HoursAndDays DEF TypeOK
    <3>2. batch' \in [stamp : 0 .. now, bytes : [Classes -> Nat]]
      BY <1>2, <2>4, <3>1 DEF Tick, TypeOK
    <3>3. unbooked' \in [Classes -> Nat]
      BY <2>4 DEF Tick
    <3> QED BY <1>2, <2>4, <3>2, <3>3 DEF Tick, TypeOK
  <2>5. CASE WriteDeltas
    <3>3. hourly' \in [Classes -> [Buckets -> Nat]]
      BY <1>2, <2>5, WriteRows
    <3>4. UNCHANGED <<now, collecting, unbooked, store, request, answer, carried, prompt>>
          /\ batch' = NoBatch /\ samples' = TRUE
      BY <2>5 DEF WriteDeltas
    <3>5. samples' \in BOOLEAN
      BY <3>4
    <3> QED BY <1>2, <3>3, <3>4, <3>5 DEF TypeOK
  <2>6. ASSUME NEW kind \in Kinds, Arrive(kind) PROVE TypeOK'
    <3>1. now \in 0 .. now
      BY <1>2, HoursAndDays DEF TypeOK
    <3>2. request' \in {NoRequest} \cup [kind : Kinds, step : {"has_data", "query"}, at : 0 .. now]
      BY <1>2, <2>6, <3>1 DEF Arrive, TypeOK
    <3>3. answer' \in Replies
      BY <1>2, <2>6, AnswerTypes DEF Arrive, TypeOK, Replies
    <3> QED BY <1>2, <2>6, <3>2, <3>3 DEF Arrive, TypeOK, Replies
  <2>7. CASE HasTrafficData
    <3>1. request \in [kind : Kinds, step : {"has_data", "query"}, at : 0 .. now]
      BY <1>2, <2>7 DEF HasTrafficData, TypeOK, NoRequest
    <3>2. now \in 0 .. now
      BY <1>2, HoursAndDays DEF TypeOK
    <3>3. request' = [request EXCEPT !.step = "query", !.at = now]
      BY <2>7 DEF HasTrafficData
    <3>4. request' \in [kind : Kinds, step : {"has_data", "query"}, at : 0 .. now]
      BY <3>1, <3>2, <3>3
    <3> QED BY <1>2, <2>7, <3>4 DEF HasTrafficData, TypeOK
  <2>8. request # NoRequest => request.kind \in Kinds /\ request.at \in Slots
    BY <1>2, HoursAndDays DEF TypeOK
  <2>9. CASE HasNoTrafficData \/ QueryFails
    <3>1. Respond(Unavailable(request.kind)) /\ request # NoRequest
      BY <2>9 DEF HasNoTrafficData, QueryFails, NoRequest
    <3> QED BY <1>2, <2>8, <3>1, AnswerTypes, RespondTypes
  <2>10. ASSUME NEW day \in 0 .. Days - 1, NEW internet \in Nat, NEW free \in Nat,
                Respond(Answer(day, internet, free)), request # NoRequest
         PROVE  TypeOK'
    <3>1. Answer(day, internet, free) \in Replies
      BY <2>8, <2>10 DEF Answer, Replies
    <3> QED BY <1>2, <2>10, <3>1, RespondTypes
  <2>11. \A at : IspBuckets(at) \in SUBSET Buckets /\ DailyBuckets(at) \in SUBSET Buckets
    BY DEF IspBuckets, DailyBuckets
  <2>12. "internet" \in Classes
    BY DEF Classes
  <2>13. \A S \in SUBSET Buckets : Sum(hourly["internet"], S) \in Nat /\ FreeOf(S) \in Nat
    BY <1>2, <2>12, QueryTypes
  <2>14. \A at \in Slots : TodayTotals(at) \in Nat
    <3>1. \A at : TodayTotals(at) = Sum(hourly["internet"], DailyBuckets(DayOf(at)))
      BY DEF TodayTotals, Rows, DailyBuckets
    <3> QED BY <2>11, <2>13, <3>1
  <2>15. CASE AnswerDashboard
    <3>1. request # NoRequest
      BY <2>15 DEF AnswerDashboard, NoRequest
    <3>2. DayOf(request.at) \in 0 .. Days - 1 /\ TodayTotals(request.at) \in Nat
      BY <2>8, <2>14, <3>1, HoursAndDays
    <3> QED BY <2>10, <2>15, <3>1, <3>2 DEF AnswerDashboard
  <2>16. CASE AnswerIsp
    <3>1. request # NoRequest
      BY <2>16 DEF AnswerIsp, NoRequest, Kinds
    <3>2. DayOf(request.at) \in 0 .. Days - 1
      BY <2>8, <3>1, HoursAndDays
    <3> QED BY <2>10, <2>11, <2>13, <2>16, <3>1, <3>2 DEF AnswerIsp
  <2>17. CASE AnswerDaily
    <3>1. request # NoRequest
      BY <2>17 DEF AnswerDaily, NoRequest
    <3> QED BY <2>10, <2>11, <2>13, <2>17, <3>1 DEF AnswerDaily
  <2>18. CASE UNCHANGED vars
    BY <1>2, <2>18 DEF vars, TypeOK
  <2> QED
    BY <1>2, <2>1, <2>2, <2>3, <2>4, <2>5, <2>6, <2>7, <2>9, <2>15, <2>16, <2>17, <2>18 DEF Next
<1> QED BY <1>1, <1>2

(* Every variable keeps its type: no row before the first bucket or beyond *)
(* the last, and no request or batch from the future (writer.go, main.go). *)
THEOREM ReportTypes == Spec => []TypeOK
BY TypeInductive, PTL DEF Spec

-----------------------------------------------------------------------------
(* Hours hold what passed in them.                                         *)

Halves(h) == {s \in Slots : HourOf(s) = h}

LEMMA ExactInductive ==
  (Init => PromptHoursAreExact) /\ (TypeOK /\ PromptHoursAreExact /\ [Next]_vars => PromptHoursAreExact')
<1> DEFINE InBatch(c, h) == IF batch # NoBatch /\ HourOf(batch.stamp) = h THEN batch.bytes[c] ELSE 0
           Unread(c, h) == IF HourOf(now) = h THEN unbooked[c] ELSE 0
           Exact(c, h) == hourly[c][h] + InBatch(c, h) + Unread(c, h) = Sum(carried[c], Halves(h))
<1>1. PromptHoursAreExact <=> (prompt /\ collecting => \A c \in Classes, h \in Buckets : Exact(c, h))
  BY DEF PromptHoursAreExact, Halves
<1>2. PromptHoursAreExact' <=>
        (prompt' /\ collecting' => \A c \in Classes, h \in Buckets : Exact(c, h)')
  BY DEF PromptHoursAreExact, Halves
<1>3. \A h : Halves(h) \in SUBSET Slots /\ IsFiniteSet(Halves(h))
  BY HoursAndDays, FS_Subset DEF Halves
<1>4. ASSUME Init PROVE PromptHoursAreExact
  <2>1. ASSUME NEW c \in Classes, NEW h \in Buckets PROVE Exact(c, h)
    <3>1. \A s \in Halves(h) : carried[c][s] = 0
      BY <1>3, <1>4 DEF Init
    <3>2. Sum(carried[c], Halves(h)) = 0
      BY <1>3, <3>1, SumZero
    <3>3. hourly[c][h] = 0 /\ InBatch(c, h) = 0 /\ Unread(c, h) = 0
      BY <1>4 DEF Init
    <3> QED BY <3>2, <3>3
  <2> QED BY <1>1, <2>1
<1>5. ASSUME TypeOK, PromptHoursAreExact, [Next]_vars, prompt', collecting',
             NEW c \in Classes, NEW h \in Buckets
      PROVE  Exact(c, h)'
  <2> USE DEF collector, tables, api
  <2>1. /\ hourly[c][h] \in Nat /\ InBatch(c, h) \in Nat /\ unbooked[c] \in Nat
        /\ Unread(c, h) \in Nat
    BY <1>5 DEF TypeOK, NoBatch
  <2>2. (prompt /\ collecting) => Exact(c, h)
    BY <1>1, <1>5
  <2>3. CASE PassTime
    <3>1. Exact(c, h) /\ unbooked[c] = 0 /\ UNCHANGED <<batch, hourly, carried, unbooked>>
      BY <1>5, <2>2, <2>3 DEF PassTime
    <3> QED BY <3>1
  <2>4. ASSUME NEW d \in Classes, Carry(d) PROVE Exact(c, h)'
    <3> DEFINE n == IF c = d /\ HourOf(now) = h THEN 1 ELSE 0
    <3>1. Exact(c, h) /\ UNCHANGED <<now, batch, hourly>>
      BY <1>5, <2>2, <2>4 DEF Carry
    <3>2. Unread(c, h)' = Unread(c, h) + n
      BY <1>5, <2>4 DEF Carry, TypeOK
    <3>3. Sum(carried'[c], Halves(h)) = Sum(carried[c], Halves(h)) + n
      <4>1. \A s \in Slots : carried[c][s] \in Nat /\
              carried'[c][s] = carried[c][s] + (IF c = d /\ s = now THEN 1 ELSE 0)
        BY <1>5, <2>4 DEF Carry, TypeOK
      <4>2. now \in Slots
        BY <1>5 DEF TypeOK
      <4>3. \A s \in Halves(h) : s \in Slots /\ carried[c][s] \in Nat
        BY <1>3, <4>1
      <4>4. CASE c = d /\ HourOf(now) = h
        <5>1. now \in Halves(h)
          BY <4>2, <4>4 DEF Halves
        <5>2. carried'[c][now] = carried[c][now] + 1
          BY <4>1, <4>2, <4>4
        <5>3. \A s \in Halves(h) \ {now} : carried'[c][s] = carried[c][s]
          BY <4>1, <4>3
        <5>4. Sum(carried'[c], Halves(h)) = Sum(carried[c], Halves(h)) + 1
          BY <1>3, <4>3, <5>1, <5>2, <5>3, SumUpdate
        <5> QED BY <4>4, <5>4
      <4>5. CASE ~(c = d /\ HourOf(now) = h)
        <5>1. \A s \in Halves(h) : carried'[c][s] = carried[c][s]
          BY <4>1, <4>3, <4>5 DEF Halves
        <5>2. Sum(carried'[c], Halves(h)) = Sum(carried[c], Halves(h))
          BY <1>3, <5>1, SumEqual
        <5>3. Sum(carried[c], Halves(h)) \in Nat
          BY <1>3, <4>3, SumType
        <5> QED BY <4>5, <5>2, <5>3
      <4> QED BY <4>4, <4>5
    <3>4. n \in Nat /\ InBatch(c, h)' = InBatch(c, h) /\ hourly'[c][h] = hourly[c][h]
      BY <3>1
    <3> HIDE DEF n, Unread, InBatch
    <3> QED BY <2>1, <3>1, <3>2, <3>3, <3>4
  <2>5. CASE StopCollecting
    BY <1>5, <2>5 DEF StopCollecting
  <2>6. CASE Tick
    <3>1. Exact(c, h) /\ UNCHANGED <<now, hourly, carried>>
      BY <1>5, <2>2, <2>6 DEF Tick
    <3>2. InBatch(c, h) = 0 /\ Unread(c, h)' = 0
      BY <2>6 DEF Tick
    <3>3. now \in Slots /\ batch' = [stamp |-> now, bytes |-> unbooked] /\ now >= 0
      BY <1>5, <2>6, HoursAndDays DEF Tick, TypeOK
    <3>4. batch' # NoBatch
      BY <3>3 DEF NoBatch
    <3>5. InBatch(c, h)' = Unread(c, h)
      BY <3>3, <3>4
    <3> HIDE DEF Unread, InBatch
    <3> QED BY <2>1, <3>1, <3>2, <3>5
  <2>7. CASE WriteDeltas
    <3>1. Exact(c, h) /\ UNCHANGED <<now, unbooked, carried>>
      BY <1>5, <2>2, <2>7 DEF WriteDeltas
    <3>2. hourly'[c][h] = hourly[c][h] + InBatch(c, h)
      <4>1. batch # NoBatch
        BY <2>7 DEF WriteDeltas
      <4> QED BY <1>5, <2>7, <4>1, WriteRows
    <3>3. InBatch(c, h)' = 0 /\ Unread(c, h)' = Unread(c, h)
      BY <2>7, <3>1 DEF WriteDeltas
    <3> HIDE DEF Unread, InBatch
    <3> QED BY <2>1, <3>1, <3>2, <3>3
  <2>8. (\E kind \in Kinds : Arrive(kind)) \/ HasTrafficData \/ HasNoTrafficData \/ QueryFails
        \/ AnswerDashboard \/ AnswerIsp \/ AnswerDaily \/ UNCHANGED vars
          => UNCHANGED <<now, collecting, unbooked, batch, hourly, carried, prompt>>
    BY DEF Arrive, HasTrafficData, HasNoTrafficData, QueryFails, AnswerDashboard, AnswerIsp,
           AnswerDaily, Respond, vars
  <2>9. ASSUME UNCHANGED <<now, collecting, unbooked, batch, hourly, carried, prompt>>
        PROVE  Exact(c, h)'
    BY <1>5, <2>2, <2>9
  <2> QED BY <1>5, <2>3, <2>4, <2>5, <2>6, <2>7, <2>8, <2>9 DEF Next
<1> QED BY <1>2, <1>4, <1>5

(* As long as every half hour with traffic has a poll, each row holds the  *)
(* bytes of its hour, whatever the commits are delayed by (writer.go).     *)
THEOREM PromptHoursAreAlwaysExact == Spec => []PromptHoursAreExact
BY TypeInductive, ExactInductive, PTL DEF Spec

-----------------------------------------------------------------------------
(* Reports agree.                                                          *)

(* No row is ahead of the clock.                                           *)
FutureIsEmpty ==
  \A c \in Classes, h \in Buckets : h > HourOf(now) => hourly[c][h] = 0

LEMMA FutureInductive ==
  (Init => FutureIsEmpty) /\ (TypeOK /\ FutureIsEmpty /\ [Next]_vars => FutureIsEmpty')
<1>1. ASSUME Init PROVE FutureIsEmpty
  BY <1>1 DEF Init, FutureIsEmpty
<1>2. ASSUME TypeOK, FutureIsEmpty, [Next]_vars PROVE FutureIsEmpty'
  <2> USE DEF collector, tables, api
  <2>1. CASE PassTime
    <3>1. now' \in Slots /\ now \in 0 .. now' /\ now \in Slots /\ hourly' = hourly
      BY <1>2, <2>1, HoursAndDays DEF PassTime, TypeOK
    <3>2. HourOf(now) <= HourOf(now') /\ HourOf(now) \in Buckets /\ HourOf(now') \in Buckets
      BY <3>1, HoursAndDays
    <3>3. \A h \in Buckets : h > HourOf(now') => h > HourOf(now)
      <4>1. \A h \in Buckets : h \in Nat
        BY HoursAndDays
      <4> QED BY <3>2, <4>1
    <3> QED BY <1>2, <3>1, <3>3 DEF FutureIsEmpty
  <2>2. CASE WriteDeltas
    <3>1. batch.stamp \in 0 .. now /\ now' = now /\ now \in Slots
      BY <1>2, <2>2, WriteRows DEF WriteDeltas, TypeOK
    <3>2. HourOf(batch.stamp) <= HourOf(now) /\ HourOf(batch.stamp) \in Buckets /\ HourOf(now) \in Buckets
      BY <3>1, HoursAndDays
    <3>3. \A h \in Buckets : h > HourOf(now) => h # HourOf(batch.stamp)
      <4>1. \A h \in Buckets : h \in Nat
        BY HoursAndDays
      <4> QED BY <3>2, <4>1
    <3>4. \A c \in Classes, h \in Buckets : h > HourOf(now) => hourly'[c][h] = hourly[c][h] + 0
      BY <1>2, <2>2, <3>3, WriteRows
    <3> QED BY <1>2, <3>1, <3>4 DEF FutureIsEmpty
  <2>3. (\E c \in Classes : Carry(c)) \/ StopCollecting \/ Tick
        \/ (\E kind \in Kinds : Arrive(kind)) \/ HasTrafficData \/ HasNoTrafficData \/ QueryFails
        \/ AnswerDashboard \/ AnswerIsp \/ AnswerDaily \/ UNCHANGED vars
          => UNCHANGED <<now, hourly>>
    BY DEF Carry, StopCollecting, Tick, Arrive, HasTrafficData, HasNoTrafficData, QueryFails,
           AnswerDashboard, AnswerIsp, AnswerDaily, Respond, vars
  <2>4. ASSUME UNCHANGED <<now, hourly>> PROVE FutureIsEmpty'
    BY <1>2, <2>4 DEF FutureIsEmpty
  <2> QED BY <1>2, <2>1, <2>2, <2>3, <2>4 DEF Next
<1> QED BY <1>1, <1>2

(* The ranges of the queries differ only in hours that have not begun.     *)
LEMMA RangesAgree ==
  ASSUME TypeOK, FutureIsEmpty
  PROVE  ReportsAgree
<1> DEFINE f == hourly["internet"]
           day == DayOf(now)
           past == {h \in Buckets : h >= Midnight(day) /\ h <= HourOf(now)}
<1>1. \A h \in Buckets : f[h] \in Nat /\ (h > HourOf(now) => f[h] = 0)
  BY DEF TypeOK, FutureIsEmpty, Classes
<1>2. /\ now \in Nat /\ HourOf(now) \in Nat /\ \A h \in Buckets : h \in Nat
      /\ 2 * HourOf(now) <= now /\ HourOf(now) < Midnight(day + 1) /\ Midnight(day) \in Nat
      /\ Midnight(day + 1) \in Nat
  <2>1. now \in Slots
    BY DEF TypeOK
  <2>2. Slots \subseteq Nat /\ Buckets \subseteq Nat
    BY HoursAndDays
  <2>3. /\ HourOf(now) \in Buckets /\ day \in 0 .. Days - 1 /\ 2 * HourOf(now) <= now
        /\ HourOf(now) < Midnight(day + 1)
    BY <2>1, HoursAndDays
  <2> HIDE DEF day
  <2>4. Midnight(day) \in Nat /\ Midnight(day + 1) \in Nat
    <3>1. day \in Nat /\ day + 1 \in Nat
      BY <2>3
    <3> QED BY <3>1, HoursAndDays
  <2> QED BY <2>1, <2>2, <2>3, <2>4
<1> HIDE DEF f, day
<1>3. ASSUME NEW S \in SUBSET Buckets, past \subseteq S, \A h \in S : h >= Midnight(day)
      PROVE  Sum(f, S) = Sum(f, past)
  <2>1. IsFiniteSet(S)
    BY HoursAndDays, FS_Subset
  <2>2. \A h \in S \ past : f[h] = 0
    BY <1>1, <1>2, <1>3
  <2> HIDE DEF past
  <2> QED BY <1>1, <1>3, <2>1, <2>2, SumSupport
<1>4. IspBuckets(now) \in SUBSET Buckets /\ past \subseteq IspBuckets(now)
      /\ \A h \in IspBuckets(now) : h >= Midnight(day)
  BY <1>2 DEF IspBuckets, StartOf, day
<1>5. DailyBuckets(day) \in SUBSET Buckets /\ past \subseteq DailyBuckets(day)
      /\ \A h \in DailyBuckets(day) : h >= Midnight(day)
  BY <1>2 DEF DailyBuckets
<1>6. Sum(f, IspBuckets(now)) = Sum(f, past) /\ Sum(f, DailyBuckets(day)) = Sum(f, past)
  BY <1>3, <1>4, <1>5
<1>7. TodayTotals(now) = Sum(f, DailyBuckets(day))
  BY DEF TodayTotals, Rows, DailyBuckets, f, day
<1> QED BY <1>6, <1>7 DEF ReportsAgree, f, day

(* The dashboard, the ISP report and the daily report of today give one    *)
(* Internet total for the same rows (store.go, main.go).                   *)
THEOREM ReportsAlwaysAgree == Spec => []ReportsAgree
BY TypeInductive, FutureInductive, RangesAgree, PTL DEF Spec

-----------------------------------------------------------------------------
(* Reports do not shrink.                                                  *)

(* The Internet bytes in some rows, those before a step or after it.       *)
Internet(rows, S) == Sum(rows["internet"], S)

(* What was answered is still in the rows: those of the day, or for an ISP *)
(* report those up to a moment that no request to come is earlier than.    *)
AnswerHolds ==
  answer.status = "ok" =>
    /\ answer.kind \in {"dashboard", "daily"} =>
         answer.internet <= Internet(hourly, DailyBuckets(answer.day))
    /\ answer.kind = "isp" =>
         \E at \in 0 .. now :
           /\ DayOf(at) = answer.day
           /\ request # NoRequest => at <= request.at
           /\ answer.internet <= Internet(hourly, IspBuckets(at))

(* Rows only grow, and so do the sums over them.                           *)
LEMMA RowsGrow ==
  ASSUME TypeOK, TypeOK', [Next]_vars
  PROVE  \A S \in SUBSET Buckets : Internet(hourly, S) <= Internet(hourly', S)
<1>1. "internet" \in Classes
  BY DEF Classes
<1>2. \A h \in Buckets : /\ hourly["internet"][h] \in Nat /\ hourly'["internet"][h] \in Nat
                         /\ hourly["internet"][h] <= hourly'["internet"][h]
  <2>1. \A h \in Buckets : hourly["internet"][h] \in Nat /\ hourly'["internet"][h] \in Nat
    BY <1>1 DEF TypeOK
  <2>2. CASE WriteDeltas
    <3>1. batch.bytes["internet"] \in Nat
      BY <1>1, <2>2, WriteRows
    <3>2. \A h \in Buckets : hourly'["internet"][h] = hourly["internet"][h]
             + (IF HourOf(batch.stamp) = h THEN batch.bytes["internet"] ELSE 0)
      BY <1>1, <2>2, WriteRows
    <3> QED BY <2>1, <3>1, <3>2
  <2>3. CASE hourly' = hourly
    BY <2>1, <2>3
  <2>4. WriteDeltas \/ hourly' = hourly
    BY DEF Next, PassTime, Carry, StopCollecting, Tick, Arrive, HasTrafficData, HasNoTrafficData,
           QueryFails, AnswerDashboard, AnswerIsp, AnswerDaily, Respond, vars, tables
  <2> QED BY <2>2, <2>3, <2>4
<1>3. ASSUME NEW S \in SUBSET Buckets
      PROVE  Sum(hourly["internet"], S) <= Sum(hourly'["internet"], S)
  <2>1. IsFiniteSet(S)
    BY HoursAndDays, FS_Subset
  <2>2. \A h \in S : /\ hourly["internet"][h] \in Nat /\ hourly'["internet"][h] \in Nat
                     /\ hourly["internet"][h] <= hourly'["internet"][h]
    BY <1>2
  <2>3. S \in SUBSET S
    OBVIOUS
  <2> QED BY <2>1, <2>2, <2>3, SumMonotone
<1> QED BY <1>3 DEF Internet

(* The range of an ISP report grows with the time within a day.            *)
LEMMA RangesGrow ==
  ASSUME TypeOK, NEW at \in Nat, NEW later \in Nat, at <= later, DayOf(at) = DayOf(later)
  PROVE  Internet(hourly, IspBuckets(at)) <= Internet(hourly, IspBuckets(later))
<1> DEFINE f == hourly["internet"]
           S == IspBuckets(at)
           T == IspBuckets(later)
<1>1. \A h \in Buckets : f[h] \in Nat /\ h \in Nat
  BY HoursAndDays DEF TypeOK, Classes
<1>2. S \in SUBSET T /\ T \in SUBSET Buckets
  BY <1>1 DEF IspBuckets, StartOf
<1>3. IsFiniteSet(T)
  BY <1>2, HoursAndDays, FS_Subset
<1> HIDE DEF f, S, T
<1>4. \A h \in T : f[h] \in Nat /\ f[h] \in Nat /\ f[h] <= f[h]
  BY <1>1, <1>2
<1>5. Sum(f, S) <= Sum(f, T)
  BY <1>2, <1>3, <1>4, SumMonotone
<1> QED BY <1>5 DEF Internet, f, S, T

(* The answers of a step are of the rows as they are, for a moment that is *)
(* not later than the present.                                             *)
LEMMA FreshAnswers ==
  ASSUME TypeOK, AnswerDashboard \/ AnswerIsp \/ AnswerDaily
  PROVE  /\ UNCHANGED <<now, hourly>> /\ request' = NoRequest
         /\ request.at \in 0 .. now /\ answer'.kind = request.kind
         /\ answer'.kind \in {"dashboard", "daily"} =>
              answer'.internet = Internet(hourly, DailyBuckets(answer'.day))
         /\ answer'.kind = "isp" =>
              /\ DayOf(request.at) = answer'.day
              /\ answer'.internet = Internet(hourly, IspBuckets(request.at))
<1>1. UNCHANGED <<now, hourly>> /\ request' = NoRequest
  BY DEF AnswerDashboard, AnswerIsp, AnswerDaily, Respond, tables
<1>2. request.at \in 0 .. now
  BY DEF TypeOK, AnswerDashboard, AnswerIsp, AnswerDaily, NoRequest
<1>3. \A at : TodayTotals(at) = Internet(hourly, DailyBuckets(DayOf(at)))
  BY DEF TodayTotals, Rows, DailyBuckets, Internet
<1>4. CASE AnswerDashboard
  <2>1. answer' = Answer(DayOf(request.at), TodayTotals(request.at), 0) /\ request.kind = "dashboard"
    BY <1>4 DEF AnswerDashboard, Respond
  <2> QED BY <1>1, <1>2, <1>3, <2>1 DEF Answer
<1>5. CASE AnswerIsp
  <2>1. /\ answer' = Answer(DayOf(request.at), Internet(hourly, IspBuckets(request.at)), FreeOf(IspBuckets(request.at)))
        /\ request.kind = "isp"
    BY <1>5 DEF AnswerIsp, Respond, Internet
  <2> QED BY <1>1, <1>2, <2>1 DEF Answer
<1>6. CASE AnswerDaily
  <2>1. PICK day \in 0 .. Days - 1 :
          answer' = Answer(day, Internet(hourly, DailyBuckets(day)), FreeOf(DailyBuckets(day)))
    BY <1>6 DEF AnswerDaily, Respond, Internet
  <2>2. request.kind = "daily"
    BY <1>6 DEF AnswerDaily
  <2> QED BY <1>1, <1>2, <2>1, <2>2 DEF Answer
<1> QED BY <1>4, <1>5, <1>6

(* What a step may do to the answer.                                       *)
LEMMA AnswerSteps ==
  ASSUME TypeOK, [Next]_vars
  PROVE  \/ AnswerDashboard \/ AnswerIsp \/ AnswerDaily
         \/ answer'.status # "ok"
         \/ /\ answer' = answer /\ now' >= now
            /\ request' # NoRequest =>
                 request'.at = now \/ (request # NoRequest /\ request'.at = request.at)
<1> USE DEF collector, tables, api
<1>1. now \in Nat
  BY HoursAndDays DEF TypeOK
<1>2. \A kind : Unavailable(kind).status # "ok"
  BY DEF Unavailable, NoAnswer
<1>3. ASSUME NEW kind \in Kinds, Arrive(kind)
      PROVE  answer'.status # "ok" \/ (answer' = answer /\ (request' # NoRequest => request'.at = now))
  BY <1>2, <1>3 DEF Arrive
<1>4. HasNoTrafficData \/ QueryFails => answer'.status # "ok"
  BY <1>2 DEF HasNoTrafficData, QueryFails, Respond
<1>5. CASE HasTrafficData
  <2>1. request' = [request EXCEPT !.step = "query", !.at = now]
        /\ request \in [kind : Kinds, step : {"has_data", "query"}, at : 0 .. now]
    BY <1>5 DEF HasTrafficData, TypeOK, NoRequest
  <2>2. request'.at = now
    BY <2>1
  <2> QED BY <1>1, <1>5, <2>2 DEF HasTrafficData
<1>6. PassTime \/ (\E c \in Classes : Carry(c)) \/ StopCollecting \/ Tick \/ WriteDeltas
      \/ UNCHANGED vars => answer' = answer /\ request' = request /\ now' >= now
  <2>1. PassTime => now' = now + 1 /\ UNCHANGED <<request, answer>>
    BY DEF PassTime
  <2>2. (\E c \in Classes : Carry(c)) \/ StopCollecting \/ Tick \/ WriteDeltas \/ UNCHANGED vars
          => UNCHANGED <<now, request, answer>>
    BY DEF Carry, StopCollecting, Tick, WriteDeltas, vars
  <2> QED BY <1>1, <2>1, <2>2
<1>7. \A kind \in Kinds : Arrive(kind) => now' = now
  BY DEF Arrive
<1> QED BY <1>1, <1>3, <1>4, <1>5, <1>6, <1>7 DEF Next

LEMMA AnswerHoldsInductive ==
  (Init => AnswerHolds) /\ (TypeOK /\ TypeOK' /\ AnswerHolds /\ [Next]_vars => AnswerHolds')
<1>1. ASSUME Init PROVE AnswerHolds
  BY <1>1 DEF Init, NoAnswer, AnswerHolds
<1>2. ASSUME TypeOK, TypeOK', AnswerHolds, [Next]_vars PROVE AnswerHolds'
  <2>1. CASE AnswerDashboard \/ AnswerIsp \/ AnswerDaily
    <3>1. \A S \in SUBSET Buckets : Internet(hourly', S) = Internet(hourly, S) /\ Internet(hourly, S) \in Nat
      <4>1. hourly' = hourly
        BY <1>2, <2>1, FreshAnswers
      <4>2. \A S \in SUBSET Buckets : Internet(hourly, S) \in Nat
        BY <1>2, QueryTypes DEF Internet, Classes
      <4> QED BY <4>1, <4>2
    <3>2. \A at : DailyBuckets(at) \in SUBSET Buckets /\ IspBuckets(at) \in SUBSET Buckets
      BY DEF DailyBuckets, IspBuckets
    <3>3. answer'.kind \in {"dashboard", "daily"} =>
            answer'.internet <= Internet(hourly', DailyBuckets(answer'.day))
      BY <1>2, <2>1, <3>1, <3>2, FreshAnswers
    <3>4. answer'.kind = "isp" =>
            /\ request.at \in 0 .. now' /\ DayOf(request.at) = answer'.day
            /\ answer'.internet <= Internet(hourly', IspBuckets(request.at))
      BY <1>2, <2>1, <3>1, <3>2, FreshAnswers
    <3>5. request' = NoRequest
      BY <1>2, <2>1, FreshAnswers
    <3> QED BY <3>3, <3>4, <3>5 DEF AnswerHolds
  <2>2. CASE answer'.status # "ok"
    BY <2>2 DEF AnswerHolds
  <2>3. CASE /\ answer' = answer /\ now' >= now
             /\ request' # NoRequest =>
                  request'.at = now \/ (request # NoRequest /\ request'.at = request.at)
    <3>1. \A at : DailyBuckets(at) \in SUBSET Buckets /\ IspBuckets(at) \in SUBSET Buckets
      BY DEF DailyBuckets, IspBuckets
    <3>2. \A S \in SUBSET Buckets : /\ Internet(hourly, S) <= Internet(hourly', S)
                                    /\ Internet(hourly, S) \in Nat /\ Internet(hourly', S) \in Nat
      <4>1. \A S \in SUBSET Buckets : Internet(hourly, S) \in Nat
        BY <1>2, QueryTypes DEF Internet, Classes
      <4>2. \A S \in SUBSET Buckets : Internet(hourly', S) \in Nat
        <5>1. \A S \in SUBSET Buckets, c \in Classes : Sum(hourly'[c], S) \in Nat
          <6>1. ASSUME NEW S \in SUBSET Buckets, NEW c \in Classes PROVE Sum(hourly'[c], S) \in Nat
            <7>1. IsFiniteSet(S)
              BY HoursAndDays, FS_Subset
            <7>2. hourly' \in [Classes -> [Buckets -> Nat]]
              BY <1>2 DEF TypeOK
            <7>3. \A h \in S : hourly'[c][h] \in Nat
              BY <7>2
            <7> QED BY <7>1, <7>3, SumType
          <6> QED BY <6>1
        <5> QED BY <5>1 DEF Internet, Classes
      <4> QED BY <1>2, <4>1, <4>2, RowsGrow
    <3>3. answer.internet \in Nat /\ now \in Nat /\ now' \in Nat
      BY <1>2, HoursAndDays DEF TypeOK
    <3>4. ASSUME answer.status = "ok", answer.kind \in {"dashboard", "daily"}
          PROVE  answer.internet <= Internet(hourly', DailyBuckets(answer.day))
      BY <1>2, <3>1, <3>2, <3>3, <3>4 DEF AnswerHolds
    <3>5. ASSUME answer.status = "ok", answer.kind = "isp"
          PROVE  \E at \in 0 .. now' :
                   /\ DayOf(at) = answer.day
                   /\ request' # NoRequest => at <= request'.at
                   /\ answer.internet <= Internet(hourly', IspBuckets(at))
      <4>1. PICK at \in 0 .. now :
              /\ DayOf(at) = answer.day
              /\ request # NoRequest => at <= request.at
              /\ answer.internet <= Internet(hourly, IspBuckets(at))
        BY <1>2, <3>5 DEF AnswerHolds
      <4>2. at \in 0 .. now' /\ (request' # NoRequest => at <= request'.at)
        BY <2>3, <3>3, <4>1
      <4>3. answer.internet <= Internet(hourly', IspBuckets(at))
        BY <3>1, <3>2, <3>3, <4>1
      <4> QED BY <4>1, <4>2, <4>3
    <3> QED BY <2>3, <3>4, <3>5 DEF AnswerHolds
  <2> QED BY <1>2, <2>1, <2>2, <2>3, AnswerSteps
<1> QED BY <1>1, <1>2

Grows ==
  /\ answer.status = "ok" /\ answer'.status = "ok"
  /\ answer'.kind = answer.kind /\ answer'.day = answer.day
  => answer'.internet >= answer.internet

LEMMA AnswersGrow ==
  ASSUME TypeOK, AnswerHolds, [Next]_vars
  PROVE  Grows
<1>1. answer.internet \in Nat
  BY DEF TypeOK
<1>2. CASE AnswerDashboard \/ AnswerIsp \/ AnswerDaily
  <2> SUFFICES ASSUME answer.status = "ok", answer'.kind = answer.kind, answer'.day = answer.day
               PROVE  answer'.internet >= answer.internet
    BY DEF Grows
  <2>1. CASE answer.kind \in {"dashboard", "daily"}
    <3>1. answer.internet <= Internet(hourly, DailyBuckets(answer.day))
      BY <2>1 DEF AnswerHolds
    <3>2. answer'.internet = Internet(hourly, DailyBuckets(answer.day))
      BY <1>2, <2>1, FreshAnswers
    <3>3. DailyBuckets(answer.day) \in SUBSET Buckets
      BY DEF DailyBuckets
    <3>4. Internet(hourly, DailyBuckets(answer.day)) \in Nat
      BY <3>3, QueryTypes DEF Internet, Classes
    <3> QED BY <1>1, <3>1, <3>2, <3>4
  <2>2. CASE answer.kind = "isp"
    <3>1. PICK at \in 0 .. now :
            /\ DayOf(at) = answer.day
            /\ request # NoRequest => at <= request.at
            /\ answer.internet <= Internet(hourly, IspBuckets(at))
      BY <2>2 DEF AnswerHolds
    <3>2. /\ request.at \in 0 .. now /\ DayOf(request.at) = answer.day /\ request.kind = "isp"
          /\ answer'.internet = Internet(hourly, IspBuckets(request.at))
      BY <1>2, <2>2, FreshAnswers
    <3>3. at <= request.at /\ at \in Nat /\ request.at \in Nat
      <4>1. request # NoRequest
        BY <3>2 DEF NoRequest
      <4> QED BY <3>1, <3>2, <4>1
    <3>4. Internet(hourly, IspBuckets(at)) <= Internet(hourly, IspBuckets(request.at))
      BY <3>1, <3>2, <3>3, RangesGrow
    <3>5. \A t : Internet(hourly, IspBuckets(t)) \in Nat
      <4>1. \A t : IspBuckets(t) \in SUBSET Buckets
        BY DEF IspBuckets
      <4> QED BY <4>1, QueryTypes DEF Internet, Classes
    <3> QED BY <1>1, <3>1, <3>2, <3>4, <3>5
  <2>3. answer'.kind = request.kind /\ request.kind \in Kinds
    <3>1. request # NoRequest
      BY <1>2 DEF AnswerDashboard, AnswerIsp, AnswerDaily, NoRequest
    <3> QED BY <1>2, <3>1, FreshAnswers DEF TypeOK
  <2> QED BY <2>1, <2>2, <2>3 DEF Kinds
<1>3. CASE answer'.status # "ok" \/ answer' = answer
  BY <1>1, <1>3 DEF Grows
<1> QED BY <1>2, <1>3, AnswerSteps

(* Asked again on the same day, no report shows less than before, whatever *)
(* is committed or read between the two answers (store.go, main.go).       *)
THEOREM ReportsNeverShrink == Spec => TotalsNeverShrink
<1>1. TypeOK /\ AnswerHolds /\ [Next]_vars =>
        [/\ answer.status = "ok" /\ answer'.status = "ok"
         /\ answer'.kind = answer.kind /\ answer'.day = answer.day
         => answer'.internet >= answer.internet]_vars
  BY AnswersGrow DEF Grows
<1> QED BY <1>1, TypeInductive, AnswerHoldsInductive, PTL DEF Spec, TotalsNeverShrink

-----------------------------------------------------------------------------
(***************************************************************************)
(* The dashboard.                                                          *)
(***************************************************************************)

(* A finite set of numbers has a largest and a smallest one. *)
LEMMA Extremes ==
  ASSUME NEW S, IsFiniteSet(S), \A x \in S : x \in Int, S # {}
  PROVE  /\ Max(S) \in S /\ \A y \in S : y <= Max(S)
         /\ Min(S) \in S /\ \A y \in S : Min(S) <= y
<1> DEFINE Topless == {s \in SUBSET S : s # {} /\ ~\E x \in s : \A y \in s : x >= y}
           Bottomless == {s \in SUBSET S : s # {} /\ ~\E x \in s : \A y \in s : x <= y}
<1>1. Topless = {}
  <2>1. SUFFICES ASSUME Topless # {} PROVE FALSE
    OBVIOUS
  <2>2. PICK A \in Topless : \A B \in Topless : B \subseteq A => B = A
    <3>1. Topless \in SUBSET SUBSET S
      OBVIOUS
    <3> HIDE DEF Topless, Bottomless
    <3> QED BY <2>1, <3>1, SmallestSubset
  <2>3. PICK a \in A : TRUE
    OBVIOUS
  <2>4. A \ {a} \notin Topless
    BY <2>2, <2>3
  <2>5. CASE A \ {a} = {}
    <3>1. \A y \in A : a >= y
      BY <2>3, <2>5
    <3> QED BY <2>3, <3>1
  <2>6. CASE A \ {a} # {}
    <3>1. PICK x \in A \ {a} : \A y \in A \ {a} : x >= y
      BY <2>4, <2>6
    <3>2. CASE x >= a
      BY <3>1, <3>2
    <3>3. CASE ~(x >= a)
      <4>1. \A y \in A : a >= y
        BY <2>3, <3>1, <3>3
      <4> QED BY <2>3, <4>1
    <3> QED BY <3>2, <3>3
  <2> QED BY <2>5, <2>6
<1>2. Bottomless = {}
  <2>1. SUFFICES ASSUME Bottomless # {} PROVE FALSE
    OBVIOUS
  <2>2. PICK A \in Bottomless : \A B \in Bottomless : B \subseteq A => B = A
    <3>1. Bottomless \in SUBSET SUBSET S
      OBVIOUS
    <3> HIDE DEF Topless, Bottomless
    <3> QED BY <2>1, <3>1, SmallestSubset
  <2>3. PICK a \in A : TRUE
    OBVIOUS
  <2>4. A \ {a} \notin Bottomless
    BY <2>2, <2>3
  <2>5. CASE A \ {a} = {}
    <3>1. \A y \in A : a <= y
      BY <2>3, <2>5
    <3> QED BY <2>3, <3>1
  <2>6. CASE A \ {a} # {}
    <3>1. PICK x \in A \ {a} : \A y \in A \ {a} : x <= y
      BY <2>4, <2>6
    <3>2. CASE x <= a
      BY <3>1, <3>2
    <3>3. CASE ~(x <= a)
      <4>1. \A y \in A : a <= y
        BY <2>3, <3>1, <3>3
      <4> QED BY <2>3, <4>1
    <3> QED BY <3>2, <3>3
  <2> QED BY <2>5, <2>6
<1>3. (\E x \in S : \A y \in S : x >= y) /\ (\E x \in S : \A y \in S : x <= y)
  BY <1>1, <1>2
<1>4. Max(S) \in S /\ \A y \in S : Max(S) >= y
  BY <1>3 DEF Max
<1>5. Min(S) \in S /\ \A y \in S : Min(S) <= y
  BY <1>3 DEF Min
<1> QED BY <1>4, <1>5

(* The larger and the smaller of two.                                     *)
LEMMA TwoNumbers ==
  ASSUME NEW a \in Int, NEW b \in Int
  PROVE  /\ Max({a, b}) \in {a, b} /\ Max({a, b}) >= a /\ Max({a, b}) >= b
         /\ Min({a, b}) \in {a, b} /\ Min({a, b}) <= a /\ Min({a, b}) <= b
<1>1. IsFiniteSet({b} \cup {a})
  BY FS_Singleton, FS_AddElement
<1>2. {b} \cup {a} = {a, b}
  OBVIOUS
<1>3. IsFiniteSet({a, b})
  BY <1>1, <1>2
<1>4. {a, b} \subseteq Int /\ {a, b} # {}
  OBVIOUS
<1> DEFINE S == {a, b}
<1> HIDE DEF S
<1>5. /\ Max(S) \in S /\ \A y \in S : y <= Max(S)
      /\ Min(S) \in S /\ \A y \in S : Min(S) <= y
  BY <1>3, <1>4, Extremes DEF S
<1> QED BY <1>5 DEF S

Longest == Max(Intervals)

(* The times, and how they are related. *)
LEMMA Times ==
  /\ Longest \in Nat \ {0} /\ \A i \in Intervals : i \in 1 .. Longest
  /\ Min(Intervals) \in Intervals
  /\ Fresh \in Nat /\ Slow \in Nat \ {0}
  /\ Latest = Longest + 2 * Slow
  /\ Old \in Nat /\ Latest < Old /\ Fresh + Longest + Slow < Old
<1>1. Longest \in Intervals /\ Min(Intervals) \in Intervals /\ \A i \in Intervals : i <= Longest
  <2>1. IsFiniteSet(Intervals) /\ Intervals \subseteq Int /\ Intervals # {}
    BY TimesAssumption
  <2> QED BY <2>1, Extremes DEF Longest
<1>2. Longest \in Nat \ {0} /\ \A i \in Intervals : i \in 1 .. Longest
  BY <1>1, TimesAssumption
<1>3. Latest = Longest + 2 * Slow /\ Fresh \in Nat /\ Slow \in Nat \ {0}
  BY TimesAssumption DEF Latest, Longest
<1> DEFINE a == Latest
           b == Fresh + Longest + Slow
<1>4. a \in Int /\ b \in Int
  BY <1>2, <1>3
<1>5. Old = Max({a, b}) + 1
  BY DEF Old, Longest
<1> HIDE DEF a, b
<1>6. Max({a, b}) \in {a, b} /\ Max({a, b}) >= a /\ Max({a, b}) >= b
  BY ONLY <1>4, TwoNumbers, Zenon
<1>7. Old \in Int /\ a < Old /\ b < Old
  BY <1>4, <1>5, <1>6
<1> QED BY <1>1, <1>2, <1>3, <1>7 DEF a, b

(* Ages grow by one, up to Old.                                            *)
LEMMA Ages ==
  \A age \in 0 .. Old :
    /\ Older(age) \in 0 .. Old /\ age <= Older(age) /\ Older(age) <= age + 1
    /\ age < Old => Older(age) = age + 1
<1> SUFFICES ASSUME NEW age \in 0 .. Old
             PROVE  /\ Older(age) \in 0 .. Old /\ age <= Older(age) /\ Older(age) <= age + 1
                    /\ age < Old => Older(age) = age + 1
  OBVIOUS
<1>1. Old \in Nat /\ age + 1 \in Int
  BY Times
<1> DEFINE next == age + 1
<1>2. Older(age) = Min({next, Old})
  BY DEF Older
<1> HIDE DEF next
<1>3. next \in Int /\ Old \in Int
  BY <1>1 DEF next
<1>4. Min({next, Old}) \in {next, Old} /\ Min({next, Old}) <= next /\ Min({next, Old}) <= Old
  BY ONLY <1>3, TwoNumbers, Zenon
<1> QED BY <1>1, <1>2, <1>4 DEF next

-----------------------------------------------------------------------------
(* The invariant.                                                          *)

Loads == [byHand : BOOLEAN, age : 0 .. Slow, sample : 0 .. Old,
          answers : [Endpoints -> Statuses \cup {"pending"}]]
Shown == [sample : 0 .. Old, answers : Answers \cup {[e \in Endpoints |-> "idle"]}]

Typed ==
  /\ service \in Answers /\ steady \in [Endpoints -> 0 .. Old] /\ sample \in 0 .. Old
  /\ refresh \in Intervals /\ timer \in 0 .. refresh
  /\ loads \subseteq Loads /\ screen \in Shown /\ live \in BOOLEAN

(* No two loads under way are equal: one at most was started by hand, and  *)
(* those of the timer are of different ages, none younger than the timer.  *)
Apart ==
  /\ \A l, k \in loads : l.byHand /\ k.byHand => l = k
  /\ \A l, k \in loads : ~l.byHand /\ ~k.byHand /\ l.age = k.age => l = k
  /\ \A l \in loads : ~l.byHand => timer <= l.age

(* What a load has been told since an endpoint last changed is true.       *)
Current ==
  \A l \in loads, e \in Endpoints :
    l.age < steady[e] => l.answers[e] \in {"pending", service[e]}

(* What is n now will be no more than limit when the next load is shown:   *)
(* one under way, or if there is none the one that the timer will start.   *)
Shows(under, wait, n, limit) ==
  \/ \E l \in under : n + Slow - l.age <= limit
  \/ under = {} /\ n + wait + Slow <= limit

LiveInv == live => Shows(loads, refresh - timer, screen.sample, Fresh + Longest + Slow)

Wrong(e) == ~(screen.answers[e] # "ok" <=> service[e] # "ok")

AlertsInv ==
  \A e \in Endpoints :
    Wrong(e) /\ steady[e] > Slow => Shows(loads, refresh - timer, steady[e], Latest)

(* While nothing is shown a new load, or time, does not change when        *)
(* something is.                                                           *)
LEMMA ShowsStarted ==
  ASSUME NEW under, NEW wait \in Nat, NEW n \in Int, NEW limit \in Int,
         Shows(under, wait, n, limit), NEW byHand, NEW w
  PROVE  Shows(under \cup {NewLoad(byHand)}, w, n, limit)
<1>1. NewLoad(byHand).age = 0
  BY DEF NewLoad
<1>2. CASE \E l \in under : n + Slow - l.age <= limit
  BY <1>2 DEF Shows
<1>3. CASE n + wait + Slow <= limit
  <2>1. n + Slow - NewLoad(byHand).age <= limit
    BY <1>1, <1>3, Times
  <2> QED BY <2>1 DEF Shows
<1> QED BY <1>2, <1>3 DEF Shows

(* Something shown now leaves the next load an interval and a fetch.       *)
LEMMA ShowsNext ==
  ASSUME NEW under, under \subseteq Loads, NEW wait \in 0 .. Longest, NEW n \in Int,
         NEW limit \in Int, n + Longest + Slow <= limit
  PROVE  Shows(under, wait, n, limit)
<1>1. CASE under = {}
  BY <1>1, Times DEF Shows
<1>2. CASE under # {}
  <2>1. PICK l \in under : l.age \in 0 .. Slow
    BY <1>2 DEF Loads
  <2>2. n + Slow - l.age <= limit
    BY <2>1, Times
  <2> QED BY <2>2 DEF Shows
<1> QED BY <1>1, <1>2

Aged(l) == [l EXCEPT !.age = @ + 1, !.sample = Older(@)]

(* A load that is not overdue may age.                                     *)
LEMMA AgedLoad ==
  ASSUME NEW l \in Loads, l.age # Slow
  PROVE  /\ Aged(l) \in Loads /\ Aged(l).age = l.age + 1
         /\ Aged(l).byHand = l.byHand /\ Aged(l).answers = l.answers
<1>1. l.age \in 0 .. Slow /\ l.age + 1 \in 0 .. Slow /\ Older(l.sample) \in 0 .. Old
  BY Times, Ages DEF Loads
<1> QED BY <1>1 DEF Aged, Loads

(* As time passes, what is shown next comes nearer by as much.             *)
LEMMA ShowsLater ==
  ASSUME NEW under, under \subseteq Loads, \A l \in under : l.age # Slow,
         NEW wait \in Int, NEW n \in Int, NEW m \in Int, NEW limit \in Int,
         Shows(under, wait, n, limit), m <= n + 1
  PROVE  Shows({Aged(l) : l \in under}, wait - 1, m, limit)
<1>1. CASE under = {} /\ n + wait + Slow <= limit
  BY <1>1, Times DEF Shows
<1>2. CASE \E l \in under : n + Slow - l.age <= limit
  <2>1. PICK l \in under : n + Slow - l.age <= limit
    BY <1>2
  <2>2. Aged(l).age = l.age + 1 /\ l.age \in 0 .. Slow
    BY AgedLoad DEF Loads
  <2>3. m + Slow - Aged(l).age <= limit
    BY <2>1, <2>2, Times
  <2> QED BY <2>3 DEF Shows
<1> QED BY <1>1, <1>2 DEF Shows

-----------------------------------------------------------------------------
(* The steps.                                                              *)

Inv == Typed /\ Apart /\ Current /\ LiveInv /\ AlertsInv

(* A new load knows nothing.                                               *)
LEMMA NewLoads ==
  \A b \in BOOLEAN : /\ NewLoad(b) \in Loads /\ NewLoad(b).byHand = b /\ NewLoad(b).age = 0
                     /\ \A e \in Endpoints : NewLoad(b).answers[e] = "pending"
BY Times DEF NewLoad, Loads

(* With one load, and time only begun, nothing is claimed.                 *)
LEMMA OneLoad ==
  ASSUME NEW new, loads = {new}, ~new.byHand, new.age = 0, timer = 0,
         \A e \in Endpoints : steady[e] = 0
  PROVE  Apart /\ Current
BY DEF Apart, Current

(* The invariant holds at the start and after every step.                  *)
LEMMA InvInit == DashboardInit => Inv
<1> SUFFICES ASSUME DashboardInit PROVE Inv
  OBVIOUS
<1> USE Times DEF DashboardInit
<1>1. Typed
  <2>1. service \in Answers /\ steady \in [Endpoints -> 0 .. Old] /\ sample \in 0 .. Old
    BY DEF Answers
  <2>2. refresh \in Intervals /\ timer \in 0 .. refresh
    OBVIOUS
  <2>3. screen \in Shown
    BY DEF Shown
  <2> QED BY <2>1, <2>2, <2>3, NewLoads DEF Typed
<1>2. Apart /\ Current
  <2> DEFINE new == NewLoad(FALSE)
  <2>1. ~new.byHand /\ new.age = 0
    BY ONLY NewLoads
  <2>2. loads = {new} /\ timer = 0 /\ \A e \in Endpoints : steady[e] = 0
    OBVIOUS
  <2> HIDE DEF new
  <2> QED BY ONLY <2>1, <2>2, OneLoad
<1>3. LiveInv /\ AlertsInv
  BY DEF LiveInv, AlertsInv
<1> QED BY <1>1, <1>2, <1>3 DEF Inv

LEMMA InvChange == \A e \in Endpoints : Inv /\ Change(e) => Inv'
<1> SUFFICES ASSUME NEW e \in Endpoints, Inv, Change(e) PROVE Inv'
  OBVIOUS
<1> USE DEF Inv
<1>1. /\ service' \in Answers /\ steady' \in [Endpoints -> 0 .. Old] /\ sample' \in 0 .. Old
      /\ steady'[e] = 0
      /\ \A x \in Endpoints \ {e} : steady'[x] = steady[x] /\ service'[x] = service[x]
  BY Times DEF Change, Typed, Answers, Statuses
<1>2. UNCHANGED <<refresh, timer, loads, screen, live>>
  BY DEF Change
<1>3. Typed' /\ Apart'
  BY <1>1, <1>2 DEF Typed, Apart
<1>4. Current'
  BY <1>1, <1>2 DEF Current, Typed, Loads
<1>5. LiveInv'
  BY <1>2 DEF LiveInv
<1>6. AlertsInv'
  BY <1>1, <1>2, Times DEF AlertsInv, Wrong
<1> QED BY <1>3, <1>4, <1>5, <1>6

LEMMA InvSample == Inv /\ Sample => Inv'
<1> SUFFICES ASSUME Inv, Sample PROVE Inv'
  OBVIOUS
<1>1. sample' \in 0 .. Old /\ UNCHANGED <<service, steady, refresh, timer, loads, screen, live>>
  BY Times DEF Sample
<1> QED BY <1>1 DEF Inv, Typed, Apart, Current, LiveInv, AlertsInv, Wrong

(* What the screen says when it is rendered.                               *)
LEMMA RenderedLive ==
  ASSUME NEW shown \in Shown, NEW under, under \subseteq Loads, NEW wait \in 0 .. Longest
  PROVE  /\ isLive(shown) \in BOOLEAN
         /\ isLive(shown) => Shows(under, wait, shown.sample, Fresh + Longest + Slow)
<1>1. isLive(shown) \in BOOLEAN
  BY DEF isLive
<1>2. ASSUME isLive(shown) PROVE Shows(under, wait, shown.sample, Fresh + Longest + Slow)
  <2>1. shown.sample \in Nat /\ shown.sample <= Fresh
    BY <1>2, Times DEF isLive, Shown
  <2>2. shown.sample + Longest + Slow <= Fresh + Longest + Slow
    BY <2>1, Times
  <2> QED BY <2>1, <2>2, ShowsNext, Times
<1> QED BY <1>1, <1>2

(* The timer fires within an interval.                                     *)
LEMMA Waiting ==
  ASSUME Typed
  PROVE  refresh - timer \in 0 .. Longest
<1>1. refresh \in 1 .. Longest /\ timer \in 0 .. refresh
  BY Times DEF Typed
<1> QED BY <1>1, Times

LEMMA InvRender == Inv /\ Render => Inv'
<1> SUFFICES ASSUME Inv, Render PROVE Inv'
  OBVIOUS
<1>1. /\ live' = isLive(screen)
      /\ UNCHANGED <<service, steady, sample, refresh, timer, loads, screen>>
  BY DEF Render
<1>2. /\ isLive(screen) \in BOOLEAN
      /\ isLive(screen) => Shows(loads, refresh - timer, screen.sample, Fresh + Longest + Slow)
  BY RenderedLive, Waiting DEF Inv, Typed
<1> QED BY <1>1, <1>2 DEF Inv, Typed, Apart, Current, LiveInv, AlertsInv, Wrong

(* A load is started, by hand only if none is under way, and not by the    *)
(* timer while one of the timer's is new.                                  *)
LEMMA InvStart ==
  ASSUME Inv, NEW byHand \in BOOLEAN, loads' = loads \cup {NewLoad(byHand)},
         refresh' \in Intervals, timer' \in 0 .. refresh', timer' = 0 \/ timer' = timer,
         UNCHANGED <<service, steady, sample, screen, live>>,
         byHand => \A l \in loads : ~l.byHand,
         ~byHand => timer' = 0 /\ timer > 0
  PROVE  Inv'
<1> USE DEF Inv
<1> DEFINE new == NewLoad(byHand)
<1>1. /\ new \in Loads /\ new.byHand = byHand /\ new.age = 0
      /\ \A e \in Endpoints : new.answers[e] = "pending"
  BY NewLoads
<1> HIDE DEF new
<1>2. loads' = loads \cup {new}
  BY DEF new
<1>3. Typed'
  BY <1>1, <1>2 DEF Typed
<1>4. \A l \in loads : l.age \in 0 .. Slow
  BY DEF Typed, Loads
<1>5. Apart'
  <2>1. timer \in Nat /\ Slow \in Nat
    BY Times DEF Typed
  <2>2. \A l \in loads : ~l.byHand => timer' <= l.age
    BY <1>4, <2>1 DEF Apart
  <2>3. \A l \in loads' : ~l.byHand => timer' <= l.age
    BY <1>1, <1>2, <2>2
  <2>4. \A l, k \in loads' : l.byHand /\ k.byHand => l = k
    BY <1>1, <1>2 DEF Apart
  <2>5. \A l \in loads : ~byHand /\ ~l.byHand => l.age # 0
    BY <1>4, <2>1 DEF Apart
  <2>6. \A l, k \in loads' : ~l.byHand /\ ~k.byHand /\ l.age = k.age => l = k
    BY <1>1, <1>2, <2>5 DEF Apart
  <2> QED BY <2>3, <2>4, <2>6 DEF Apart
<1>6. Current'
  BY <1>1, <1>2 DEF Current
<1>7. \A n, limit \in Int :
        Shows(loads, refresh - timer, n, limit) => Shows(loads', refresh' - timer', n, limit)
  BY <1>2, Waiting, ShowsStarted DEF new
<1>8. LiveInv'
  <2>1. screen.sample \in Int /\ Fresh + Longest + Slow \in Int
    BY Times DEF Typed, Shown
  <2> QED BY <1>7, <2>1 DEF LiveInv
<1>9. AlertsInv'
  <2>1. Latest \in Int /\ \A e \in Endpoints : steady[e] \in Int
    BY Times DEF Typed
  <2> QED BY <1>7, <2>1 DEF AlertsInv, Wrong
<1> QED BY <1>3, <1>5, <1>6, <1>8, <1>9

(* The screen allows a load by hand only when none is under way.           *)
LEMMA NoneByHand ==
  ASSUME Apart, ByHand
  PROVE  \A l \in loads : ~l.byHand
<1> SUFFICES ASSUME NEW x \in loads, x.byHand PROVE FALSE
  OBVIOUS
<1>1. {l \in loads : l.byHand} = {x}
  BY DEF Apart
<1>2. Cardinality({x}) = 1
  BY FS_Singleton
<1> QED BY <1>1, <1>2, TimesAssumption DEF ByHand

LEMMA InvLoads == Inv /\ (Timer \/ Refresh \/ setRefreshMs) => Inv'
<1>0. ASSUME Typed PROVE refresh \in 1 .. Longest /\ timer \in 0 .. refresh
  BY <1>0, Times DEF Typed
<1>1. ASSUME Inv, Timer PROVE Inv'
  <2>1. timer = refresh /\ timer' = 0 /\ loads' = loads \cup {NewLoad(FALSE)}
        /\ UNCHANGED <<service, steady, sample, refresh, screen, live>>
    BY <1>1 DEF Timer, Due
  <2>2. timer > 0 /\ timer' \in 0 .. refresh' /\ refresh' \in Intervals
    BY <1>0, <1>1, <2>1, Times DEF Inv, Typed
  <2> QED BY <1>1, <2>1, <2>2, InvStart
<1>2. ASSUME Inv, Refresh PROVE Inv'
  <2>1. ByHand /\ loads' = loads \cup {NewLoad(TRUE)}
        /\ UNCHANGED <<service, steady, sample, refresh, timer, screen, live>>
    BY <1>2 DEF Refresh
  <2> QED BY <1>2, <2>1, NoneByHand, InvStart DEF Inv, Typed
<1>3. ASSUME Inv, setRefreshMs PROVE Inv'
  <2>1. ByHand /\ refresh' \in Intervals /\ timer' = 0 /\ loads' = loads \cup {NewLoad(TRUE)}
        /\ UNCHANGED <<service, steady, sample, screen, live>>
    BY <1>3 DEF setRefreshMs
  <2>2. timer' \in 0 .. refresh'
    BY <2>1, Times
  <2> QED BY <1>3, <2>1, <2>2, NoneByHand, InvStart DEF Inv
<1> QED BY <1>1, <1>2, <1>3

(* A load is told how an endpoint answers.                                 *)
After(l, e) ==
  [l EXCEPT !.answers[e] = service[e],
            !.sample = IF e = Collector /\ service[e] = "ok" THEN sample ELSE @]

LEMMA Told ==
  ASSUME Inv, NEW l \in loads, NEW e \in Endpoints
  PROVE  LET load == After(l, e)
         IN  /\ load \in Loads /\ load.age = l.age /\ load.byHand = l.byHand
             /\ \A x \in Endpoints :
                  load.age < steady[x] => load.answers[x] \in {"pending", service[x]}
<1> DEFINE load == After(l, e)
<1>1. l \in Loads /\ sample \in 0 .. Old /\ service[e] \in Statuses
  BY DEF Inv, Typed, Answers
<1>2. load \in Loads /\ load.age = l.age /\ load.byHand = l.byHand
      /\ load.answers = [l.answers EXCEPT ![e] = service[e]]
  BY <1>1 DEF Loads, After
<1>3. \A x \in Endpoints : load.answers[x] = IF x = e THEN service[e] ELSE l.answers[x]
  BY <1>1, <1>2 DEF Loads
<1> QED BY <1>2, <1>3 DEF Inv, Current

(* An answer that settles the load is shown, and is then true of every     *)
(* endpoint that has not changed since before the load began.              *)
LEMMA InvFetch == \A l \in loads, e \in Endpoints : Inv /\ fetchEndpoint(l, e) => Inv'
<1> SUFFICES ASSUME NEW l \in loads, NEW e \in Endpoints, Inv, fetchEndpoint(l, e)
             PROVE  Inv'
  OBVIOUS
<1> DEFINE load == After(l, e)
<1>2. /\ IF Settled(load) THEN loads' = loads \ {l} /\ Show(load)
         ELSE loads' = (loads \ {l}) \cup {load} /\ UNCHANGED <<screen, live>>
      /\ UNCHANGED <<service, steady, sample, refresh, timer>>
  BY DEF fetchEndpoint, After
<1>1. /\ load \in Loads /\ load.age = l.age /\ load.byHand = l.byHand
      /\ \A x \in Endpoints : load.age < steady[x] => load.answers[x] \in {"pending", service[x]}
  BY Told
<1> HIDE DEF load
<1> USE DEF Inv
<1>4. loads' \subseteq Loads /\ loads' \subseteq (loads \ {l}) \cup {load}
  BY <1>1, <1>2 DEF Typed
<1>5. Apart'
  BY <1>1, <1>2, <1>4 DEF Apart
<1>6. Current'
  BY <1>1, <1>2, <1>4 DEF Current
<1>7. CASE ~Settled(load)
  <2>1. UNCHANGED <<screen, live>> /\ loads' = (loads \ {l}) \cup {load}
    BY <1>2, <1>7
  <2>2. Typed'
    BY <1>2, <1>4, <2>1 DEF Typed
  <2>3. \A n, limit : Shows(loads, refresh - timer, n, limit)
                        => Shows(loads', refresh' - timer', n, limit)
    BY <1>1, <1>2, <2>1 DEF Shows
  <2> QED BY <1>2, <1>5, <1>6, <2>1, <2>2, <2>3 DEF LiveInv, AlertsInv, Wrong
<1>8. CASE Settled(load)
  <2>1. screen' = [sample |-> load.sample, answers |-> load.answers] /\ live' = isLive(screen')
    BY <1>2, <1>8 DEF Show
  <2>2. load.answers \in Answers
    BY <1>1, <1>8 DEF Loads, Answers, Settled
  <2>3. screen' \in Shown
    BY <1>1, <2>1, <2>2 DEF Loads, Shown
  <2>4. refresh' - timer' \in 0 .. Longest
    BY <1>2, Waiting
  <2>5. Typed'
    BY <1>2, <1>4, <2>1, <2>3, <2>4, RenderedLive DEF Typed
  <2>6. LiveInv'
    BY <1>4, <2>1, <2>3, <2>4, RenderedLive DEF LiveInv
  <2>7. \A x \in Endpoints : steady'[x] > Slow => screen'.answers[x] = service'[x]
    <3> SUFFICES ASSUME NEW x \in Endpoints, steady[x] > Slow
                 PROVE  load.answers[x] = service[x]
      BY <1>2, <2>1
    <3>1. load.age < steady[x]
      BY <1>1, Times DEF Loads, Typed
    <3> QED BY <1>1, <1>8, <3>1 DEF Settled
  <2>8. AlertsInv'
    BY <2>7 DEF AlertsInv, Wrong
  <2> QED BY <1>5, <1>6, <2>5, <2>6, <2>8
<1> QED BY <1>7, <1>8

(* Time passes for the loads, the screen and the timer alike.              *)
LEMMA InvTime == Inv /\ TimePasses => Inv'
<1> SUFFICES ASSUME Inv, TimePasses PROVE Inv'
  OBVIOUS
<1> USE DEF Inv
<1>1. /\ timer # refresh /\ \A l \in loads : l.age # Slow
      /\ timer' = timer + 1 /\ sample' = Older(sample)
      /\ steady' = [e \in Endpoints |-> Older(steady[e])]
      /\ loads' = {Aged(l) : l \in loads}
      /\ screen' = [screen EXCEPT !.sample = Older(@)]
      /\ UNCHANGED <<service, refresh, live>>
  BY DEF TimePasses, Due, Overdue, Aged
<1>2. /\ \A l \in loads : /\ l \in Loads /\ l.age \in 0 .. Slow
                           /\ Aged(l) \in Loads /\ Aged(l).age = l.age + 1
                           /\ Aged(l).byHand = l.byHand /\ Aged(l).answers = l.answers
  BY <1>1, AgedLoad DEF Typed, Loads
<1>3. /\ screen' \in Shown /\ screen'.answers = screen.answers
      /\ screen.sample \in Int /\ screen'.sample \in Int
      /\ screen'.sample <= screen.sample + 1
  BY <1>1, Ages DEF Typed, Shown
<1>4. \A e \in Endpoints :
        /\ steady[e] \in 0 .. Old /\ steady'[e] \in 0 .. Old
        /\ steady[e] <= steady'[e] /\ steady'[e] <= steady[e] + 1
        /\ steady[e] < Old => steady'[e] = steady[e] + 1
  BY <1>1, Ages DEF Typed
<1>5. timer \in Nat /\ timer' \in 0 .. refresh' /\ refresh \in 1 .. Longest
      /\ refresh' - timer' = (refresh - timer) - 1
  BY <1>1, Times DEF Typed
<1>6. Typed'
  <2>1. sample' \in 0 .. Old
    BY <1>1, Ages DEF Typed
  <2>2. loads' \subseteq Loads
    BY <1>1, <1>2
  <2>3. steady' \in [Endpoints -> 0 .. Old]
    BY <1>1, <1>4
  <2> QED BY <1>1, <1>3, <1>5, <2>1, <2>2, <2>3 DEF Typed
<1>7. Apart'
  <2> SUFFICES ASSUME NEW l \in loads, NEW k \in loads
               PROVE  /\ Aged(l).byHand /\ Aged(k).byHand => Aged(l) = Aged(k)
                      /\ ~Aged(l).byHand /\ ~Aged(k).byHand /\ Aged(l).age = Aged(k).age
                           => Aged(l) = Aged(k)
                      /\ ~Aged(l).byHand => timer' <= Aged(l).age
    BY <1>1 DEF Apart
  <2>1. l.byHand /\ k.byHand => l = k
    BY DEF Apart
  <2>2. ~l.byHand /\ ~k.byHand /\ l.age = k.age => l = k
    BY DEF Apart
  <2>3. ~l.byHand => timer <= l.age
    BY DEF Apart
  <2> QED BY <1>1, <1>2, <1>5, <2>1, <2>2, <2>3
<1>8. Current'
  <2> SUFFICES ASSUME NEW l \in loads, NEW e \in Endpoints, Aged(l).age < steady'[e]
               PROVE  Aged(l).answers[e] \in {"pending", service'[e]}
    BY <1>1 DEF Current
  <2>1. l.age < steady[e]
    BY <1>2, <1>4, Times
  <2> QED BY <1>1, <1>2, <2>1 DEF Current
<1>9. \A n, m, limit \in Int :
        Shows(loads, refresh - timer, n, limit) /\ m <= n + 1
          => Shows(loads', refresh' - timer', m, limit)
  <2>1. loads \subseteq Loads /\ refresh - timer \in Int
    BY <1>5 DEF Typed
  <2> QED BY <1>1, <1>5, <2>1, ShowsLater
<1>10. LiveInv'
  <2>1. Fresh + Longest + Slow \in Int
    BY Times
  <2> QED BY <1>1, <1>3, <1>9, <2>1 DEF LiveInv
<1>11. AlertsInv'
  <2> SUFFICES ASSUME NEW e \in Endpoints, Wrong(e)', steady'[e] > Slow
               PROVE  Shows(loads', refresh' - timer', steady'[e], Latest)
    BY DEF AlertsInv
  <2>1. Wrong(e)
    BY <1>1, <1>3 DEF Wrong
  <2>2. Latest \in Int
    BY Times
  <2>3. CASE steady[e] > Slow
    BY <1>4, <1>9, <2>1, <2>2, <2>3 DEF AlertsInv
  <2>4. CASE ~(steady[e] > Slow)
    <3>1. steady'[e] = Slow + 1
      BY <1>4, <2>4, Times
    <3>2. CASE loads = {}
      <4>1. refresh' - timer' \in 0 .. Longest - 1 /\ loads' = {}
        BY <1>1, <1>5, <3>2, Times
      <4>2. steady'[e] + (refresh' - timer') + Slow <= Latest
        BY <3>1, <4>1, Times
      <4> QED BY <4>1, <4>2 DEF Shows
    <3>3. CASE loads # {}
      <4>1. PICK l \in loads : Aged(l).age \in Nat /\ Aged(l).age >= 1 /\ Aged(l) \in loads'
        BY <1>1, <1>2, <3>3, Times
      <4>2. steady'[e] + Slow - Aged(l).age <= Latest
        BY <3>1, <4>1, Times
      <4> QED BY <4>1, <4>2 DEF Shows
    <3> QED BY <3>2, <3>3
  <2> QED BY <2>3, <2>4
<1> QED BY <1>6, <1>7, <1>8, <1>10, <1>11

(* The invariant holds in every state. *)
THEOREM DashboardInductive == DashboardSpec => []Inv
<1>1. Inv /\ [DashboardNext]_dashboardVars => Inv'
  <2> SUFFICES ASSUME Inv, [DashboardNext]_dashboardVars PROVE Inv'
    OBVIOUS
  <2>1. CASE UNCHANGED dashboardVars
    <3>1. UNCHANGED <<service, steady, sample, refresh, timer, loads, screen, live>>
      BY <2>1 DEF dashboardVars
    <3> QED BY <3>1 DEF Inv, Typed, Apart, Current, LiveInv, AlertsInv, Wrong
  <2>2. CASE DashboardNext
    BY <2>2, InvChange, InvFetch, InvSample, InvRender, InvLoads, InvTime DEF DashboardNext
  <2> QED BY <2>1, <2>2
<1> QED BY InvInit, <1>1, PTL DEF DashboardSpec

(* The types, and that no two loads under way are equal, so that a set of  *)
(* loads is what the code has (main.tsx:471-522).                          *)
THEOREM DashboardTypes == DashboardSpec => []DashboardTypeOK
<1>1. Inv => DashboardTypeOK
  <2> SUFFICES ASSUME Inv PROVE DashboardTypeOK
    OBVIOUS
  <2>1. \A l \in loads : /\ l.age \in 0 .. Slow /\ l.sample \in 0 .. Old /\ l.byHand \in BOOLEAN
                          /\ l.answers \in [Endpoints -> Statuses \cup {"pending"}]
    BY DEF Inv, Typed, Loads
  <2>2. \A l, k \in loads : l.age = k.age /\ l.byHand = k.byHand => l = k
    BY <2>1 DEF Inv, Apart
  <2>3. screen.sample \in 0 .. Old
        /\ screen.answers \in Answers \cup {[e \in Endpoints |-> "idle"]}
    BY DEF Inv, Typed, Shown
  <2> QED BY <2>1, <2>2, <2>3 DEF Inv, Typed, DashboardTypeOK
<1> QED BY <1>1, DashboardInductive, PTL

(* LIVE is never older than Fresh by more than an interval and a fetch,    *)
(* however loads overlap (main.tsx:600-603).                               *)
THEOREM LiveIsAlwaysBounded == DashboardSpec => []LiveIsBounded
<1>1. Inv => LiveIsBounded
  <2> SUFFICES ASSUME Inv, live PROVE screen.sample <= Fresh + Longest + Slow
    BY DEF LiveIsBounded, Longest
  <2>1. Shows(loads, refresh - timer, screen.sample, Fresh + Longest + Slow)
    BY DEF Inv, LiveInv
  <2>2. screen.sample \in Int /\ \A l \in loads : l.age \in 0 .. Slow
    BY DEF Inv, Typed, Shown, Loads
  <2>3. refresh - timer \in Nat
    BY Waiting DEF Inv
  <2> QED BY <2>1, <2>2, <2>3, Times DEF Shows
<1> QED BY <1>1, DashboardInductive, PTL

(* However loads overlap and answers overtake each other, what has been so *)
(* for an interval and two fetches is on the screen (main.tsx:471-568).    *)
THEOREM AlertsAlwaysCatchUp == DashboardSpec => []AlertsCatchUp
<1>1. Inv => AlertsCatchUp
  <2> SUFFICES ASSUME Inv, NEW e \in Watched, steady[e] > Latest
               PROVE  e \in buildAlerts(screen) <=> service[e] # "ok"
    BY DEF AlertsCatchUp
  <2>1. e \in Endpoints /\ steady[e] \in Nat
    BY EndpointsAssumption, Times DEF Inv, Typed
  <2>2. steady[e] > Slow
    BY <2>1, Times
  <2>3. \A l \in loads : l.age \in 0 .. Slow
    BY DEF Inv, Typed, Loads
  <2>4. refresh - timer \in Nat
    BY Waiting DEF Inv
  <2>5. ~Shows(loads, refresh - timer, steady[e], Latest)
    BY <2>1, <2>3, <2>4, Times DEF Shows
  <2>6. ~Wrong(e)
    BY <2>1, <2>2, <2>5 DEF Inv, AlertsInv
  <2> QED BY <2>6 DEF Wrong, buildAlerts
<1> QED BY <1>1, DashboardInductive, PTL
=============================================================================
