---------------------------- MODULE TrafficReports ----------------------------
(***************************************************************************)
(* The reports of the API over the rows the collector writes, and the time *)
(* they are about.                                                         *)
(*                                                                         *)
(*   apps/collector/internal/db/writer.go  WriteDeltas (bucket of a delta) *)
(*   apps/backend/internal/db/store.go     TodayTotals, HasTrafficData,    *)
(*                                         Hourly                          *)
(*   apps/backend/cmd/api/main.go          writeDashboard, writeISPUsage,  *)
(*                                         writeDailyReport                *)
(*   features/gateway/isp/buckets.go       PeriodAt                        *)
(*                                                                         *)
(* A request reads the clock and queries the database in steps of its own, *)
(* between which time passes, midnight included, and the collector         *)
(* commits.  Time advances in half hours, which is what the offset of the  *)
(* default time zone, Asia/Colombo, is made of.                            *)
(***************************************************************************)
EXTENDS Integers, Sums

CONSTANTS
  Hours,      \* bound: hours in a day
  Days,       \* bound: days in a behaviour
  Offset,     \* half hours by which local time is ahead of UTC
  FreeStart,  \* the free window, in half hours of the local day
  FreeEnd,
  MaxBytes    \* bound: units of traffic in a behaviour

ASSUME BoundsAssumption ==
  /\ Hours \in Nat \ {0} /\ Days \in Nat \ {0} /\ MaxBytes \in Nat
  /\ Offset \in Nat
  /\ FreeStart \in 0 .. 2 * Hours - 1 /\ FreeEnd \in 0 .. 2 * Hours - 1

Classes == {"internet", "lan"}

Slots == 0 .. 2 * Hours * Days - 1      \* half hours, UTC
Buckets == 0 .. Hours * Days - 1        \* hours, UTC
HourOf(slot) == slot \div 2
StartOf(hour) == 2 * hour
DayOf(slot) == slot \div (2 * Hours)
Midnight(day) == day * Hours            \* the first hour of a day

Local(slot) == (slot + Offset) % (2 * Hours)

InWindow(x) ==
  \/ FreeStart < FreeEnd /\ x >= FreeStart /\ x < FreeEnd
  \/ FreeStart > FreeEnd /\ (x >= FreeStart \/ x < FreeEnd)

PeriodAt(slot) == IF InWindow(Local(slot)) THEN "free_night" ELSE "anytime"

-----------------------------------------------------------------------------

VARIABLES
  now,         \* the half hour it is
  collecting,  \* the collector is accounting for traffic
  unbooked,    \* bytes read from no counter yet, by class
  batch,       \* the deltas being written, with the time they were stamped
  hourly,      \* traffic_hourly: bytes by class and hour
  samples,     \* traffic_samples has a row
  store,       \* the API connected to the database when it started
  request,     \* the request being served
  answer,      \* the last answer given
  carried,     \* history: bytes by class and half hour
  prompt       \* history: all bytes were booked with the time they passed

collector == <<collecting, unbooked, batch>>
tables == <<hourly, samples>>
api == <<store, request, answer>>

vars == <<now, collector, tables, api, carried, prompt>>

Kinds == {"dashboard", "isp", "daily"}
NoBatch == [stamp |-> -1, bytes |-> [c \in Classes |-> 0]]
NoRequest == [kind |-> "none", step |-> "none", at |-> 0]
NoAnswer == [kind |-> "none", status |-> "none", day |-> 0, internet |-> 0, free |-> 0]
Unavailable(kind) == [NoAnswer EXCEPT !.kind = kind, !.status = "unavailable"]

Init ==
  /\ now = 0
  /\ collecting = TRUE
  /\ unbooked = [c \in Classes |-> 0]
  /\ batch = NoBatch
  /\ hourly = [c \in Classes |-> [h \in Buckets |-> 0]]
  /\ samples = FALSE
  /\ store \in BOOLEAN
  /\ request = NoRequest
  /\ answer = NoAnswer
  /\ carried = [c \in Classes |-> [s \in Slots |-> 0]]
  /\ prompt = TRUE

-----------------------------------------------------------------------------
(* The environment.                                                        *)

(* What is unbooked when the half hour ends will carry a later time. *)
PassTime ==
  /\ now + 1 \in Slots
  /\ now' = now + 1
  /\ prompt' = (prompt /\ \A c \in Classes : unbooked[c] = 0)
  /\ UNCHANGED <<collector, tables, api, carried>>

Transferred(c) == Sum(carried[c], Slots)

Carry(c) ==
  /\ collecting
  /\ Sum([d \in Classes |-> Transferred(d)], Classes) < MaxBytes
  /\ unbooked' = [unbooked EXCEPT ![c] = @ + 1]
  /\ carried' = [carried EXCEPT ![c][now] = @ + 1]
  /\ UNCHANGED <<now, collecting, batch, tables, api, prompt>>

(* The collector ends, for any of the reasons NftCollector has. *)
StopCollecting ==
  /\ collecting
  /\ collecting' = FALSE
  /\ batch' = NoBatch
  /\ UNCHANGED <<now, unbooked, tables, api, carried, prompt>>

-----------------------------------------------------------------------------
(* The collector.                                                          *)

(* Mutant: the stamp is rounded up. *)
TickRoundedUp ==
  /\ collecting
  /\ batch = NoBatch
  /\ \E c \in Classes : unbooked[c] > 0
  /\ batch' = [stamp |-> now + 1, bytes |-> unbooked]
  /\ unbooked' = [c \in Classes |-> 0]
  /\ UNCHANGED <<now, collecting, tables, api, carried, prompt>>

(* The deltas of a tick are stamped with the time of the tick. *)
Tick ==
  /\ collecting
  /\ batch = NoBatch
  /\ \E c \in Classes : unbooked[c] > 0
  /\ batch' = [stamp |-> now, bytes |-> unbooked]
  /\ unbooked' = [c \in Classes |-> 0]
  /\ UNCHANGED <<now, collecting, tables, api, carried, prompt>>

(* Mutants: the write takes the hour of the commit; the row of the hour is *)
(* replaced.                                                               *)
WriteDeltasNow ==
  /\ batch # NoBatch
  /\ hourly' = [c \in Classes |-> [hourly[c] EXCEPT ![HourOf(now)] = @ + batch.bytes[c]]]
  /\ samples' = TRUE
  /\ batch' = NoBatch
  /\ UNCHANGED <<now, collecting, unbooked, api, carried, prompt>>

WriteDeltasReplacing ==
  /\ batch # NoBatch
  /\ hourly' = [c \in Classes |->
                 [hourly[c] EXCEPT ![HourOf(batch.stamp)] = batch.bytes[c]]]
  /\ samples' = TRUE
  /\ batch' = NoBatch
  /\ UNCHANGED <<now, collecting, unbooked, api, carried, prompt>>

(* The hour of a delta is its own, not that of the commit. *)
WriteDeltas ==
  /\ batch # NoBatch
  /\ hourly' = [c \in Classes |->
                 [hourly[c] EXCEPT ![HourOf(batch.stamp)] = @ + batch.bytes[c]]]
  /\ samples' = TRUE
  /\ batch' = NoBatch
  /\ UNCHANGED <<now, collecting, unbooked, api, carried, prompt>>

-----------------------------------------------------------------------------
(* The queries.                                                            *)

Rows(c, from, to) == Sum(hourly[c], {h \in Buckets : h >= from /\ h < to})

TodayTotals(at) == Rows("internet", Midnight(DayOf(at)), Midnight(DayOf(at) + 1))

(* Mutant: the end of the range is cut to the hour. *)
IspBucketsUpToThisHour(at) == {h \in Buckets : h >= Midnight(DayOf(at)) /\ h < HourOf(at)}

(* writeISPUsage asks for the buckets from the UTC midnight up to an hour  *)
(* from now, a moment within the half hour "at": the hour after the        *)
(* present one has started by then.                                        *)
IspBuckets(at) == {h \in Buckets : h >= Midnight(DayOf(at)) /\ StartOf(h) <= at + 2}

DailyBuckets(day) == {h \in Buckets : h >= Midnight(day) /\ h < Midnight(day + 1)}

(* The period of a bucket is that of its start. *)
FreeOf(buckets) ==
  Sum(hourly["internet"], {h \in buckets : PeriodAt(StartOf(h)) = "free_night"})

-----------------------------------------------------------------------------
(* The handlers.                                                           *)

(* Without a store the answer is given at once. *)
Arrive(kind) ==
  /\ request = NoRequest
  /\ IF store
     THEN /\ request' = [kind |-> kind, at |-> now,
                        step |-> IF kind = "dashboard" THEN "has_data" ELSE "query"]
          /\ answer' = answer
     ELSE /\ request' = NoRequest
          /\ answer' = Unavailable(kind)
  /\ UNCHANGED <<now, collector, tables, store, carried, prompt>>

Respond(reply) ==
  /\ answer' = reply
  /\ request' = NoRequest
  /\ UNCHANGED <<now, collector, tables, store, carried, prompt>>

Answer(day, internet, free) ==
  [kind |-> request.kind, status |-> "ok", day |-> day, internet |-> internet, free |-> free]

(* Only after this query does writeDashboard read the clock. *)
HasTrafficData ==
  /\ request.step = "has_data"
  /\ samples
  /\ request' = [request EXCEPT !.step = "query", !.at = now]
  /\ UNCHANGED <<now, collector, tables, store, answer, carried, prompt>>

HasNoTrafficData ==
  /\ request.step = "has_data"
  /\ ~samples
  /\ Respond(Unavailable(request.kind))

QueryFails ==
  /\ request # NoRequest
  /\ Respond(Unavailable(request.kind))

AnswerDashboard ==
  /\ request.kind = "dashboard" /\ request.step = "query"
  /\ Respond(Answer(DayOf(request.at), TodayTotals(request.at), 0))

AnswerIsp ==
  /\ request.kind = "isp"
  /\ LET buckets == IspBuckets(request.at)
     IN  Respond(Answer(DayOf(request.at), Sum(hourly["internet"], buckets), FreeOf(buckets)))

(* Any day may be asked for. *)
AnswerDaily ==
  /\ request.kind = "daily"
  /\ \E day \in 0 .. Days - 1 :
       LET buckets == DailyBuckets(day)
       IN  Respond(Answer(day, Sum(hourly["internet"], buckets), FreeOf(buckets)))

-----------------------------------------------------------------------------

Next ==
  \/ PassTime
  \/ \E c \in Classes : Carry(c)
  \/ StopCollecting
  \/ Tick \/ WriteDeltas
  \/ \E kind \in Kinds : Arrive(kind)
  \/ HasTrafficData \/ HasNoTrafficData \/ QueryFails
  \/ AnswerDashboard \/ AnswerIsp \/ AnswerDaily

Spec == Init /\ [][Next]_vars
-----------------------------------------------------------------------------
(* Properties.                                                             *)

TypeOK ==
  /\ now \in Slots
  /\ collecting \in BOOLEAN
  /\ unbooked \in [Classes -> Nat]
  /\ batch \in {NoBatch} \cup [stamp : 0 .. now, bytes : [Classes -> Nat]]
  /\ hourly \in [Classes -> [Buckets -> Nat]]
  /\ samples \in BOOLEAN
  /\ store \in BOOLEAN
  /\ request \in {NoRequest} \cup [kind : Kinds, step : {"has_data", "query"}, at : 0 .. now]
  /\ answer \in [kind : Kinds \cup {"none"}, status : {"none", "ok", "unavailable"},
                  day : 0 .. Days - 1, internet : Nat, free : Nat]
  /\ carried \in [Classes -> [Slots -> Nat]]
  /\ prompt \in BOOLEAN

(* With a poll in every half hour that traffic passed in, each hour's row  *)
(* ends up holding that hour's bytes, whatever the commits are delayed by. *)
PromptHoursAreExact ==
  prompt /\ collecting =>
    \A c \in Classes, h \in Buckets :
      hourly[c][h] + (IF batch # NoBatch /\ HourOf(batch.stamp) = h THEN batch.bytes[c] ELSE 0)
                   + (IF HourOf(now) = h THEN unbooked[c] ELSE 0)
        = Sum(carried[c], {s \in Slots : HourOf(s) = h})

(* The dashboard, the ISP report and the daily report of today agree on    *)
(* the Internet total whenever they are computed from the same rows: three *)
(* computations of the range in two programs.                              *)
ReportsAgree ==
  LET today == DayOf(now) IN
  /\ TodayTotals(now) = Sum(hourly["internet"], IspBuckets(now))
  /\ TodayTotals(now) = Sum(hourly["internet"], DailyBuckets(today))

(* Asked again on the same day, no report shows less than before: rows     *)
(* only grow, and the ranges with them.                                    *)
TotalsNeverShrink ==
  [][ /\ answer.status = "ok" /\ answer'.status = "ok"
      /\ answer'.kind = answer.kind /\ answer'.day = answer.day
      => answer'.internet >= answer.internet ]_vars

(* A claim the code does not keep: the bucket of a transfer is that of its *)
(* own time in the local zone.  Where the offset is not a whole hour, the  *)
(* window opens and closes inside a bucket (api main.go:361, 507).         *)
IspFollowsTransferTime ==
  prompt /\ collecting /\ batch = NoBatch /\ unbooked["internet"] = 0 =>
    FreeOf(IspBuckets(now)) =
      Sum(carried["internet"],
          {s \in Slots : DayOf(s) = DayOf(now) /\ PeriodAt(s) = "free_night"})

=============================================================================
