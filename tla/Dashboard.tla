------------------------------- MODULE Dashboard -------------------------------
(***************************************************************************)
(* The dashboard in the browser, apps/frontend/src/main.tsx: loads that    *)
(* fetch every endpoint and wait for all of the answers, started by a      *)
(* timer, by hand and by a change of the refresh interval, without regard  *)
(* to those still under way; and what the screen then says of the system.  *)
(*                                                                         *)
(* Time is counted in ages, all capped at Old, so that behaviours have no  *)
(* end.  A load never takes longer than Slow: no timeout in the code says  *)
(* so, and without it the screen need never change again.  The endpoints   *)
(* are those of TrafficReports, among others; the names of the two modules *)
(* are distinct, to be used together.                                      *)
(***************************************************************************)
EXTENDS Integers, FiniteSetsExt

CONSTANTS
  Endpoints, \* what a load fetches
  Watched,   \* the endpoints buildAlerts looks at
  Collector, \* the endpoint of the collector's health
  Intervals, \* the refresh intervals that can be chosen
  Fresh,     \* the age up to which a sample is live
  Slow,      \* external: the longest a fetch takes
  MaxByHand  \* bound: loads started by hand under way, 0 or 1

ASSUME EndpointsAssumption == Collector \in Watched /\ Watched \subseteq Endpoints
ASSUME TimesAssumption ==
  /\ Intervals \subseteq Nat \ {0} /\ Intervals # {} /\ IsFiniteSet(Intervals)
  /\ Fresh \in Nat /\ Slow \in Nat \ {0} /\ MaxByHand \in {0, 1}

VARIABLES
  service, \* external: how each endpoint answers at present
  steady,  \* history: for how long it has answered so
  sample,  \* the age of the collector's newest sample
  refresh, \* the refresh interval
  timer,   \* time since the timer was set or last fired
  loads,   \* the loads under way
  screen,  \* the answers shown, and the sample among them
  live     \* whether the screen says LIVE

dashboardVars == <<service, steady, sample, refresh, timer, loads, screen, live>>

(* From here on an answer on the screen cannot be older. *)
Latest == Max(Intervals) + 2 * Slow
Old == Max({Latest, Fresh + Max(Intervals) + Slow}) + 1

Statuses == {"ok", "unavailable"}

(* No two loads under way are equal: the timer does not fire twice at a    *)
(* time, and there is one load by hand at most.                            *)
NewLoad(byHand) == [byHand |-> byHand, age |-> 0, sample |-> Old, answers |-> [e \in Endpoints |-> "pending"]]

DashboardInit ==
  /\ service \in [Endpoints -> Statuses] /\ steady = [e \in Endpoints |-> 0]
  /\ sample \in {0, Old}
  /\ refresh = Min(Intervals) /\ timer = 0
  /\ loads = {NewLoad(FALSE)}
  /\ screen = [sample |-> Old, answers |-> [e \in Endpoints |-> "idle"]]
  /\ live = FALSE

-----------------------------------------------------------------------------
(* The servers.                                                            *)

(* The collector calls itself well only once it has recorded a sample. *)
Change(e) ==
  /\ service' = [service EXCEPT ![e] = IF @ = "ok" THEN "unavailable" ELSE "ok"]
  /\ steady' = [steady EXCEPT ![e] = 0]
  /\ sample' = IF e = Collector /\ service'[e] = "ok" THEN 0 ELSE sample
  /\ UNCHANGED <<refresh, timer, loads, screen, live>>

Sample ==
  /\ service[Collector] = "ok"
  /\ sample' = 0
  /\ UNCHANGED <<service, steady, refresh, timer, loads, screen, live>>

-----------------------------------------------------------------------------
(* The screen.                                                             *)

(* Mutant: the age of the sample is not looked at. *)
isLiveByStatus(shown) == shown.answers[Collector] = "ok"

isLive(shown) == shown.answers[Collector] = "ok" /\ shown.sample <= Fresh

(* The alerts: one for each endpoint watched that did not answer well, and *)
(* "No active alerts" when there is none.                                  *)
buildAlerts(shown) == {e \in Watched : shown.answers[e] # "ok"}

(* Mutant: Promise.all rejects when a fetch fails, as it would if          *)
(* fetchEndpoint did not catch.                                            *)
ShowUnlessRejected(load) ==
  /\ screen' = IF \E e \in Endpoints : load.answers[e] # "ok" THEN screen
               ELSE [sample |-> load.sample, answers |-> load.answers]
  /\ live' = isLive(screen')

(* The answers of a load are shown together, also when a later load was    *)
(* shown before.                                                           *)
Show(load) ==
  /\ screen' = [sample |-> load.sample, answers |-> load.answers]
  /\ live' = isLive(screen')

(* Mutant: the first answer settles the load. *)
SettledByFirst(load) == \E e \in Endpoints : load.answers[e] # "pending"

(* Promise.all. *)
Settled(load) == \A e \in Endpoints : load.answers[e] # "pending"

(* Mutant: a sample counts as new because the answer is. *)
fetchEndpointStamped(l, e) ==
  LET load == [l EXCEPT !.answers[e] = service[e],
                        !.sample = IF e = Collector /\ service[e] = "ok" THEN 0 ELSE @]
  IN  /\ l.answers[e] = "pending"
      /\ IF Settled(load)
           THEN loads' = loads \ {l} /\ Show(load)
           ELSE loads' = (loads \ {l}) \cup {load} /\ UNCHANGED <<screen, live>>
      /\ UNCHANGED <<service, steady, sample, refresh, timer>>

(* fetchEndpoint: a failure is an answer like another. *)
fetchEndpoint(l, e) ==
  LET load == [l EXCEPT !.answers[e] = service[e],
                        !.sample = IF e = Collector /\ service[e] = "ok" THEN sample ELSE @]
  IN  /\ l.answers[e] = "pending"
      /\ IF Settled(load)
           THEN loads' = loads \ {l} /\ Show(load)
           ELSE loads' = (loads \ {l}) \cup {load} /\ UNCHANGED <<screen, live>>
      /\ UNCHANGED <<service, steady, sample, refresh, timer>>

(* Another section is opened: the screen is rendered with what it has. *)
Render ==
  /\ live' = isLive(screen)
  /\ UNCHANGED <<service, steady, sample, refresh, timer, loads, screen>>

-----------------------------------------------------------------------------
(* The loads.                                                              *)

Due == timer = refresh

Timer ==
  /\ Due
  /\ timer' = 0 /\ loads' = loads \cup {NewLoad(FALSE)}
  /\ UNCHANGED <<service, steady, sample, refresh, screen, live>>

ByHand == Cardinality({l \in loads : l.byHand}) < MaxByHand

Refresh ==
  /\ ByHand
  /\ loads' = loads \cup {NewLoad(TRUE)}
  /\ UNCHANGED <<service, steady, sample, refresh, timer, screen, live>>

(* The effect runs again: the timer is set anew, and loads under way go on. *)
setRefreshMs ==
  /\ ByHand
  /\ refresh' \in Intervals \ {refresh}
  /\ timer' = 0 /\ loads' = loads \cup {NewLoad(TRUE)}
  /\ UNCHANGED <<service, steady, sample, screen, live>>

Overdue == {l \in loads : l.age = Slow}

Older(age) == Min({age + 1, Old})

TimePasses ==
  /\ ~Due /\ Overdue = {}
  /\ timer' = timer + 1
  /\ steady' = [e \in Endpoints |-> Older(steady[e])]
  /\ sample' = Older(sample)
  /\ loads' = {[l EXCEPT !.age = @ + 1, !.sample = Older(@)] : l \in loads}
  /\ screen' = [screen EXCEPT !.sample = Older(@)]
  /\ UNCHANGED <<service, refresh, live>>

DashboardNext ==
  \/ \E e \in Endpoints : Change(e)
  \/ \E l \in loads, e \in Endpoints : fetchEndpoint(l, e)
  \/ Sample \/ Render \/ Timer \/ Refresh \/ setRefreshMs \/ TimePasses

(* Time passes, the browser's timer fires, and a fetch that has taken Slow *)
(* is answered, or fails.                                                  *)
Fairness ==
  /\ WF_dashboardVars(TimePasses) /\ WF_dashboardVars(Timer)
  /\ WF_dashboardVars(\E l \in Overdue, e \in Endpoints : fetchEndpoint(l, e))

DashboardSpec == DashboardInit /\ [][DashboardNext]_dashboardVars /\ Fairness

-----------------------------------------------------------------------------
(* Properties.                                                             *)

Answers == [Endpoints -> Statuses]

DashboardTypeOK ==
  /\ service \in Answers /\ steady \in [Endpoints -> 0 .. Old] /\ sample \in 0 .. Old
  /\ refresh \in Intervals /\ timer \in 0 .. refresh
  /\ \A l \in loads : l.age \in 0 .. Slow /\ l.sample \in 0 .. Old
                       /\ l.answers \in [Endpoints -> Statuses \cup {"pending"}]
  /\ \A l, k \in loads : l.age = k.age /\ l.byHand = k.byHand => l = k
  /\ screen.sample \in 0 .. Old /\ live \in BOOLEAN
  /\ screen.answers \in Answers \cup {[e \in Endpoints |-> "idle"]}

(* An endpoint that has answered in one way for a whole interval and two   *)
(* fetches is alerted about, or not, accordingly, though loads overlap and *)
(* old answers replace newer ones (main.tsx:471-522, 525-568).             *)
AlertsCatchUp ==
  \A e \in Watched : steady[e] > Latest => (e \in buildAlerts(screen) <=> service[e] # "ok")

(* LIVE is written when the screen is rendered and stays until the next    *)
(* load is shown: the sample it speaks of is older than Fresh by no more   *)
(* than an interval and a fetch (main.tsx:600-603).                        *)
LiveIsBounded == live => screen.sample <= Fresh + Max(Intervals) + Slow

(* A collector that records nothing any more, even if it keeps saying that *)
(* it is well, does not stay LIVE.  LiveIsBounded speaks of the sample     *)
(* that the screen goes by; this one of the newest there is, so the screen *)
(* must also go by that one (main.tsx:433-456, 600-603).                   *)
StaleIsShown == <>[](sample = Old) => <>[]~live
=============================================================================
