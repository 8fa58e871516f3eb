---------------------------- MODULE NftCollector ----------------------------
(***************************************************************************)
(* The collector process in its primary mode: named nftables counters on   *)
(* the default interface are polled, the growth since the last poll is     *)
(* written to PostgreSQL in one transaction over four tables, and /healthz *)
(* reports how that goes.                                                  *)
(*                                                                         *)
(*   apps/collector/cmd/collector/main.go       main, runCollector, health *)
(*   apps/collector/internal/nft/accounting.go  Setup, ReadCounters, Deltas*)
(*   apps/collector/internal/db/writer.go       WriteDeltas                *)
(*                                                                         *)
(* The kernel keeps counting while the process is down or blocked in a     *)
(* transaction, the nft commands and every database statement can fail,    *)
(* and the process can die between any two steps.                          *)
(***************************************************************************)
EXTENDS Integers, FiniteSets

CONSTANTS
  Packets,      \* the kinds of packet that are sent
  PacketSizes,  \* the sizes, in units of bytes, a packet may have
  MaxBytes,     \* bound: units of traffic in a behaviour
  MaxFaults     \* bound: failures and crashes in a behaviour

-----------------------------------------------------------------------------
(* The accounting point: accounts, packets and the rules of the table.     *)

Classes == {"internet", "lan"}
Directions == {"download", "upload"}

(* One named counter per class and direction. *)
Accounts == Classes \X Directions

Hooks == {"input", "forward", "output"}
Zones == {"private", "public"}

(* What the rules can see of a packet.  iif and oif say whether it came in *)
(* or goes out through the default interface.                              *)
PacketKinds ==
  { p \in [hook : Hooks, v4 : BOOLEAN, src : Zones, dst : Zones,
           iif : BOOLEAN, oif : BOOLEAN] :
      /\ p.hook = "input" => ~p.oif
      /\ p.hook = "output" => ~p.iif }

ASSUME PacketsAssumption == Packets \subseteq PacketKinds
ASSUME SizesAssumption == PacketSizes \subseteq Nat \ {0}
ASSUME BoundsAssumption == MaxBytes \in Nat /\ MaxFaults \in Nat

ClassOf(zone) == IF zone = "private" THEN "lan" ELSE "internet"

(* The counters the eight rules of the three chains add a packet to.  The  *)
(* rules test "ip saddr" and "ip daddr", which only IPv4 packets have.     *)
Matched(p) ==
  { a \in Accounts :
      /\ p.v4
      /\ \/ /\ p.hook \in {"input", "forward"}
            /\ p.iif
            /\ a = <<ClassOf(p.src), "download">>
         \/ /\ p.hook \in {"output", "forward"}
            /\ p.oif
            /\ a = <<ClassOf(p.dst), "upload">> }

(* The reference: the accounts a packet's bytes belong to, by the remote   *)
(* endpoint and the direction in which it crosses the default interface.   *)
Crossed(p) ==
  { a \in Accounts :
      \/ p.iif /\ a = <<ClassOf(p.src), "download">>
      \/ p.oif /\ a = <<ClassOf(p.dst), "upload">> }

-----------------------------------------------------------------------------
(* The database: the tables one delta item is written to, in this order.   *)

TableOrder == <<"traffic_samples", "traffic_minute", "traffic_hourly", "traffic_daily">>
Tables == {TableOrder[i] : i \in 1..4}

(* A statement writes the item of one class into one table. *)
Statements == Classes \X Tables

TablePosition(t) == CHOOSE i \in 1..4 : TableOrder[i] = t

(* Items are written one after the other, Internet first, each of them to  *)
(* the four tables in order.                                               *)
Position(s) == (IF s[1] = "internet" THEN 0 ELSE 4) + TablePosition(s[2])

-----------------------------------------------------------------------------

VARIABLES
  pc,         \* where the collector goroutine is
  iface,      \* a default interface was detected
  previous,   \* the last snapshot read
  deltas,     \* growth computed from the snapshot being processed
  todo,       \* statements of the transaction still to execute
  health,     \* what /healthz reports of status, mode and accounting
  totals,     \* the byte totals /healthz reports
  rules,      \* how many copies of the rules the table has; 0 = no table
  counter,    \* the named counters in the kernel
  txn,        \* rows of the open transaction, not yet visible
  stored,     \* committed bytes per table and account
  actual,     \* history: bytes that crossed the interface while accounted
  bytes,      \* history: units of traffic sent, for the bound
  lossy,      \* history: the kinds of loss that have happened
  recounted,  \* history: Setup reused a table it should have deleted
  faults      \* history: failures and crashes so far, for the bound

memory == <<iface, previous, deltas, todo, health, totals>>
kernel == <<rules, counter>>
database == <<txn, stored>>
history == <<actual, bytes, lossy, recounted, faults>>

vars == <<pc, memory, kernel, database, history>>

Zero == [a \in Accounts |-> 0]
NoRows == [t \in Tables |-> Zero]

PcValues == {"off", "detect", "connect", "setup", "load", "acct", "wait", "begin",
             "exec", "commit", "record", "fallback", "stopped", "halted"}

Modes == {"nftables_counters", "conntrack_snapshot"}

HealthValues ==
  [status : {"starting", "ok", "degraded"}, mode : {"starting"} \cup Modes,
   accounting : {"unavailable"} \cup Modes, error : BOOLEAN]

Losses == {"write", "reset", "crash", "ipv6"}

(* The goroutine is polling counters. *)
Polling == {"wait", "begin", "exec", "commit", "record"}

(* The deltas that are neither in the database nor given up. *)
InFlight(a) == IF pc \in {"begin", "exec", "commit"} THEN deltas[a] ELSE 0

(* Mutant: the guard against a counter that went backwards is missing. *)
SignedDelta(current, before) == current - before

(* positiveDelta: a counter that went backwards contributes nothing. *)
PositiveDelta(current, before) == IF current <= before THEN 0 ELSE current - before

Growth(current, before) == [a \in Accounts |-> PositiveDelta(current[a], before[a])]

(* ToTrafficDeltas: an item per class that moved in either direction. *)
ItemClasses(d) == {c \in Classes : \E dir \in Directions : d[<<c, dir>>] > 0}

Plus(f, g) == [a \in Accounts |-> f[a] + g[a]]

StartingHealth ==
  [status |-> "starting", mode |-> "starting", accounting |-> "unavailable", error |-> FALSE]

Init ==
  /\ pc = "off"
  /\ iface = FALSE
  /\ previous = Zero
  /\ deltas = Zero
  /\ todo = {}
  /\ health = StartingHealth
  /\ totals = Zero
  /\ rules = 0
  /\ counter = Zero
  /\ txn = NoRows
  /\ stored = NoRows
  /\ actual = Zero
  /\ bytes = 0
  /\ lossy = {}
  /\ recounted = FALSE
  /\ faults = 0

-----------------------------------------------------------------------------
(* Bookkeeping shared by the actions.                                      *)

(* setError leaves mode alone. *)
SetError ==
  health' = [health EXCEPT !.status = "degraded", !.accounting = "unavailable", !.error = TRUE]

Starting(mode) ==
  health' = [health EXCEPT !.status = "starting", !.mode = mode, !.accounting = mode]

Fault ==
  /\ faults < MaxFaults
  /\ faults' = faults + 1

Goto(next) == pc' = next

-----------------------------------------------------------------------------
(* main: start the process and find the interface and the database.        *)

Start ==
  /\ pc = "off"
  /\ Goto("detect")
  /\ UNCHANGED <<memory, kernel, database, history>>

DetectHost ==
  /\ pc = "detect"
  /\ iface' = TRUE
  /\ Goto("connect")
  /\ UNCHANGED <<previous, deltas, todo, health, totals, kernel, database, history>>

(* Without a route the process goes on with an empty interface name. *)
DetectHostFails ==
  /\ pc = "detect"
  /\ Fault
  /\ SetError
  /\ Goto("connect")
  /\ UNCHANGED <<iface, previous, deltas, todo, totals, kernel, database,
                 actual, bytes, lossy, recounted>>

ConnectDatabase ==
  /\ pc = "connect"
  /\ Goto("setup")
  /\ UNCHANGED <<memory, kernel, database, history>>

(* Mutant: the process goes on serving /healthz without saying why. *)
ConnectDatabaseFailsQuietly ==
  /\ pc = "connect"
  /\ Fault
  /\ Goto("halted")
  /\ UNCHANGED <<memory, kernel, database, actual, bytes, lossy, recounted>>

(* The goroutine is never started: only /healthz is served from here on. *)
ConnectDatabaseFails ==
  /\ pc = "connect"
  /\ Fault
  /\ SetError
  /\ Goto("halted")
  /\ UNCHANGED <<iface, previous, deltas, todo, totals, kernel, database,
                 actual, bytes, lossy, recounted>>

-----------------------------------------------------------------------------
(* nft.Setup: delete the table of an earlier run, then load the ruleset.   *)

(* An empty interface name is refused before anything is deleted. *)
SetupWithoutInterface ==
  /\ pc = "setup"
  /\ ~iface
  /\ SetError
  /\ Goto("acct")
  /\ UNCHANGED <<iface, previous, deltas, todo, totals, kernel, database, history>>

(* Deleting a table that does not exist fails as well, to the same effect. *)
DeleteOldTable ==
  /\ pc = "setup"
  /\ iface
  /\ rules' = 0
  /\ counter' = Zero
  /\ Goto("load")
  /\ UNCHANGED <<memory, database, history>>

(* The error of the delete command is dropped. *)
DeleteOldTableFails ==
  /\ pc = "setup"
  /\ iface
  /\ rules > 0
  /\ Fault
  /\ Goto("load")
  /\ UNCHANGED <<memory, kernel, database, actual, bytes, lossy, recounted>>

(* nft -f adds to what is there: the rules of a table that survived are    *)
(* then present once more, and its counters keep their values.             *)
LoadRuleset ==
  /\ pc = "load"
  /\ rules' = rules + 1
  /\ recounted' = (recounted \/ rules > 0)
  /\ previous' = Zero
  /\ Starting("nftables_counters")
  /\ Goto("wait")
  /\ UNCHANGED <<iface, deltas, todo, totals, counter, database, actual, bytes, lossy, faults>>

LoadRulesetFails ==
  /\ pc = "load"
  /\ Fault
  /\ SetError
  /\ Goto("acct")
  /\ UNCHANGED <<iface, previous, deltas, todo, totals, kernel, database,
                 actual, bytes, lossy, recounted>>

(* runConntrackCollector checks nf_conntrack_acct once.  With it the       *)
(* collector polls conntrack instead (module ConntrackCollector); without  *)
(* it the goroutine ends.                                                  *)
FallBackToConntrack ==
  /\ pc = "acct"
  /\ Starting("conntrack_snapshot")
  /\ Goto("fallback")
  /\ UNCHANGED <<iface, previous, deltas, todo, totals, kernel, database, history>>

ConntrackUnavailable ==
  /\ pc = "acct"
  /\ SetError
  /\ Goto("stopped")
  /\ UNCHANGED <<iface, previous, deltas, todo, totals, kernel, database, history>>

-----------------------------------------------------------------------------
(* One tick: read the counters, then write what they grew by.              *)

(* Mutant: the assignment of the new baseline is missing. *)
ReadCountersKeepsBaseline ==
  /\ pc = "wait"
  /\ rules > 0
  /\ deltas' = Growth(counter, previous)
  /\ Goto(IF ItemClasses(deltas') = {} THEN "record" ELSE "begin")
  /\ UNCHANGED <<iface, previous, todo, health, totals, kernel, database, history>>

(* The baseline moves to the new snapshot here, before anything is written.*)
(* With nothing to write, WriteDeltas returns at once.                     *)
ReadCounters ==
  /\ pc = "wait"
  /\ rules > 0
  /\ deltas' = Growth(counter, previous)
  /\ previous' = counter
  /\ Goto(IF ItemClasses(deltas') = {} THEN "record" ELSE "begin")
  /\ UNCHANGED <<iface, todo, health, totals, kernel, database, history>>

(* Mutant: the error of a read is not reported. *)
ReadMissingTableQuietly ==
  /\ pc = "wait"
  /\ rules = 0
  /\ UNCHANGED vars

(* Without the table the command fails at every tick. *)
ReadMissingTable ==
  /\ pc = "wait"
  /\ rules = 0
  /\ SetError
  /\ UNCHANGED <<pc, iface, previous, deltas, todo, totals, kernel, database, history>>

(* Mutant: the empty snapshot of a failed read becomes the baseline. *)
ReadCountersFailsAsBaseline ==
  /\ pc = "wait"
  /\ Fault
  /\ SetError
  /\ previous' = Zero
  /\ UNCHANGED <<pc, iface, deltas, todo, totals, kernel, database,
                 actual, bytes, lossy, recounted>>

ReadCountersFails ==
  /\ pc = "wait"
  /\ Fault
  /\ SetError
  /\ UNCHANGED <<pc, iface, previous, deltas, todo, totals, kernel, database,
                 actual, bytes, lossy, recounted>>

BeginTransaction ==
  /\ pc = "begin"
  /\ todo' = ItemClasses(deltas) \X Tables
  /\ txn' = NoRows
  /\ Goto("exec")
  /\ UNCHANGED <<iface, previous, deltas, health, totals, kernel, stored, history>>

(* The rows of statement s: both directions of its class. *)
Written(s) == [a \in Accounts |-> IF a[1] = s[1] THEN deltas[a] ELSE 0]

ExecStatement ==
  /\ pc = "exec"
  /\ \E s \in todo :
       /\ \A other \in todo : Position(s) <= Position(other)
       /\ txn' = [txn EXCEPT ![s[2]] = Plus(@, Written(s))]
       /\ todo' = todo \ {s}
  /\ Goto(IF todo' = {} THEN "commit" ELSE "exec")
  /\ UNCHANGED <<iface, previous, deltas, health, totals, kernel, stored, history>>

(* Mutants: the write is tried again, though it may have been applied; the *)
(* error is swallowed; the totals are counted whatever the outcome.        *)
GiveUpRetries ==
  /\ SetError
  /\ todo' = {}
  /\ txn' = NoRows
  /\ Goto("begin")
  /\ UNCHANGED <<iface, previous, deltas, totals, kernel>>

GiveUpQuietly ==
  /\ deltas' = Zero
  /\ todo' = {}
  /\ txn' = NoRows
  /\ Goto("wait")
  /\ UNCHANGED <<iface, previous, health, totals, kernel>>

GiveUpCountsTotals ==
  /\ SetError
  /\ totals' = Plus(totals, deltas)
  /\ deltas' = Zero
  /\ todo' = {}
  /\ txn' = NoRows
  /\ Goto("wait")
  /\ UNCHANGED <<iface, previous, kernel>>

(* The end of an iteration whose write returned an error: the transaction  *)
(* is rolled back, and the deltas go with it.                              *)
GiveUp ==
  /\ SetError
  /\ deltas' = Zero
  /\ todo' = {}
  /\ txn' = NoRows
  /\ Goto("wait")
  /\ UNCHANGED <<iface, previous, totals, kernel>>

(* Mutant: the statements are not in a transaction. *)
WriteFailsWithoutTransaction ==
  /\ pc \in {"begin", "exec", "commit"}
  /\ Fault
  /\ GiveUp
  /\ stored' = [t \in Tables |-> Plus(stored[t], txn[t])]
  /\ lossy' = lossy \cup {"write"}
  /\ UNCHANGED <<actual, bytes, recounted>>

(* Begin, a statement or Commit fails and nothing has been applied. *)
WriteFails ==
  /\ pc \in {"begin", "exec", "commit"}
  /\ Fault
  /\ GiveUp
  /\ lossy' = lossy \cup {"write"}
  /\ UNCHANGED <<stored, actual, bytes, recounted>>

Applied == [t \in Tables |-> Plus(stored[t], txn[t])]

Commit ==
  /\ pc = "commit"
  /\ stored' = Applied
  /\ txn' = NoRows
  /\ Goto("record")
  /\ UNCHANGED <<memory, kernel, history>>

(* The server applies the transaction and the connection breaks before the *)
(* answer arrives: Commit returns an error.                                *)
CommitAnswerLost ==
  /\ pc = "commit"
  /\ Fault
  /\ stored' = Applied
  /\ GiveUp
  /\ UNCHANGED <<actual, bytes, lossy, recounted>>

(* Mutant: an error status is never withdrawn. *)
RecordKeepsStatus ==
  /\ pc = "record"
  /\ health' = [health EXCEPT !.mode = "nftables_counters", !.accounting = "nftables_counters"]
  /\ totals' = Plus(totals, deltas)
  /\ deltas' = Zero
  /\ Goto("wait")
  /\ UNCHANGED <<iface, previous, todo, kernel, database, history>>

Record ==
  /\ pc = "record"
  /\ health' = [status |-> "ok", mode |-> "nftables_counters",
                accounting |-> "nftables_counters", error |-> FALSE]
  /\ totals' = Plus(totals, deltas)
  /\ deltas' = Zero
  /\ Goto("wait")
  /\ UNCHANGED <<iface, previous, todo, kernel, database, history>>

-----------------------------------------------------------------------------
(* The environment.                                                        *)

(* A packet passes the hooks while the table is installed. *)
Carry(p, n) ==
  /\ rules > 0
  /\ bytes + n <= MaxBytes
  /\ Crossed(p) # {}
  /\ bytes' = bytes + n
  /\ counter' = [a \in Accounts |-> counter[a] + (IF a \in Matched(p) THEN rules * n ELSE 0)]
  /\ actual' = [a \in Accounts |-> actual[a] + (IF a \in Crossed(p) THEN n ELSE 0)]
  /\ lossy' = IF p.v4 THEN lossy ELSE lossy \cup {"ipv6"}
  /\ UNCHANGED <<pc, memory, rules, database, recounted, faults>>

(* Somebody resets the named counters of the host. *)
ResetCounters ==
  /\ rules > 0
  /\ Fault
  /\ counter' = Zero
  /\ lossy' = lossy \cup {"reset"}
  /\ UNCHANGED <<pc, memory, rules, database, actual, bytes, recounted>>

(* Somebody flushes the ruleset of the host, a firewall reload for one. *)
FlushRuleset ==
  /\ rules > 0
  /\ Fault
  /\ rules' = 0
  /\ counter' = Zero
  /\ lossy' = lossy \cup {"reset"}
  /\ UNCHANGED <<pc, memory, database, actual, bytes, recounted>>

(* The process dies.  Its memory is gone, an open transaction is rolled    *)
(* back, one whose COMMIT was sent may have been applied, and the kernel   *)
(* table stays, because the container uses the network of the host.        *)
Crash ==
  /\ pc # "off"
  /\ Fault
  /\ \/ stored' = stored
     \/ pc = "commit" /\ stored' = Applied
  /\ txn' = NoRows
  /\ iface' = FALSE
  /\ previous' = Zero
  /\ deltas' = Zero
  /\ todo' = {}
  /\ health' = StartingHealth
  /\ totals' = Zero
  /\ lossy' = lossy \cup {"crash"}
  /\ Goto("off")
  /\ UNCHANGED <<kernel, actual, bytes, recounted>>

-----------------------------------------------------------------------------

Boot ==
  \/ DetectHost \/ DetectHostFails
  \/ ConnectDatabase \/ ConnectDatabaseFails
  \/ SetupWithoutInterface
  \/ DeleteOldTable \/ DeleteOldTableFails
  \/ LoadRuleset \/ LoadRulesetFails
  \/ FallBackToConntrack \/ ConntrackUnavailable

Tick ==
  \/ ReadCounters \/ ReadMissingTable \/ ReadCountersFails
  \/ BeginTransaction \/ ExecStatement
  \/ Commit \/ CommitAnswerLost
  \/ WriteFails
  \/ Record

Environment ==
  \/ \E p \in Packets, n \in PacketSizes : Carry(p, n)
  \/ ResetCounters \/ FlushRuleset
  \/ Crash

Next == Start \/ Boot \/ Tick \/ Environment

Spec == Init /\ [][Next]_vars

(* The goroutine keeps running and its ticker keeps firing; the container  *)
(* is restarted when the process dies ("restart: unless-stopped").         *)
Fairness == WF_vars(Start) /\ WF_vars(Boot) /\ WF_vars(Tick)

FairSpec == Spec /\ Fairness
-----------------------------------------------------------------------------
(* Properties.                                                             *)

TypeOK ==
  /\ pc \in PcValues
  /\ iface \in BOOLEAN
  /\ previous \in [Accounts -> Nat]
  /\ deltas \in [Accounts -> Nat]
  /\ todo \subseteq Statements
  /\ health \in HealthValues
  /\ totals \in [Accounts -> Nat]
  /\ rules \in Nat
  /\ counter \in [Accounts -> Nat]
  /\ txn \in [Tables -> [Accounts -> Nat]]
  /\ stored \in [Tables -> [Accounts -> Nat]]
  /\ actual \in [Accounts -> Nat]
  /\ bytes \in Nat
  /\ lossy \subseteq Losses
  /\ recounted \in BOOLEAN
  /\ faults \in Nat

(* No table ever holds more bytes for an account than crossed the          *)
(* interface, through failed writes, lost commit answers, counter resets,  *)
(* crashes and restarts: main.go:131-137 never writes a byte twice, and    *)
(* Setup starts each run from a fresh table (accounting.go:51).  The one   *)
(* exception is a run that reused a table it failed to delete.             *)
NoOvercount ==
  ~recounted => \A t \in Tables, a \in Accounts : stored[t][a] <= actual[a]

(* The four tables agree in every state: an item reaches all of them or    *)
(* none (the transaction of writer.go:41-80).                              *)
TablesAgree ==
  \A t, u \in Tables : stored[t] = stored[u]

(* As long as nothing was lost for one of the named reasons, every byte is *)
(* stored, in flight, or still ahead of the baseline: failed reads and     *)
(* delayed ticks lose nothing (main.go:126-132).                           *)
Accounted(a) ==
  \A t \in Tables :
    stored[t][a] + InFlight(a) + PositiveDelta(counter[a], previous[a]) = actual[a]

NothingLost ==
  lossy = {} /\ ~recounted => \A a \in Accounts : Accounted(a)

(* The totals on /healthz are bytes the database holds: they are counted   *)
(* after the commit, and a restart clears them (main.go:133-137, 246-251). *)
TotalsAreStored ==
  \A t \in Tables, a \in Accounts : totals[a] <= stored[t][a]

(* Whenever no goroutine is accounting for traffic, /healthz says so: when *)
(* the database was unreachable, and when nftables setup failed and the    *)
(* conntrack requirements are not met (main.go:80-82, 146-152).            *)
IdleIsReported ==
  pc \in {"halted", "stopped"} =>
    health.accounting = "unavailable" /\ health.status = "degraded"

(* Deltas that leave the collector without reaching the database never do  *)
(* so silently: the same step withdraws the accounting claim on /healthz,  *)
(* whatever the reason the write was abandoned (main.go:133-136).          *)
DroppedDeltasAreReported ==
  [][ (\E a \in Accounts : InFlight(a) > 0) /\ stored' = stored
      /\ pc' \notin {"begin", "exec", "commit"}
      => health'.accounting = "unavailable" ]_vars

(* The abstract ledger. *)
L == INSTANCE Ledger WITH
       carried <- actual,
       booked <- stored["traffic_samples"],
       trusted <- ~recounted

ImplementsLedger == L!LedgerSpec

(* Once the failures stop, a collector that is polling an existing table   *)
(* reports "ok" for good, and everything that was not lost is stored.      *)
Settled ==
  \/ pc \in {"fallback", "stopped", "halted"}
  \/ rules = 0
  \/ /\ health.status = "ok"
     /\ \A a \in Accounts : PositiveDelta(counter[a], previous[a]) = 0 /\ InFlight(a) = 0

Recovers == <>[]Settled

(* A table removed from under a polling collector is noticed at a later    *)
(* tick (main.go:126-130).                                                 *)
TableLossNoticed ==
  (pc = "wait" /\ rules = 0) ~> (health.accounting = "unavailable" \/ pc = "off")
=============================================================================
