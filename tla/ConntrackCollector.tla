------------------------- MODULE ConntrackCollector -------------------------
(***************************************************************************)
(* The collector in its fallback mode: snapshots of the kernel's           *)
(* connection tracking table are compared flow by flow.                    *)
(*                                                                         *)
(*   apps/collector/cmd/collector/main.go  runConntrackCollector           *)
(*   features/network-usage/accounting/flow.go          BuildDelta         *)
(*   features/network-usage/classifier/classifier.go    ClassifyRemoteIP   *)
(*   features/network-usage/conntrack/parser.go         ParseReader        *)
(*                                                                         *)
(* Flows appear, grow, expire and come back under the same key between two *)
(* snapshots.  The database transaction is one step here; NftCollector     *)
(* takes it apart.                                                         *)
(***************************************************************************)
EXTENDS Integers, FiniteSets

CONSTANTS
  Flows,      \* the flow keys: records with a src and a dst zone
  MaxBytes,   \* bound: bytes carried in a behaviour
  MaxFaults   \* bound: failures and crashes in a behaviour

-----------------------------------------------------------------------------
(* Addresses.  A zone is a kind of address:                                *)
(*   host      an address of the server itself, 192.168.1.10               *)
(*   lan       a peer in the subnet of an interface, 192.168.1.3           *)
(*   private   an RFC1918 address of no local subnet, 10.8.0.2             *)
(*   docker    a container on a bridge, 172.20.0.4                         *)
(*   loopback  127.0.0.1                                                   *)
(*   public    8.8.8.8                                                     *)
Zones == {"host", "lan", "private", "docker", "loopback", "public"}

ASSUME FlowsAssumption == \A f \in Flows : f.src \in Zones /\ f.dst \in Zones
ASSUME BoundsAssumption == MaxBytes \in Nat /\ MaxFaults \in Nat

TrafficClasses == {"internet", "lan", "docker_internal", "loopback"}

(* The tests in the order of the code.  Docker networks live inside        *)
(* 172.16.0.0/12, so they are tested before the LAN ranges.                *)
ClassifyRemoteIP(zone) ==
  CASE zone = "loopback" -> "loopback"
    [] zone = "docker" -> "docker_internal"
    [] zone \in {"host", "lan", "private"} -> "lan"
    [] zone = "public" -> "internet"

(* LocalMatcher.IsLocal: the host's addresses and the whole subnet of each *)
(* of its interfaces, lo and the bridges included, plus the Docker ranges. *)
(* Without a detected route only the Docker ranges are left.               *)
IsLocal(zone, detected) ==
  zone \in (IF detected THEN {"host", "lan", "docker", "loopback"} ELSE {"docker"})

(* ResolveDirection: exactly one end of the flow must be local. *)
HasDirection(f, detected) == IsLocal(f.src, detected) # IsLocal(f.dst, detected)

RemoteZone(f, detected) == IF IsLocal(f.src, detected) THEN f.dst ELSE f.src

(* The two byte counters of a conntrack entry, and what they mean to the   *)
(* local end.                                                              *)
Sides == {"original", "reply"}
Directions == {"download", "upload"}

DirectionOf(f, side, detected) ==
  IF IsLocal(f.src, detected) = (side = "original") THEN "upload" ELSE "download"

(* What can be stored: bytes of a flow, in a class, in a direction. *)
Rows == Flows \X TrafficClasses \X Directions

-----------------------------------------------------------------------------
(* The reference: the row a side of a flow belongs to, whatever the code   *)
(* does.  The remote end is the one that is further from the server.       *)
Nearness(zone) ==
  CASE zone \in {"host", "loopback"} -> 0
    [] zone = "docker" -> 1
    [] zone = "lan" -> 2
    [] zone = "private" -> 3
    [] zone = "public" -> 4

TrueRemote(f) == IF Nearness(f.src) <= Nearness(f.dst) THEN f.dst ELSE f.src

TrueRow(f, side) ==
  <<f, ClassifyRemoteIP(TrueRemote(f)),
    IF (TrueRemote(f) = f.dst) = (side = "original") THEN "upload" ELSE "download">>

-----------------------------------------------------------------------------

VARIABLES
  pc,         \* where the goroutine is
  detected,   \* the route and the interface addresses were found
  previous,   \* the counters of the last good snapshot, by flow key
  deltas,     \* the bytes to be written, by row
  accounting, \* what /healthz says of accounting
  table,      \* the kernel's table: a function on the flows it tracks
  stored,     \* committed bytes, by row
  baseline,   \* history: this process has taken a snapshot
  countable,  \* history: bytes carried after the first snapshot, by true row
  steady,     \* history: flows tracked without a break since that snapshot
  lossy,      \* history: a write failed or the process died
  bytes,      \* history: bytes carried, for the bound
  faults      \* history: failures and crashes, for the bound

memory == <<detected, previous, deltas, accounting>>
history == <<baseline, countable, steady, lossy, bytes, faults>>

vars == <<pc, memory, table, stored, history>>

Counters == [Sides -> Nat]
NoBytes == [side \in Sides |-> 0]
Nothing == [r \in Rows |-> 0]

(* A snapshot is a partial function on the flows. *)
IsSnapshot(s) == DOMAIN s \subseteq Flows /\ s \in [DOMAIN s -> Counters]

Empty == [f \in {} |-> NoBytes]

Init ==
  /\ pc = "acct"
  /\ detected \in BOOLEAN
  /\ previous = Empty
  /\ deltas = Nothing
  /\ accounting = "unavailable"
  /\ table = Empty
  /\ stored = Nothing
  /\ baseline = FALSE
  /\ countable = Nothing
  /\ steady = {}
  /\ lossy = FALSE
  /\ bytes = 0
  /\ faults = 0

Fault ==
  /\ faults < MaxFaults
  /\ faults' = faults + 1

SetError == accounting' = "unavailable"

-----------------------------------------------------------------------------
(* runConntrackCollector.                                                  *)

(* nf_conntrack_acct is 1. *)
AccountingEnabled ==
  /\ pc = "acct"
  /\ accounting' = "conntrack_snapshot"
  /\ previous' = Empty
  /\ pc' = "wait"
  /\ UNCHANGED <<detected, deltas, table, stored, history>>

(* It is 0, or unreadable: the goroutine returns. *)
AccountingDisabled ==
  /\ pc = "acct"
  /\ SetError
  /\ pc' = "stopped"
  /\ UNCHANGED <<detected, previous, deltas, table, stored, history>>

(* Mutant: the guard against a counter that went backwards is missing. *)
SignedDelta(current, before) == current - before

PositiveDelta(current, before) == IF current <= before THEN 0 ELSE current - before

(* BuildDelta for the flows of this snapshot that the last one had too. *)
BuildDeltas(current) ==
  [r \in Rows |->
    LET f == r[1] IN
    IF /\ f \in DOMAIN current \cap DOMAIN previous
       /\ HasDirection(f, detected)
       /\ r[2] = ClassifyRemoteIP(RemoteZone(f, detected))
    THEN LET side == CHOOSE s \in Sides : DirectionOf(f, s, detected) = r[3]
         IN  PositiveDelta(current[f][side], previous[f][side])
    ELSE 0]

(* sampleConntrack succeeds, and its snapshot becomes the next baseline.   *)
SampleConntrack ==
  /\ pc = "wait"
  /\ deltas' = BuildDeltas(table)
  /\ previous' = table
  /\ pc' = IF deltas' = Nothing THEN "record" ELSE "write"
  /\ baseline' = TRUE
  /\ steady' = IF baseline THEN steady ELSE DOMAIN table
  /\ UNCHANGED <<detected, accounting, table, stored, countable, lossy, bytes, faults>>

(* Mutant: what a failing snapshot did read becomes the baseline. *)
SampleFailsAsBaseline ==
  /\ pc = "wait"
  /\ Fault
  /\ SetError
  /\ previous' = table
  /\ UNCHANGED <<pc, detected, deltas, table, stored,
                 baseline, countable, steady, lossy, bytes>>

(* The file cannot be read, or one of its lines cannot be parsed. *)
SampleFails ==
  /\ pc = "wait"
  /\ Fault
  /\ SetError
  /\ UNCHANGED <<pc, detected, previous, deltas, table, stored,
                 baseline, countable, steady, lossy, bytes>>

Applied == [r \in Rows |-> stored[r] + deltas[r]]

Write ==
  /\ pc = "write"
  /\ stored' = Applied
  /\ pc' = "record"
  /\ UNCHANGED <<memory, table, history>>

(* Mutant: the write is tried again, though it may have been applied. *)
WriteFailsRetries ==
  /\ pc = "write"
  /\ Fault
  /\ SetError
  /\ \/ stored' = stored
     \/ stored' = Applied
  /\ UNCHANGED <<pc, detected, previous, deltas, table, baseline, countable, steady,
                 lossy, bytes>>

(* The transaction is rolled back, or it is committed but the answer is    *)
(* lost.  The baseline has moved in either case.                           *)
WriteFails ==
  /\ pc = "write"
  /\ Fault
  /\ SetError
  /\ \/ stored' = stored /\ lossy' = TRUE
     \/ stored' = Applied /\ lossy' = lossy
  /\ deltas' = Nothing
  /\ pc' = "wait"
  /\ UNCHANGED <<detected, previous, table, baseline, countable, steady, bytes>>

Record ==
  /\ pc = "record"
  /\ accounting' = "conntrack_snapshot"
  /\ deltas' = Nothing
  /\ pc' = "wait"
  /\ UNCHANGED <<detected, previous, table, stored, history>>

-----------------------------------------------------------------------------
(* The kernel, and the process as a whole.                                 *)

(* A flow is tracked from now on, perhaps one that had expired before. *)
Track(f) ==
  /\ f \notin DOMAIN table
  /\ table' = [g \in DOMAIN table \cup {f} |-> IF g = f THEN NoBytes ELSE table[g]]
  /\ UNCHANGED <<pc, memory, stored, history>>

Expire(f) ==
  /\ f \in DOMAIN table
  /\ table' = [g \in DOMAIN table \ {f} |-> table[g]]
  /\ steady' = steady \ {f}
  /\ UNCHANGED <<pc, memory, stored, baseline, countable, lossy, bytes, faults>>

Carry(f, side) ==
  /\ f \in DOMAIN table
  /\ bytes < MaxBytes
  /\ bytes' = bytes + 1
  /\ table' = [table EXCEPT ![f][side] = @ + 1]
  /\ countable' = IF baseline THEN [countable EXCEPT ![TrueRow(f, side)] = @ + 1]
                  ELSE countable
  /\ UNCHANGED <<pc, memory, stored, baseline, steady, lossy, faults>>

(* The process dies and is started again; main detects the route anew. *)
Restart ==
  /\ Fault
  /\ \/ stored' = stored
     \/ pc = "write" /\ stored' = Applied
  /\ pc' = "acct"
  /\ detected' \in BOOLEAN
  /\ previous' = Empty
  /\ deltas' = Nothing
  /\ accounting' = "unavailable"
  /\ baseline' = FALSE
  /\ steady' = {}
  /\ lossy' = TRUE
  /\ UNCHANGED <<table, countable, bytes>>

-----------------------------------------------------------------------------

Step ==
  \/ AccountingEnabled \/ AccountingDisabled
  \/ SampleConntrack \/ SampleFails
  \/ Write \/ WriteFails
  \/ Record

Environment ==
  \/ \E f \in Flows : Track(f) \/ Expire(f) \/ \E side \in Sides : Carry(f, side)
  \/ Restart

Next == Step \/ Environment

Spec == Init /\ [][Next]_vars
-----------------------------------------------------------------------------
(* Properties.                                                             *)

TypeOK ==
  /\ pc \in {"acct", "wait", "write", "record", "stopped"}
  /\ detected \in BOOLEAN
  /\ IsSnapshot(previous)
  /\ deltas \in [Rows -> Nat]
  /\ accounting \in {"unavailable", "conntrack_snapshot"}
  /\ IsSnapshot(table)
  /\ stored \in [Rows -> Nat]
  /\ baseline \in BOOLEAN
  /\ countable \in [Rows -> Nat]
  /\ steady \subseteq Flows
  /\ lossy \in BOOLEAN
  /\ bytes \in Nat
  /\ faults \in Nat

(* Flows whose two ends are clearly on one side or the other.  Between the *)
(* server and its own containers either end could be called the remote one.*)
Unambiguous(f) == {f.src, f.dst} \notin {{"host", "docker"}, {"loopback", "docker"}}

(* A flow that is tracked without a break since the first snapshot loses   *)
(* nothing: stored, being written or ahead of its baseline is all it       *)
(* carried since, across failed snapshots (main.go:169-174).               *)
InFlight(r) == IF pc = "write" THEN deltas[r] ELSE 0

Complete(f) ==
  \A side \in Sides :
    LET r == TrueRow(f, side)
    IN  stored[r] + InFlight(r) + (table[f][side] - previous[f][side]) = countable[r]

SteadyFlowsAreComplete ==
  detected /\ ~lossy => \A f \in steady : HasDirection(f, detected) => Complete(f)

(* The abstract ledger, row by row: only bytes carried after a process     *)
(* took its first snapshot are ever stored, each of them at most once,     *)
(* under the class of the flow's true remote end and in the true direction *)
(* (main.go:197-210, flow.go:65-131), though flows expire and come back    *)
(* under their old key, snapshots fail, the process restarts, and the      *)
(* route is not detected.                                                  *)
ClearRows == {r \in Rows : Unambiguous(r[1])}

L == INSTANCE Ledger WITH
       Accounts <- ClearRows,
       carried <- [r \in ClearRows |-> countable[r]],
       booked <- [r \in ClearRows |-> stored[r]],
       trusted <- TRUE

ImplementsLedger == L!LedgerSpec
=============================================================================
