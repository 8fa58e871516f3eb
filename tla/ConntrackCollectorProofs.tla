----------------------- MODULE ConntrackCollectorProofs -----------------------
(***************************************************************************)
(* Theorems about ConntrackCollector, for every set of flows and every     *)
(* number of bytes and faults.                                             *)
(***************************************************************************)
EXTENDS ConntrackCollector, TLAPS

-----------------------------------------------------------------------------
(* Flows, rows and what a snapshot makes of them.                          *)

(* The row that the code books a side of a flow under; d stands for        *)
(* detected, before a step or after it.                                    *)
CodeRow(f, side, d) ==
  <<f, ClassifyRemoteIP(RemoteZone(f, d)), DirectionOf(f, side, d)>>

(* The direction of a side, the case that the source is local first.       *)
LEMMA DirectionCases ==
  ASSUME NEW f, NEW side \in Sides, NEW d
  PROVE  DirectionOf(f, side, d) =
           IF IsLocal(f.src, d) THEN (IF side = "original" THEN "upload" ELSE "download")
           ELSE (IF side = "original" THEN "download" ELSE "upload")
<1>1. CASE IsLocal(f.src, d)
  <2>1. IsLocal(f.src, d) = TRUE
    BY <1>1 DEF IsLocal
  <2> QED BY <1>1, <2>1 DEF DirectionOf
<1>2. CASE ~IsLocal(f.src, d)
  <2>1. IsLocal(f.src, d) = FALSE
    BY <1>2 DEF IsLocal
  <2> QED BY <1>2, <2>1 DEF DirectionOf
<1> QED BY <1>1, <1>2

(* Rows of flows are rows of the tables, and those of the two sides differ *)
(* in their direction.                                                     *)
LEMMA RowTypes ==
  ASSUME NEW f \in Flows, NEW side \in Sides, NEW d
  PROVE  /\ CodeRow(f, side, d) \in Rows /\ TrueRow(f, side) \in Rows
         /\ \A other \in Sides : other # side =>
              /\ CodeRow(f, other, d) # CodeRow(f, side, d)
              /\ TrueRow(f, other) # TrueRow(f, side)
<1>1. f.src \in Zones /\ f.dst \in Zones
  BY FlowsAssumption
<1>2. RemoteZone(f, d) \in Zones /\ TrueRemote(f) \in Zones
  BY <1>1 DEF RemoteZone, TrueRemote
<1>3. \A z \in Zones : ClassifyRemoteIP(z) \in TrafficClasses
  BY DEF Zones, ClassifyRemoteIP, TrafficClasses
<1>4. DirectionOf(f, side, d) \in Directions
  BY DirectionCases DEF Directions
<1>5. \A other \in Sides : other # side =>
        DirectionOf(f, other, d) # DirectionOf(f, side, d)
  BY DirectionCases DEF Sides
<1>6. CodeRow(f, side, d) \in Rows
  BY <1>2, <1>3, <1>4 DEF CodeRow, Rows
<1>7. TrueRow(f, side) \in Rows
  BY <1>2, <1>3 DEF TrueRow, Rows, Directions
<1>8. \A other \in Sides : other # side => TrueRow(f, other) # TrueRow(f, side)
  BY DEF TrueRow, Sides
<1> QED BY <1>5, <1>6, <1>7, <1>8 DEF CodeRow

(* Where a flow has a direction and its ends are on clear sides, the code  *)
(* finds its true row (flow.go:65-131, classifier.go).                     *)
LEMMA TheCodeFindsTheRow ==
  ASSUME NEW f \in Flows, NEW side \in Sides, NEW d \in BOOLEAN,
         HasDirection(f, d), Unambiguous(f)
  PROVE  CodeRow(f, side, d) = TrueRow(f, side)
<1>1. f.src \in Zones /\ f.dst \in Zones
  BY FlowsAssumption
<1>2. ClassifyRemoteIP(RemoteZone(f, d)) = ClassifyRemoteIP(TrueRemote(f))
      /\ (IsLocal(f.src, d) <=> TrueRemote(f) = f.dst)
  BY <1>1 DEF HasDirection, Unambiguous, IsLocal, RemoteZone, TrueRemote, Nearness, Zones,
              ClassifyRemoteIP
<1>3. TrueRow(f, side) = <<f, ClassifyRemoteIP(TrueRemote(f)), DirectionOf(f, side, d)>>
  <2>1. CASE IsLocal(f.src, d)
    BY <1>2, <2>1, DirectionCases DEF TrueRow
  <2>2. CASE ~IsLocal(f.src, d)
    BY <1>2, <2>2, DirectionCases DEF TrueRow
  <2> QED BY <2>1, <2>2
<1> QED BY <1>2, <1>3 DEF CodeRow

(* With a known route a flow that has a direction is on clear sides.       *)
LEMMA DirectedFlowsAreClear ==
  ASSUME NEW f \in Flows, HasDirection(f, TRUE)
  PROVE  Unambiguous(f)
<1>1. f.src \in Zones /\ f.dst \in Zones
  BY FlowsAssumption
<1> QED BY <1>1 DEF HasDirection, Unambiguous, IsLocal, Zones

(* BuildDeltas as a function of both snapshots. *)
Growth(current, before, d) ==
  [r \in Rows |->
    LET f == r[1] IN
    IF /\ f \in DOMAIN current \cap DOMAIN before
       /\ HasDirection(f, d)
       /\ r[2] = ClassifyRemoteIP(RemoteZone(f, d))
    THEN LET side == CHOOSE s \in Sides : DirectionOf(f, s, d) = r[3]
         IN  PositiveDelta(current[f][side], before[f][side])
    ELSE 0]

(* A difference of counters is a natural number, as in the code.           *)
LEMMA PositiveDeltaType ==
  ASSUME NEW m \in Nat, NEW n \in Nat
  PROVE  /\ PositiveDelta(m, n) \in Nat
         /\ n <= m => PositiveDelta(m, n) = m - n
         /\ m <= n => PositiveDelta(m, n) = 0
BY DEF PositiveDelta

(* A row that grew is the row of a side of a flow in both snapshots, and   *)
(* that row grew by what the side did.                                     *)
LEMMA GrowthOfRows ==
  ASSUME NEW current, IsSnapshot(current), NEW before, IsSnapshot(before), NEW d \in BOOLEAN
  PROVE  /\ Growth(current, before, d) \in [Rows -> Nat]
         /\ \A f \in DOMAIN current \cap DOMAIN before, side \in Sides :
              HasDirection(f, d) =>
                Growth(current, before, d)[CodeRow(f, side, d)]
                  = PositiveDelta(current[f][side], before[f][side])
         /\ \A r \in Rows : Growth(current, before, d)[r] # 0 =>
              \E f \in DOMAIN current \cap DOMAIN before, side \in Sides :
                HasDirection(f, d) /\ r = CodeRow(f, side, d)
<1> DEFINE both == DOMAIN current \cap DOMAIN before
           Side(f, dir) == CHOOSE s \in Sides : DirectionOf(f, s, d) = dir
<1>1. both \subseteq Flows
      /\ \A f \in both, side \in Sides : PositiveDelta(current[f][side], before[f][side]) \in Nat
  BY PositiveDeltaType DEF IsSnapshot, Counters
<1>2. \A f \in both, dir \in Directions :
        Side(f, dir) \in Sides /\ DirectionOf(f, Side(f, dir), d) = dir
  <2> TAKE f \in both, dir \in Directions
  <2>1. \E s \in Sides : DirectionOf(f, s, d) = dir
    BY DirectionCases DEF Sides, Directions
  <2> QED BY <2>1
<1>3. \A f \in both, side \in Sides :
        CodeRow(f, side, d) \in Rows /\ Side(f, DirectionOf(f, side, d)) = side
  <2> TAKE f \in both, side \in Sides
  <2>1. CodeRow(f, side, d) \in Rows
    BY <1>1, RowTypes
  <2>2. DirectionOf(f, side, d) \in Directions
    BY DirectionCases DEF Directions
  <2>3. \A other \in Sides : other # side => DirectionOf(f, other, d) # DirectionOf(f, side, d)
    BY DirectionCases DEF Sides
  <2> QED BY <1>2, <2>1, <2>2, <2>3
<1>4. \A r \in Rows : r = <<r[1], r[2], r[3]>> /\ r[3] \in Directions
  BY DEF Rows
<1>5. \A r \in Rows :
        Growth(current, before, d)[r] =
          IF r[1] \in both /\ HasDirection(r[1], d) /\ r[2] = ClassifyRemoteIP(RemoteZone(r[1], d))
          THEN PositiveDelta(current[r[1]][Side(r[1], r[3])], before[r[1]][Side(r[1], r[3])])
          ELSE 0
  BY DEF Growth
<1> HIDE DEF both, Side
<1>6. Growth(current, before, d) \in [Rows -> Nat]
  <2>1. \A r \in Rows : Growth(current, before, d)[r] \in Nat
    BY <1>1, <1>2, <1>4, <1>5
  <2> QED BY <2>1 DEF Growth
<1>7. \A f \in both, side \in Sides : HasDirection(f, d) =>
        Growth(current, before, d)[CodeRow(f, side, d)]
          = PositiveDelta(current[f][side], before[f][side])
  BY <1>3, <1>5 DEF CodeRow
<1>8. \A r \in Rows : Growth(current, before, d)[r] # 0 =>
        \E f \in both, side \in Sides : HasDirection(f, d) /\ r = CodeRow(f, side, d)
  BY <1>2, <1>4, <1>5 DEF CodeRow
<1> QED BY <1>6, <1>7, <1>8 DEF both

(* What sampleConntrack computes, in the present state.                    *)
LEMMA BuildDeltasIsGrowth ==
  \A current : BuildDeltas(current) = Growth(current, previous, detected)
BY DEF BuildDeltas, Growth

-----------------------------------------------------------------------------
(* Types.                                                                  *)

(* The empty snapshot and the empty deltas have their types.               *)
LEMMA NothingTypes == IsSnapshot(Empty) /\ DOMAIN Empty = {} /\ Nothing \in [Rows -> Nat]
BY DEF IsSnapshot, Empty, Nothing

(* What the kernel does to its table leaves a snapshot.                    *)
LEMMA TableTypes ==
  ASSUME IsSnapshot(table)
  PROVE  /\ \A f \in Flows : Track(f) \/ Expire(f) => IsSnapshot(table')
         /\ \A f \in Flows, side \in Sides : Carry(f, side) => IsSnapshot(table')
<1>1. ASSUME NEW f \in Flows, Track(f) PROVE IsSnapshot(table')
  BY <1>1 DEF Track, IsSnapshot, Counters, NoBytes
<1>2. ASSUME NEW f \in Flows, Expire(f) PROVE IsSnapshot(table')
  BY <1>2 DEF Expire, IsSnapshot
<1>3. ASSUME NEW f \in Flows, NEW side \in Sides, Carry(f, side) PROVE IsSnapshot(table')
  <2>1. table[f] \in Counters /\ [table[f] EXCEPT ![side] = @ + 1] \in Counters
    BY <1>3 DEF Carry, IsSnapshot, Counters
  <2>2. table' = [table EXCEPT ![f] = [table[f] EXCEPT ![side] = @ + 1]]
    BY <1>3 DEF Carry
  <2> QED BY <2>1, <2>2 DEF IsSnapshot
<1> QED BY <1>1, <1>2, <1>3

(* Every variable keeps its type, the partial functions of the snapshots   *)
(* included.                                                               *)
LEMMA TypeInductive == (Init => TypeOK) /\ (TypeOK /\ [Next]_vars => TypeOK')
<1>1. ASSUME Init PROVE TypeOK
  <2>1. detected \in BOOLEAN /\ baseline \in BOOLEAN /\ lossy \in BOOLEAN
    BY <1>1 DEF Init
  <2>2. IsSnapshot(previous) /\ IsSnapshot(table)
    BY <1>1, NothingTypes DEF Init
  <2>3. deltas \in [Rows -> Nat] /\ stored \in [Rows -> Nat] /\ countable \in [Rows -> Nat]
    BY <1>1, NothingTypes DEF Init
  <2> QED BY <1>1, <2>1, <2>2, <2>3 DEF Init, TypeOK
<1>2. ASSUME TypeOK, [Next]_vars PROVE TypeOK'
  <2> USE DEF memory, history, Fault, SetError
  <2>1. CASE AccountingEnabled
    BY <1>2, <2>1, NothingTypes DEF AccountingEnabled, TypeOK
  <2>2. CASE AccountingDisabled
    BY <1>2, <2>2 DEF AccountingDisabled, TypeOK
  <2>3. CASE SampleConntrack
    <3>1. BuildDeltas(table) \in [Rows -> Nat]
      BY <1>2, BuildDeltasIsGrowth, GrowthOfRows DEF TypeOK
    <3>2. DOMAIN table \subseteq Flows
      BY <1>2 DEF TypeOK, IsSnapshot
    <3> QED BY <1>2, <2>3, <3>1, <3>2 DEF SampleConntrack, TypeOK
  <2>4. CASE SampleFails
    BY <1>2, <2>4 DEF SampleFails, TypeOK
  <2>5. Applied \in [Rows -> Nat]
    BY <1>2 DEF Applied, TypeOK
  <2>6. CASE Write
    BY <1>2, <2>5, <2>6 DEF Write, TypeOK
  <2>7. CASE WriteFails
    <3>1. stored' \in [Rows -> Nat]
      BY <1>2, <2>5, <2>7 DEF WriteFails, TypeOK
    <3>2. lossy' \in BOOLEAN
      BY <1>2, <2>7 DEF WriteFails, TypeOK
    <3>3. UNCHANGED <<detected, previous, table, baseline, countable, steady, bytes>>
      BY <2>7 DEF WriteFails
    <3>4. pc' = "wait" /\ deltas' = Nothing /\ accounting' = "unavailable" /\ faults' = faults + 1
      BY <2>7 DEF WriteFails
    <3> QED BY <1>2, <3>1, <3>2, <3>3, <3>4, NothingTypes DEF TypeOK
  <2>8. CASE Record
    BY <1>2, <2>8, NothingTypes DEF Record, TypeOK
  <2>9. ASSUME NEW f \in Flows, Track(f) \/ Expire(f) PROVE TypeOK'
    <3>1. IsSnapshot(table')
      BY <1>2, <2>9, TableTypes DEF TypeOK
    <3> QED BY <1>2, <2>9, <3>1 DEF Track, Expire, TypeOK
  <2>10. ASSUME NEW f \in Flows, NEW side \in Sides, Carry(f, side) PROVE TypeOK'
    <3>1. IsSnapshot(table')
      BY <1>2, <2>10, TableTypes DEF TypeOK
    <3>2. countable' \in [Rows -> Nat]
      BY <1>2, <2>10, RowTypes DEF Carry, TypeOK
    <3> QED BY <1>2, <2>10, <3>1, <3>2 DEF Carry, TypeOK
  <2>11. CASE Restart
    <3>1. stored' \in [Rows -> Nat]
      BY <1>2, <2>5, <2>11 DEF Restart, TypeOK
    <3>2. detected' \in BOOLEAN /\ UNCHANGED <<table, countable, bytes>>
      BY <2>11 DEF Restart
    <3>3. /\ pc' = "acct" /\ previous' = Empty /\ deltas' = Nothing /\ accounting' = "unavailable"
          /\ baseline' = FALSE /\ steady' = {} /\ lossy' = TRUE /\ faults' = faults + 1
      BY <2>11 DEF Restart
    <3>4. baseline' \in BOOLEAN /\ lossy' \in BOOLEAN
      BY <3>3
    <3>5. IsSnapshot(previous') /\ IsSnapshot(table') /\ deltas' \in [Rows -> Nat]
      BY <1>2, <3>2, <3>3, NothingTypes DEF TypeOK
    <3> QED BY <1>2, <3>1, <3>2, <3>3, <3>4, <3>5 DEF TypeOK
  <2>12. CASE UNCHANGED vars
    BY <1>2, <2>12 DEF vars, TypeOK
  <2> QED
    BY <1>2, <2>1, <2>2, <2>3, <2>4, <2>6, <2>7, <2>8, <2>9, <2>10, <2>11, <2>12
       DEF Next, Step, Environment
<1> QED BY <1>1, <1>2

(* Every variable of the fallback mode keeps its type: snapshots are       *)
(* counters of flows, and no sum leaves the natural numbers                *)
(* (main.go:161-213).                                                      *)
THEOREM ConntrackTypes == Spec => []TypeOK
BY TypeInductive, PTL DEF Spec

-----------------------------------------------------------------------------
(* No byte is booked twice.                                                *)

Ahead == Growth(table, previous, detected)

(* What is stored, in flight and still ahead of the baseline are disjoint  *)
(* parts of what could be counted; a process that has not taken a snapshot *)
(* has no baseline and writes nothing.                                     *)
Covered ==
  /\ \A r \in ClearRows : stored[r] + InFlight(r) + Ahead[r] <= countable[r]
  /\ pc = "acct" => ~baseline
  /\ ~baseline => DOMAIN previous = {} /\ steady = {} /\ pc \notin {"write", "record"}

(* A side of a flow of both snapshots is ahead by what it grew.            *)
LEMMA AheadOfSides ==
  ASSUME TypeOK, NEW f \in DOMAIN table \cap DOMAIN previous, NEW side \in Sides,
         HasDirection(f, detected)
  PROVE  Ahead[CodeRow(f, side, detected)] = PositiveDelta(table[f][side], previous[f][side])
<1>1. IsSnapshot(table) /\ IsSnapshot(previous) /\ detected \in BOOLEAN
  BY DEF TypeOK
<1> QED BY <1>1, GrowthOfRows DEF Ahead

(* Only a byte carried brings a row further ahead, its own and by one.     *)
LEMMA AheadGrows ==
  ASSUME TypeOK, NEW f \in Flows, NEW side \in Sides, Carry(f, side),
         NEW r \in ClearRows
  PROVE  Ahead'[r] <= Ahead[r] + (IF r = TrueRow(f, side) THEN 1 ELSE 0)
<1>1. /\ IsSnapshot(table) /\ IsSnapshot(previous) /\ IsSnapshot(table') /\ detected \in BOOLEAN
      /\ previous' = previous /\ detected' = detected
  BY TableTypes DEF TypeOK, Carry, memory
<1>2. r \in Rows /\ Unambiguous(r[1])
  BY DEF ClearRows
<1>3. Ahead[r] \in Nat /\ Ahead'[r] \in Nat
  BY <1>1, <1>2, GrowthOfRows DEF Ahead
<1>4. CASE Ahead'[r] = 0
  BY <1>3, <1>4
<1>5. CASE Ahead'[r] # 0
  <2>1. PICK g \in DOMAIN table' \cap DOMAIN previous, s \in Sides :
          HasDirection(g, detected) /\ r = CodeRow(g, s, detected)
    BY <1>1, <1>2, <1>5, GrowthOfRows DEF Ahead
  <2>2. DOMAIN table' = DOMAIN table /\ g \in Flows
    BY <1>1, <2>1 DEF Carry, IsSnapshot
  <2>3. /\ Ahead'[r] = PositiveDelta(table'[g][s], previous[g][s])
        /\ Ahead[r] = PositiveDelta(table[g][s], previous[g][s])
    BY <1>1, <2>1, <2>2, GrowthOfRows DEF Ahead
  <2>4. table[g][s] \in Nat /\ previous[g][s] \in Nat
    BY <1>1, <2>1, <2>2 DEF IsSnapshot, Counters
  <2>5. CASE g = f /\ s = side
    <3>1. table'[g][s] = table[g][s] + 1
      BY <1>1, <2>1, <2>2, <2>5 DEF Carry, IsSnapshot, Counters
    <3>2. g = r[1]
      BY <2>1 DEF CodeRow
    <3>3. r = TrueRow(f, side)
      BY <1>1, <1>2, <2>1, <2>2, <2>5, <3>2, TheCodeFindsTheRow
    <3>4. PositiveDelta(table[g][s] + 1, previous[g][s]) <= PositiveDelta(table[g][s], previous[g][s]) + 1
      BY <2>4 DEF PositiveDelta
    <3> QED BY <2>3, <3>1, <3>3, <3>4
  <2>6. CASE ~(g = f /\ s = side)
    <3>1. table'[g][s] = table[g][s]
      BY <1>1, <2>1, <2>2, <2>6 DEF Carry, IsSnapshot, Counters
    <3> QED BY <1>3, <2>3, <3>1
  <2> QED BY <2>5, <2>6
<1> QED BY <1>4, <1>5

(* A flow that begins or ends brings no row further ahead: it starts from  *)
(* zero, which is no more than any counter was.                            *)
LEMMA AheadShrinks ==
  ASSUME TypeOK, NEW f \in Flows, Track(f) \/ Expire(f), NEW r \in Rows
  PROVE  Ahead'[r] <= Ahead[r]
<1>1. /\ IsSnapshot(table) /\ IsSnapshot(previous) /\ IsSnapshot(table') /\ detected \in BOOLEAN
      /\ previous' = previous /\ detected' = detected
  BY TableTypes DEF TypeOK, Track, Expire, memory
<1>2. Ahead[r] \in Nat /\ Ahead'[r] \in Nat
  BY <1>1, GrowthOfRows DEF Ahead
<1>3. CASE Ahead'[r] # 0
  <2>1. PICK g \in DOMAIN table' \cap DOMAIN previous, s \in Sides :
          HasDirection(g, detected) /\ r = CodeRow(g, s, detected)
    BY <1>1, <1>3, GrowthOfRows DEF Ahead
  <2>2. Ahead'[r] = PositiveDelta(table'[g][s], previous[g][s]) /\ previous[g][s] \in Nat
    BY <1>1, <2>1, GrowthOfRows DEF Ahead, IsSnapshot, Counters
  <2>3. CASE g \in DOMAIN table
    <3>1. table'[g] = table[g]
      BY <2>1, <2>3 DEF Track, Expire
    <3>2. Ahead[r] = PositiveDelta(table[g][s], previous[g][s])
      BY <1>1, <2>1, <2>3, GrowthOfRows DEF Ahead
    <3> QED BY <1>2, <2>2, <3>1, <3>2
  <2>4. CASE g \notin DOMAIN table
    <3>1. table'[g][s] = 0
      BY <2>1, <2>4 DEF Track, Expire, NoBytes
    <3> QED BY <1>3, <2>2, <3>1, PositiveDeltaType
  <2> QED BY <2>3, <2>4
<1> QED BY <1>2, <1>3

(* Without a baseline, and right after a snapshot, nothing is ahead.       *)
LEMMA NothingAhead ==
  ASSUME NEW current, IsSnapshot(current), NEW before, IsSnapshot(before), NEW d \in BOOLEAN,
         DOMAIN before = {} \/ before = current, NEW r \in Rows
  PROVE  Growth(current, before, d)[r] = 0
<1>1. CASE Growth(current, before, d)[r] # 0
  <2>1. PICK f \in DOMAIN current \cap DOMAIN before, side \in Sides :
          HasDirection(f, d) /\ r = CodeRow(f, side, d)
    BY <1>1, GrowthOfRows
  <2>2. before = current /\ current[f][side] \in Nat
    BY <2>1 DEF IsSnapshot, Counters
  <2> QED BY <2>1, <2>2, GrowthOfRows, PositiveDeltaType
<1> QED BY <1>1

(* The parts of the rows are natural numbers.                              *)
LEMMA PartTypes ==
  ASSUME TypeOK, NEW r \in Rows
  PROVE  /\ stored[r] \in Nat /\ deltas[r] \in Nat /\ countable[r] \in Nat
         /\ InFlight(r) \in Nat /\ Ahead[r] \in Nat
BY GrowthOfRows DEF TypeOK, InFlight, Ahead

(* Covered holds at the start and is kept by every step.                   *)
LEMMA CoveredInductive ==
  (Init => Covered) /\ (TypeOK /\ Covered /\ [Next]_vars => Covered')
<1>1. ASSUME Init PROVE Covered
  <2>1. \A r \in Rows : Ahead[r] = 0
    BY <1>1, NothingTypes, NothingAhead DEF Init, Ahead
  <2>2. DOMAIN previous = {}
    BY <1>1, NothingTypes DEF Init
  <2> QED BY <1>1, <2>1, <2>2 DEF Init, Covered, ClearRows, InFlight, Nothing
<1>2. ASSUME TypeOK, Covered, [Next]_vars PROVE Covered'
  <2> USE DEF memory, history
  <2>1. TypeOK'
    BY <1>2, TypeInductive
  <2>2. \A r \in ClearRows : /\ r \in Rows
                             /\ stored[r] \in Nat /\ deltas[r] \in Nat /\ countable[r] \in Nat
                             /\ InFlight(r) \in Nat /\ Ahead[r] \in Nat
    BY <1>2, PartTypes DEF ClearRows
  <2>3. DOMAIN previous' = {} \/ previous' = table' => \A r \in ClearRows : Ahead'[r] = 0
    BY <2>1, <2>2, NothingAhead DEF Ahead, TypeOK
  <2>4. CASE AccountingEnabled
    BY <1>2, <2>2, <2>3, <2>4, NothingTypes DEF AccountingEnabled, Covered, InFlight
  <2>5. ASSUME UNCHANGED <<table, previous, detected>>
        PROVE  Ahead' = Ahead
    BY <2>5 DEF Ahead
  <2>6. CASE AccountingDisabled
    BY <1>2, <2>2, <2>5, <2>6 DEF AccountingDisabled, Covered, InFlight
  <2>7. CASE SampleConntrack
    <3>1. \A r \in ClearRows : deltas'[r] = Ahead[r]
      BY <2>7, BuildDeltasIsGrowth DEF SampleConntrack, Ahead
    <3>2. \A r \in ClearRows : Ahead'[r] = 0
      BY <2>3, <2>7 DEF SampleConntrack
    <3>3. \A r \in ClearRows : InFlight(r)' <= Ahead[r] /\ InFlight(r)' \in Nat
      BY <2>2, <3>1 DEF InFlight
    <3>4. baseline' /\ UNCHANGED <<stored, countable>> /\ pc' # "acct"
      BY <2>7 DEF SampleConntrack
    <3> QED BY <1>2, <2>2, <3>2, <3>3, <3>4 DEF Covered
  <2>8. CASE SampleFails
    BY <1>2, <2>2, <2>5, <2>8 DEF SampleFails, Covered, InFlight
  <2>9. CASE Write
    <3>1. \A r \in ClearRows : stored'[r] = stored[r] + InFlight(r) /\ InFlight(r)' = 0
      BY <2>2, <2>9 DEF Write, Applied, InFlight
    <3> QED BY <1>2, <2>2, <2>5, <2>9, <3>1 DEF Write, Covered
  <2>10. CASE WriteFails
    <3>1. \A r \in ClearRows : /\ stored'[r] \in Nat /\ stored'[r] <= stored[r] + InFlight(r)
                               /\ InFlight(r)' = 0
      BY <2>2, <2>10 DEF WriteFails, Applied, InFlight
    <3> QED BY <1>2, <2>2, <2>5, <2>10, <3>1 DEF WriteFails, Covered
  <2>11. CASE Record
    BY <1>2, <2>2, <2>5, <2>11 DEF Record, Covered, InFlight
  <2>12. ASSUME NEW f \in Flows, Track(f) \/ Expire(f) PROVE Covered'
    <3>1. /\ UNCHANGED <<stored, countable, pc, deltas, previous, baseline>>
          /\ (steady = {} => steady' = {})
      BY <2>12 DEF Track, Expire
    <3>2. \A r \in ClearRows : Ahead'[r] <= Ahead[r] /\ Ahead'[r] \in Nat /\ InFlight(r)' = InFlight(r)
      BY <1>2, <2>1, <2>2, <2>12, <3>1, AheadShrinks, GrowthOfRows DEF InFlight, TypeOK, Ahead
    <3> QED BY <1>2, <2>2, <3>1, <3>2 DEF Covered
  <2>13. ASSUME NEW f \in Flows, NEW side \in Sides, Carry(f, side) PROVE Covered'
    <3>1. UNCHANGED <<stored, pc, deltas, previous, baseline, steady>>
      BY <2>13 DEF Carry
    <3>2. \A r \in ClearRows : Ahead'[r] \in Nat /\ InFlight(r)' = InFlight(r)
      BY <2>1, <2>2, <3>1, GrowthOfRows DEF InFlight, TypeOK, Ahead
    <3>3. CASE baseline
      <4>1. \A r \in ClearRows :
              countable'[r] = countable[r] + (IF r = TrueRow(f, side) THEN 1 ELSE 0)
        BY <1>2, <2>2, <2>13, <3>3 DEF Carry, TypeOK
      <4>2. \A r \in ClearRows :
              Ahead'[r] <= Ahead[r] + (IF r = TrueRow(f, side) THEN 1 ELSE 0)
        BY <1>2, <2>13, AheadGrows
      <4> QED BY <1>2, <2>2, <3>1, <3>2, <3>3, <4>1, <4>2 DEF Covered
    <3>4. CASE ~baseline
      <4>1. countable' = countable /\ \A r \in ClearRows : Ahead'[r] = 0
        BY <1>2, <2>3, <2>13, <3>1, <3>4 DEF Carry, Covered
      <4> QED BY <1>2, <2>2, <3>1, <3>2, <3>4, <4>1 DEF Covered
    <3> QED BY <3>3, <3>4
  <2>14. CASE Restart
    <3>1. \A r \in ClearRows : /\ stored'[r] \in Nat /\ stored'[r] <= stored[r] + InFlight(r)
                               /\ InFlight(r)' = 0
      BY <2>2, <2>14 DEF Restart, Applied, InFlight
    <3>2. /\ DOMAIN previous' = {} /\ steady' = {} /\ ~baseline' /\ pc' = "acct"
          /\ countable' = countable
      BY <2>14, NothingTypes DEF Restart
    <3> QED BY <1>2, <2>2, <2>3, <3>1, <3>2 DEF Covered
  <2>15. CASE UNCHANGED vars
    BY <1>2, <2>2, <2>5, <2>15 DEF vars, Covered, InFlight
  <2> QED
    BY <1>2, <2>4, <2>6, <2>7, <2>8, <2>9, <2>10, <2>11, <2>12, <2>13, <2>14, <2>15
       DEF Next, Step, Environment
<1> QED BY <1>1, <1>2

(* The fallback mode implements the ledger, row by row: bytes are booked   *)
(* under the row they were carried for, never more than were carried since *)
(* the first snapshot, and none is taken back (main.go:197-210,            *)
(* flow.go:65-131).                                                        *)
THEOREM ConntrackRefinesLedger == Spec => ImplementsLedger
<1>1. Init => L!LedgerInit
  BY DEF Init, L!LedgerInit, ClearRows, Nothing
<1>2. ASSUME TypeOK, Covered, [Next]_vars
      PROVE  [L!LedgerNext]_(L!ledgerVars)
  <2> USE DEF memory, history
  <2>1. \A r \in ClearRows : /\ stored[r] \in Nat /\ deltas[r] \in Nat /\ countable[r] \in Nat
                             /\ InFlight(r) \in Nat /\ Ahead[r] \in Nat
    BY <1>2, PartTypes DEF ClearRows
  <2>2. CASE UNCHANGED <<countable, stored>>
    BY <2>2 DEF L!ledgerVars
  <2>3. ASSUME countable' = countable, pc = "write", stored' = Applied
        PROVE  L!Book
    <3>1. \A r \in ClearRows : stored'[r] = stored[r] + InFlight(r)
      BY <2>3 DEF Applied, InFlight, ClearRows
    <3>2. \A r \in ClearRows : stored'[r] >= stored[r] /\ stored'[r] <= countable[r]
      BY <1>2, <2>1, <3>1 DEF Covered
    <3> QED BY <2>3, <3>2 DEF L!Book
  <2>4. ASSUME NEW f \in Flows, NEW side \in Sides, Carry(f, side)
        PROVE  L!Carry
    <3>1. stored' = stored /\ \A r \in ClearRows : countable'[r] >= countable[r]
      BY <1>2, <2>1, <2>4 DEF Carry, TypeOK, ClearRows
    <3> QED BY <3>1 DEF L!Carry
  <2>5. Write \/ WriteFails \/ Restart =>
          countable' = countable /\ (stored' = stored \/ (pc = "write" /\ stored' = Applied))
    BY DEF Write, WriteFails, Restart
  <2>6. AccountingEnabled \/ AccountingDisabled \/ SampleConntrack \/ SampleFails \/ Record
        \/ (\E f \in Flows : Track(f) \/ Expire(f)) \/ UNCHANGED vars
          => UNCHANGED <<countable, stored>>
    BY DEF AccountingEnabled, AccountingDisabled, SampleConntrack, SampleFails, Record, Track,
           Expire, vars
  <2> QED BY <1>2, <2>2, <2>3, <2>4, <2>5, <2>6 DEF Next, Step, Environment, L!LedgerNext
<1> QED BY <1>1, <1>2, TypeInductive, CoveredInductive, PTL
        DEF Spec, ImplementsLedger, L!LedgerSpec

-----------------------------------------------------------------------------
(* No byte of a steady flow is missing.                                    *)

(* A steady flow is in both snapshots, and its counters have not gone      *)
(* back.  Before the first snapshot of a first process there is nothing.   *)
Steady ==
  /\ \A f \in steady : /\ f \in DOMAIN table \cap DOMAIN previous
                       /\ \A side \in Sides : previous[f][side] <= table[f][side]
  /\ ~baseline /\ ~lossy => stored = Nothing /\ countable = Nothing
  /\ SteadyFlowsAreComplete

(* A flow that has a direction when the route is known.                    *)
Directed(f) == HasDirection(f, TRUE)

(* What is true of each side of a steady flow that has a direction.        *)
LEMMA SteadySides ==
  ASSUME TypeOK, Steady, NEW f \in steady, NEW side \in Sides, detected, Directed(f)
  PROVE  /\ f \in Flows /\ TrueRow(f, side) \in Rows
         /\ table[f][side] \in Nat /\ previous[f][side] \in Nat
         /\ previous[f][side] <= table[f][side]
         /\ Ahead[TrueRow(f, side)] = table[f][side] - previous[f][side]
         /\ ~lossy =>
              stored[TrueRow(f, side)] + InFlight(TrueRow(f, side)) + Ahead[TrueRow(f, side)]
                = countable[TrueRow(f, side)]
<1>1. f \in Flows
  BY DEF TypeOK
<1>2. Unambiguous(f)
  BY <1>1, DirectedFlowsAreClear DEF Directed
<1>3. CodeRow(f, side, TRUE) = TrueRow(f, side) /\ TrueRow(f, side) \in Rows
  BY <1>1, <1>2, TheCodeFindsTheRow, RowTypes DEF Directed
<1>4. /\ table[f][side] \in Nat /\ previous[f][side] \in Nat
      /\ previous[f][side] <= table[f][side]
  BY DEF TypeOK, Steady, IsSnapshot, Counters
<1>5. detected = TRUE
  BY DEF TypeOK
<1>6. HasDirection(f, detected)
  BY <1>5 DEF Directed
<1>7. Ahead[TrueRow(f, side)] = table[f][side] - previous[f][side]
  <2>1. f \in DOMAIN table \cap DOMAIN previous
    BY DEF Steady
  <2>2. Ahead[CodeRow(f, side, detected)] = PositiveDelta(table[f][side], previous[f][side])
    BY <1>6, <2>1, AheadOfSides
  <2> QED BY <1>3, <1>4, <1>5, <2>2, PositiveDeltaType
<1>8. ~lossy => stored[TrueRow(f, side)] + InFlight(TrueRow(f, side))
                  + (table[f][side] - previous[f][side]) = countable[TrueRow(f, side)]
  BY <1>6 DEF Steady, SteadyFlowsAreComplete, Complete
<1> QED BY <1>1, <1>3, <1>4, <1>7, <1>8

(* To show that flows stay complete it is enough to look at one side of    *)
(* one of them.                                                            *)
LEMMA SteadyInductive ==
  (Init => Steady) /\ (TypeOK /\ Covered /\ Steady /\ [Next]_vars => Steady')
<1>1. ASSUME Init PROVE Steady
  <2>1. steady = {} /\ stored = Nothing /\ countable = Nothing
    BY <1>1 DEF Init
  <2>2. SteadyFlowsAreComplete
    BY <2>1 DEF SteadyFlowsAreComplete
  <2> QED BY <2>1, <2>2 DEF Steady
<1>2. ASSUME TypeOK, Covered, Steady, [Next]_vars PROVE Steady'
  <2> USE DEF memory, history
  <2> DEFINE After(r) == IF pc' = "write" THEN deltas'[r] ELSE 0
             Whole(f, side) ==
               stored'[TrueRow(f, side)] + After(TrueRow(f, side))
                 + (table'[f][side] - previous'[f][side]) = countable'[TrueRow(f, side)]
  <2>1. ASSUME \A f \in steady' :
                 /\ f \in DOMAIN table' \cap DOMAIN previous'
                 /\ \A side \in Sides : previous'[f][side] <= table'[f][side],
               ~baseline' /\ ~lossy' => stored' = Nothing /\ countable' = Nothing,
               ASSUME NEW f \in steady', NEW side \in Sides, detected', ~lossy', Directed(f)
               PROVE  Whole(f, side)
        PROVE  Steady'
    <3>1. detected' \in BOOLEAN /\ lossy' \in BOOLEAN
      BY <1>2, TypeInductive DEF TypeOK
    <3>2. SteadyFlowsAreComplete'
      <4>1. ASSUME detected', ~lossy', NEW f \in steady', HasDirection(f, detected')
            PROVE  Complete(f)'
        <5>1. detected' = TRUE
          BY <3>1, <4>1
        <5>2. Directed(f)
          BY <4>1, <5>1 DEF Directed
        <5>3. \A side \in Sides : Whole(f, side)
          BY <2>1, <4>1, <5>2
        <5> QED BY <5>3 DEF Complete, InFlight
      <4> QED BY <4>1 DEF SteadyFlowsAreComplete
    <3> QED BY <2>1, <3>2 DEF Steady
  <2> HIDE DEF Whole, After
  <2>2. \A r \in Rows : stored[r] \in Nat /\ deltas[r] \in Nat /\ countable[r] \in Nat
                        /\ InFlight(r) \in Nat /\ Ahead[r] \in Nat
    BY <1>2, PartTypes
  <2>s. \A f \in steady, side \in Sides :
          detected /\ ~lossy /\ Directed(f) =>
            /\ f \in Flows /\ TrueRow(f, side) \in Rows
            /\ table[f][side] \in Nat /\ previous[f][side] \in Nat
            /\ Ahead[TrueRow(f, side)] = table[f][side] - previous[f][side]
            /\ stored[TrueRow(f, side)] + InFlight(TrueRow(f, side))
                 + (table[f][side] - previous[f][side]) = countable[TrueRow(f, side)]
    <3> SUFFICES ASSUME NEW f \in steady, NEW side \in Sides,
                        detected, ~lossy, Directed(f)
                 PROVE  /\ f \in Flows /\ TrueRow(f, side) \in Rows
                        /\ table[f][side] \in Nat /\ previous[f][side] \in Nat
                        /\ Ahead[TrueRow(f, side)] = table[f][side] - previous[f][side]
                        /\ stored[TrueRow(f, side)] + InFlight(TrueRow(f, side))
                             + (table[f][side] - previous[f][side]) = countable[TrueRow(f, side)]
      OBVIOUS
    <3>1. Ahead[TrueRow(f, side)] = table[f][side] - previous[f][side]
      BY <1>2, SteadySides
    <3> QED BY <1>2, <3>1, SteadySides
  <2>3. CASE UNCHANGED <<detected, previous, table, stored, countable, baseline, steady, lossy>>
             /\ \A r \in Rows : After(r) = InFlight(r)
    <3>1. ASSUME NEW f \in steady', NEW side \in Sides, detected', ~lossy', Directed(f)
          PROVE  Whole(f, side)
      BY <1>2, <2>3, <3>1, <2>s DEF Whole
    <3> QED BY <1>2, <2>1, <2>3, <3>1 DEF Steady
  <2>4. CASE AccountingEnabled
    BY <1>2, <2>1, <2>4 DEF AccountingEnabled, Covered, Steady
  <2>5. CASE SampleConntrack
    <3>1. deltas' = Ahead
      BY <2>5, BuildDeltasIsGrowth DEF SampleConntrack, Ahead
    <3>2. \A r \in Rows : After(r) = Ahead[r] /\ InFlight(r) = 0
      BY <2>5, <3>1 DEF SampleConntrack, InFlight, After, Nothing
    <3>3. /\ previous' = table /\ table' = table /\ detected' = detected /\ lossy' = lossy
          /\ stored' = stored /\ countable' = countable /\ baseline' /\ steady' \subseteq DOMAIN table
          /\ steady' = IF baseline THEN steady ELSE DOMAIN table
      BY <1>2, <2>5 DEF SampleConntrack, Steady
    <3>4. \A f \in DOMAIN table, side \in Sides : table[f][side] \in Nat
      BY <1>2 DEF TypeOK, IsSnapshot, Counters
    <3>5. ASSUME NEW f \in steady', NEW side \in Sides, detected', ~lossy', Directed(f)
          PROVE  Whole(f, side)
      <4>1. CASE baseline
        <5>1. f \in steady /\ detected /\ ~lossy /\ Directed(f)
          BY <3>3, <3>5, <4>1
        <5> QED BY <2>2, <2>s, <3>2, <3>3, <5>1 DEF Whole
      <4>2. CASE ~baseline
        <5>1. f \in Flows /\ TrueRow(f, side) \in Rows
          BY <1>2, <3>3, RowTypes DEF TypeOK, IsSnapshot
        <5>2. Ahead[TrueRow(f, side)] = 0
          BY <1>2, <4>2, <5>1, NothingAhead DEF Covered, TypeOK, Ahead
        <5> QED BY <1>2, <3>2, <3>3, <3>4, <3>5, <4>2, <5>1, <5>2 DEF Whole, Steady, Nothing
      <4> QED BY <4>1, <4>2
    <3>6. \A f \in steady' : /\ f \in DOMAIN table' \cap DOMAIN previous'
                             /\ \A side \in Sides : previous'[f][side] <= table'[f][side]
      BY <3>3, <3>4
    <3> QED BY <2>1, <3>3, <3>5, <3>6
  <2>6. CASE Write
    <3>1. \A r \in Rows : stored'[r] = stored[r] + InFlight(r) /\ After(r) = 0
      BY <2>2, <2>6 DEF Write, Applied, InFlight, After
    <3>2. UNCHANGED <<detected, previous, table, countable, baseline, steady, lossy>> /\ baseline
      BY <1>2, <2>6 DEF Write, Covered
    <3>3. ASSUME NEW f \in steady', NEW side \in Sides, detected', ~lossy', Directed(f)
          PROVE  Whole(f, side)
      <4>1. f \in steady /\ detected /\ ~lossy /\ Directed(f)
        BY <3>2, <3>3
      <4> QED BY <2>2, <2>s, <3>1, <3>2, <4>1 DEF Whole
    <3> QED BY <1>2, <2>1, <3>2, <3>3 DEF Steady
  <2>7. CASE WriteFails
    <3>1. UNCHANGED <<detected, previous, table, countable, baseline, steady>> /\ baseline
      BY <1>2, <2>7 DEF WriteFails, Covered
    <3>2. ASSUME NEW f \in steady', NEW side \in Sides, detected', ~lossy', Directed(f)
          PROVE  Whole(f, side)
      <4>1. ~lossy /\ \A r \in Rows : stored'[r] = stored[r] + InFlight(r) /\ After(r) = 0
        BY <2>2, <2>7, <3>2 DEF WriteFails, Applied, InFlight, After
      <4>2. f \in steady /\ detected /\ Directed(f)
        BY <3>1, <3>2
      <4> QED BY <2>2, <2>s, <3>1, <4>1, <4>2 DEF Whole
    <3> QED BY <1>2, <2>1, <3>1, <3>2 DEF Steady
  <2>8. ASSUME NEW g \in Flows, Track(g) \/ Expire(g) PROVE Steady'
    <3>1. /\ UNCHANGED <<detected, previous, stored, countable, baseline, lossy, pc, deltas>>
          /\ \A f \in steady' : f \in steady /\ f \in DOMAIN table' /\ table'[f] = table[f]
      BY <1>2, <2>8 DEF Track, Expire, Steady
    <3>2. ASSUME NEW f \in steady', NEW side \in Sides, detected', ~lossy', Directed(f)
          PROVE  Whole(f, side)
      <4>1. f \in steady /\ detected /\ ~lossy /\ Directed(f)
        BY <3>1, <3>2
      <4> QED BY <2>2, <2>s, <3>1, <4>1 DEF Whole, InFlight, After
    <3> QED BY <1>2, <2>1, <3>1, <3>2 DEF Steady
  <2>9. ASSUME NEW g \in Flows, NEW s \in Sides, Carry(g, s) PROVE Steady'
    <3>1. UNCHANGED <<detected, previous, stored, baseline, lossy, pc, deltas, steady>>
      BY <2>9 DEF Carry
    <3>2. /\ DOMAIN table' = DOMAIN table
          /\ \A f \in DOMAIN table, side \in Sides :
               table'[f][side] = table[f][side] + (IF f = g /\ side = s THEN 1 ELSE 0)
      BY <1>2, <2>9 DEF Carry, TypeOK, IsSnapshot, Counters
    <3>3. \A f \in DOMAIN table \cap DOMAIN previous, side \in Sides :
            table[f][side] \in Nat /\ previous[f][side] \in Nat
      BY <1>2 DEF TypeOK, IsSnapshot, Counters
    <3>4. ASSUME NEW f \in steady', NEW side \in Sides, detected', ~lossy', Directed(f)
          PROVE  Whole(f, side)
      <4>0. f \in steady /\ detected /\ ~lossy /\ Directed(f)
        BY <3>1, <3>4
      <4>1. f \in steady /\ f \in DOMAIN table \cap DOMAIN previous /\ baseline
        BY <1>2, <3>1 DEF Steady, Covered
      <4>2. TrueRow(f, side) = TrueRow(g, s) <=> (f = g /\ side = s)
        <5>1. TrueRow(f, side) = TrueRow(g, s) => f = g
          BY DEF TrueRow
        <5>2. side # s => TrueRow(g, side) # TrueRow(g, s)
          BY RowTypes
        <5> QED BY <5>1, <5>2
      <4>3. countable'[TrueRow(f, side)] =
              countable[TrueRow(f, side)] + (IF f = g /\ side = s THEN 1 ELSE 0)
        <5>1. TrueRow(f, side) \in Rows /\ countable \in [Rows -> Nat]
          BY <1>2, <4>0, <2>s DEF TypeOK
        <5>2. countable' = [countable EXCEPT ![TrueRow(g, s)] = @ + 1]
          BY <2>9, <4>1 DEF Carry
        <5> QED BY <4>2, <5>1, <5>2
      <4>4. /\ table'[f][side] = table[f][side] + (IF f = g /\ side = s THEN 1 ELSE 0)
            /\ previous' = previous /\ stored' = stored
        BY <3>1, <3>2, <4>1
      <4>5. After(TrueRow(f, side)) = InFlight(TrueRow(f, side))
        BY <3>1 DEF InFlight, After
      <4> QED BY <2>2, <2>s, <4>0, <4>3, <4>4, <4>5 DEF Whole
    <3>5. \A f \in steady' : /\ f \in DOMAIN table' \cap DOMAIN previous'
                             /\ \A side \in Sides : previous'[f][side] <= table'[f][side]
      BY <1>2, <3>1, <3>2, <3>3 DEF Steady
    <3>6. ~baseline' /\ ~lossy' => stored' = Nothing /\ countable' = Nothing
      BY <1>2, <2>9, <3>1 DEF Carry, Steady
    <3> QED BY <2>1, <3>4, <3>5, <3>6
  <2>10. CASE Restart
    BY <2>1, <2>10 DEF Restart
  <2>11. AccountingDisabled \/ SampleFails \/ Record \/ UNCHANGED vars =>
           /\ UNCHANGED <<detected, previous, table, stored, countable, baseline, steady, lossy>>
           /\ \A r \in Rows : After(r) = InFlight(r)
    BY DEF AccountingDisabled, SampleFails, Record, vars, InFlight, After
  <2> QED
    BY <1>2, <2>3, <2>4, <2>5, <2>6, <2>7, <2>8, <2>9, <2>10, <2>11 DEF Next, Step, Environment
<1> QED BY <1>1, <1>2

(* A flow that is tracked without a break since the first snapshot loses   *)
(* nothing, through any number of failed snapshots and other flows that    *)
(* come and go (main.go:169-174).                                          *)
THEOREM SteadyFlowsAreAlwaysComplete == Spec => []SteadyFlowsAreComplete
<1>1. Steady => SteadyFlowsAreComplete
  BY DEF Steady
<1> QED BY <1>1, TypeInductive, CoveredInductive, SteadyInductive, PTL DEF Spec
=============================================================================
