------------------------- MODULE NftCollectorProofs -------------------------
(***************************************************************************)
(* Theorems about NftCollector, for every set of packets and every bound.  *)
(***************************************************************************)
EXTENDS NftCollector, TLAPS

(* The two abbreviations every action uses. *)
USE DEF Goto, Fault

-----------------------------------------------------------------------------
(* Facts about the operators of the model.                                 *)

(* An account is a class with a direction. *)
LEMMA AccountParts ==
  ASSUME NEW a \in Accounts
  PROVE  /\ a[1] \in Classes
         /\ a[2] \in Directions
         /\ a = <<a[1], a[2]>>
BY DEF Accounts

(* The difference is a natural number, and zero for a counter that went    *)
(* backwards (accounting.go:152-157).                                      *)
LEMMA PositiveDeltaType ==
  ASSUME NEW m \in Nat, NEW n \in Nat
  PROVE  /\ PositiveDelta(m, n) \in Nat
         /\ n <= m => PositiveDelta(m, n) = m - n
         /\ m <= n => PositiveDelta(m, n) = 0
BY DEF PositiveDelta

(* So the growth between two snapshots is a snapshot again. *)
LEMMA GrowthType ==
  ASSUME NEW f \in [Accounts -> Nat], NEW g \in [Accounts -> Nat]
  PROVE  Growth(f, g) \in [Accounts -> Nat]
BY PositiveDeltaType DEF Growth

(* Adding up per account stays within the natural numbers. *)
LEMMA PlusType ==
  ASSUME NEW f \in [Accounts -> Nat], NEW g \in [Accounts -> Nat]
  PROVE  Plus(f, g) \in [Accounts -> Nat]
BY DEF Plus

(* The empty snapshot and the empty transaction have their types. *)
LEMMA ZeroType == Zero \in [Accounts -> Nat] /\ NoRows \in [Tables -> [Accounts -> Nat]]
BY DEF Zero, NoRows

(* Deltas without an item are all zero. *)
LEMMA NoItems ==
  ASSUME NEW d \in [Accounts -> Nat], ItemClasses(d) = {}
  PROVE  \A a \in Accounts : d[a] = 0
<1> TAKE a \in Accounts
<1>1. a[1] \in Classes /\ a[2] \in Directions /\ a = <<a[1], a[2]>>
  BY AccountParts
<1>2. ~(d[<<a[1], a[2]>>] > 0)
  BY <1>1 DEF ItemClasses
<1> QED BY <1>1, <1>2

(* What the three writers of the health state leave behind. *)
LEMMA HealthStep ==
  ASSUME health \in HealthValues
  PROVE  /\ SetError => health' \in HealthValues
         /\ \A mode \in Modes : Starting(mode) => health' \in HealthValues
         /\ StartingHealth \in HealthValues
         /\ [status |-> "ok", mode |-> "nftables_counters",
             accounting |-> "nftables_counters", error |-> FALSE] \in HealthValues
BY DEF HealthValues, Modes, SetError, Starting, StartingHealth

(* Noting one more kind of loss keeps the set of losses typed. *)
LEMMA LossesGrow ==
  ASSUME lossy \subseteq Losses
  PROVE  \A kind \in Losses : lossy \cup {kind} \subseteq Losses
OBVIOUS

(* The two modes by name. *)
LEMMA ModeNames == "nftables_counters" \in Modes /\ "conntrack_snapshot" \in Modes
BY DEF Modes

(* The four kinds of loss by name. *)
LEMMA LossNames ==
  "write" \in Losses /\ "reset" \in Losses /\ "crash" \in Losses /\ "ipv6" \in Losses
BY DEF Losses

-----------------------------------------------------------------------------
(* Type correctness.                                                       *)

(* Every step keeps the type of every variable. *)
LEMMA TypeStep == TypeOK /\ [Next]_vars => TypeOK'
<1> SUFFICES ASSUME TypeOK, [Next]_vars PROVE TypeOK'
  OBVIOUS
<1> USE ZeroType, HealthStep, LossesGrow, ModeNames, LossNames DEF TypeOK, PcValues, memory, kernel, database, history
<1>1. CASE Start
  BY <1>1 DEF Start
<1>2. CASE Boot
  <2>1. CASE DetectHost
    BY <2>1 DEF DetectHost
  <2>2. CASE DetectHostFails
    BY <2>2 DEF DetectHostFails
  <2>3. CASE ConnectDatabase
    BY <2>3 DEF ConnectDatabase
  <2>4. CASE ConnectDatabaseFails
    BY <2>4 DEF ConnectDatabaseFails
  <2>5. CASE SetupWithoutInterface
    BY <2>5 DEF SetupWithoutInterface
  <2>6. CASE DeleteOldTable
    BY <2>6 DEF DeleteOldTable
  <2>7. CASE DeleteOldTableFails
    BY <2>7 DEF DeleteOldTableFails
  <2>8. CASE LoadRuleset
    BY <2>8 DEF LoadRuleset
  <2>9. CASE LoadRulesetFails
    BY <2>9 DEF LoadRulesetFails
  <2>10. CASE FallBackToConntrack
    BY <2>10 DEF FallBackToConntrack
  <2>11. CASE ConntrackUnavailable
    BY <2>11 DEF ConntrackUnavailable
  <2> QED BY <1>2, <2>1, <2>2, <2>3, <2>4, <2>5, <2>6, <2>7, <2>8, <2>9, <2>10, <2>11 DEF Boot
<1>3. CASE Tick
  <2>1. CASE ReadCounters
    BY <2>1, GrowthType DEF ReadCounters
  <2>2. CASE ReadMissingTable
    BY <2>2 DEF ReadMissingTable
  <2>3. CASE ReadCountersFails
    BY <2>3 DEF ReadCountersFails
  <2>4. CASE BeginTransaction
    BY <2>4 DEF BeginTransaction, Statements, ItemClasses
  <2>5. CASE ExecStatement
    <3>1. PICK s \in todo : /\ txn' = [txn EXCEPT ![s[2]] = Plus(@, Written(s))]
                            /\ todo' = todo \ {s}
      BY <2>5 DEF ExecStatement
    <3>2. s[2] \in Tables /\ txn[s[2]] \in [Accounts -> Nat] /\ Written(s) \in [Accounts -> Nat]
      BY DEF Statements, Written
    <3>3. Plus(txn[s[2]], Written(s)) \in [Accounts -> Nat]
      BY <3>2, PlusType
    <3>4. txn' \in [Tables -> [Accounts -> Nat]] /\ todo' \subseteq Statements
      BY <3>1, <3>2, <3>3
    <3> QED BY <2>5, <3>4 DEF ExecStatement
  <2>6. Applied \in [Tables -> [Accounts -> Nat]]
    BY PlusType DEF Applied
  <2>7. CASE Commit
    BY <2>6, <2>7 DEF Commit
  <2>8. CASE CommitAnswerLost
    BY <2>6, <2>8 DEF CommitAnswerLost, GiveUp
  <2>9. CASE WriteFails
    BY <2>9 DEF WriteFails, GiveUp
  <2>10. CASE Record
    BY <2>10, PlusType DEF Record
  <2> QED BY <1>3, <2>1, <2>2, <2>3, <2>4, <2>5, <2>7, <2>8, <2>9, <2>10 DEF Tick
<1>4. CASE Environment
  <2>1. ASSUME NEW p \in Packets, NEW n \in PacketSizes, Carry(p, n)
        PROVE TypeOK'
    <3>1. n \in Nat /\ rules * n \in Nat
      BY SizesAssumption
    <3>2. /\ counter' \in [Accounts -> Nat]
          /\ actual' \in [Accounts -> Nat]
          /\ bytes' \in Nat
      <4> DEFINE hit(a) == IF a \in Matched(p) THEN rules * n ELSE 0
                 met(a) == IF a \in Crossed(p) THEN n ELSE 0
      <4>1. /\ counter' = [a \in Accounts |-> counter[a] + hit(a)]
            /\ actual' = [a \in Accounts |-> actual[a] + met(a)]
            /\ bytes' = bytes + n
        BY <2>1 DEF Carry
      <4>2. \A a \in Accounts : hit(a) \in Nat /\ met(a) \in Nat
        BY <3>1
      <4> HIDE DEF hit, met
      <4> QED BY <3>1, <4>1, <4>2
    <3>3. lossy' \subseteq Losses
      BY <2>1 DEF Carry
    <3> QED BY <2>1, <3>2, <3>3 DEF Carry
  <2>2. CASE ResetCounters
    BY <2>2 DEF ResetCounters
  <2>3. CASE FlushRuleset
    BY <2>3 DEF FlushRuleset
  <2>4. CASE Crash
    <3>1. Applied \in [Tables -> [Accounts -> Nat]]
      BY PlusType DEF Applied
    <3>2. stored' \in [Tables -> [Accounts -> Nat]] /\ health' \in HealthValues
      BY <2>4, <3>1 DEF Crash
    <3>3. lossy' \subseteq Losses /\ faults' \in Nat
      BY <2>4 DEF Crash
    <3> QED BY <2>4, <3>2, <3>3 DEF Crash
  <2> QED BY <1>4, <2>1, <2>2, <2>3, <2>4 DEF Environment
<1>5. CASE UNCHANGED vars
  BY <1>5 DEF vars
<1> QED BY <1>1, <1>2, <1>3, <1>4, <1>5 DEF Next

(* The initial state is typed. *)
LEMMA InitTyped == Init => TypeOK
<1>1. StartingHealth \in HealthValues
    BY DEF StartingHealth, HealthValues, Modes
<1> USE DEF Init
<1>2. Init => pc \in PcValues /\ iface \in BOOLEAN /\ recounted \in BOOLEAN
    BY DEF PcValues
<1>3. Init => todo \subseteq Statements /\ lossy \subseteq Losses
    OBVIOUS
<1> QED BY <1>1, <1>2, <1>3, ZeroType DEF TypeOK

(* Every variable keeps its type through every step of every behaviour, in *)
(* particular the unsigned subtraction of positiveDelta (accounting.go:152)*)
(* never goes below zero.                                                  *)
THEOREM TypeCorrect == Spec => []TypeOK
BY InitTyped, TypeStep, PTL DEF Spec

-----------------------------------------------------------------------------
(* The inductive strengthening.                                            *)

(* The open transaction holds the deltas of the statements already         *)
(* executed and nothing else, so at COMMIT it holds all of them.           *)
Rows ==
  /\ pc \in {"exec", "commit"} =>
       \A t \in Tables, a \in Accounts :
         txn[t][a] = IF <<a[1], t>> \in todo THEN 0 ELSE deltas[a]
  /\ pc = "commit" => todo = {}

(* What the next snapshot will add. *)
Unread(a) == IF pc \in Polling THEN PositiveDelta(counter[a], previous[a]) ELSE 0

(* What is stored, what is being written and what will be read next are    *)
(* disjoint parts of what crossed the interface.                           *)
Covered ==
  /\ rules = 0 => \A a \in Accounts : counter[a] = 0
  /\ ~recounted =>
       /\ rules <= 1
       /\ \A t \in Tables, a \in Accounts :
            stored[t][a] + InFlight(a) + Unread(a) <= actual[a]

(* Without a loss they are all of it, and outside the polling loop there   *)
(* is nothing yet.                                                         *)
Exact ==
  lossy = {} /\ ~recounted =>
    /\ pc \in Polling =>
         \A a \in Accounts :
           /\ previous[a] <= counter[a]
           /\ \A t \in Tables :
                stored[t][a] + InFlight(a) + (counter[a] - previous[a]) = actual[a]
    /\ pc \notin Polling =>
         /\ rules = 0
         /\ \A a \in Accounts :
              counter[a] = 0 /\ actual[a] = 0 /\ \A t \in Tables : stored[t][a] = 0

(* The deltas to be recorded are stored already. *)
Backed ==
  \A t \in Tables, a \in Accounts :
    totals[a] + (IF pc = "record" THEN deltas[a] ELSE 0) <= stored[t][a]

IInv == TypeOK /\ Rows /\ TablesAgree /\ Covered /\ Exact /\ Backed

(* The steps that concern none of this: they move the goroutine before or  *)
(* after its polling loop, or only change the health state.                *)
Quiet ==
  /\ UNCHANGED <<previous, deltas, todo, totals, rules, counter, txn, stored,
                 actual, lossy, recounted>>
  /\ pc' = pc \/ (pc \notin Polling /\ pc' \notin Polling)

(* A step is quiet or one of those the invariant has to follow. *)
LEMMA StepKinds ==
  ASSUME [Next]_vars
  PROVE  \/ Quiet
         \/ DeleteOldTable \/ LoadRuleset
         \/ ReadCounters \/ BeginTransaction \/ ExecStatement
         \/ Commit \/ CommitAnswerLost \/ WriteFails \/ Record
         \/ \E p \in Packets, n \in PacketSizes : Carry(p, n)
         \/ ResetCounters \/ FlushRuleset \/ Crash
<1> USE DEF Quiet, Polling, memory, kernel, database, history
<1>1. CASE Start
  BY <1>1 DEF Start
<1>2. CASE Boot
  BY <1>2 DEF Boot, DetectHost, DetectHostFails, ConnectDatabase, ConnectDatabaseFails,
       SetupWithoutInterface, DeleteOldTableFails, LoadRulesetFails,
       FallBackToConntrack, ConntrackUnavailable
<1>3. CASE Tick
  BY <1>3 DEF Tick, ReadMissingTable, ReadCountersFails
<1>4. CASE Environment
  BY <1>4 DEF Environment
<1>5. CASE UNCHANGED vars
  BY <1>5 DEF vars
<1> QED BY <1>1, <1>2, <1>3, <1>4, <1>5 DEF Next

(* What COMMIT makes visible is exactly the deltas, in every table. *)
LEMMA CommitAddsDeltas ==
  ASSUME TypeOK, Rows, pc = "commit"
  PROVE  \A t \in Tables, a \in Accounts :
           txn[t][a] = deltas[a] /\ Applied[t][a] = stored[t][a] + deltas[a]
BY DEF TypeOK, Rows, Applied, Plus

-----------------------------------------------------------------------------
(* Each part is preserved.                                                 *)

(* The transaction keeps matching the statements executed so far           *)
(* (writer.go:47-78).                                                      *)
LEMMA RowsStep == TypeOK /\ Rows /\ [Next]_vars => Rows'
<1> SUFFICES ASSUME TypeOK, Rows, [Next]_vars PROVE Rows'
  OBVIOUS
<1> USE DEF Rows
<1>1. CASE Quiet
  BY <1>1 DEF Quiet, Polling
<1>2. CASE BeginTransaction
  <2>1. /\ pc' = "exec"
        /\ deltas' = deltas
        /\ txn' = NoRows
        /\ todo' = ItemClasses(deltas) \X Tables
    BY <1>2 DEF BeginTransaction
  <2>2. ASSUME NEW t \in Tables, NEW a \in Accounts, <<a[1], t>> \notin todo'
        PROVE  deltas[a] = 0
    <3>1. a[1] \in Classes /\ a[2] \in Directions /\ a = <<a[1], a[2]>>
      BY AccountParts
    <3>2. a[1] \notin ItemClasses(deltas)
      BY <2>1, <2>2
    <3>3. ~(deltas[<<a[1], a[2]>>] > 0)
      BY <3>1, <3>2 DEF ItemClasses
    <3>4. deltas[a] \in Nat
      BY DEF TypeOK
    <3>5. ~(deltas[a] > 0)
      BY <3>1, <3>3
    <3> QED BY <3>4, <3>5
  <2>3. \A t \in Tables, a \in Accounts : txn'[t][a] = 0
    BY <2>1 DEF NoRows, Zero
  <2> QED BY <2>1, <2>2, <2>3
<1>3. CASE ExecStatement
  <2>1. PICK s \in todo : /\ txn' = [txn EXCEPT ![s[2]] = Plus(@, Written(s))]
                          /\ todo' = todo \ {s}
    BY <1>3 DEF ExecStatement
  <2>2. /\ pc = "exec"
        /\ deltas' = deltas
        /\ pc' = IF todo' = {} THEN "commit" ELSE "exec"
    BY <1>3 DEF ExecStatement
  <2>3. s[1] \in Classes /\ s[2] \in Tables /\ s = <<s[1], s[2]>>
    BY DEF TypeOK, Statements
  <2>4. ASSUME NEW t \in Tables, NEW a \in Accounts
        PROVE  txn'[t][a] = IF <<a[1], t>> \in todo' THEN 0 ELSE deltas'[a]
    <3>1. txn[t][a] = IF <<a[1], t>> \in todo THEN 0 ELSE deltas[a]
      BY <2>2
    <3>2. txn[t][a] \in Nat /\ deltas[a] \in Nat
      BY DEF TypeOK
    <3>3. CASE t = s[2] /\ a[1] = s[1]
      <4>1. txn'[t][a] = txn[t][a] + deltas[a]
        BY <2>1, <2>3, <3>3 DEF TypeOK, Plus, Written
      <4>2. <<a[1], t>> \in todo /\ <<a[1], t>> \notin todo'
        BY <2>1, <2>3, <3>3
      <4> QED BY <2>2, <3>1, <3>2, <4>1, <4>2
    <3>4. CASE ~(t = s[2] /\ a[1] = s[1])
      <4>1. txn'[t][a] = txn[t][a]
        BY <2>1, <2>3, <3>2, <3>4 DEF TypeOK, Plus, Written
      <4>2. <<a[1], t>> \in todo' <=> <<a[1], t>> \in todo
        BY <2>1, <2>3, <3>4
      <4> QED BY <2>2, <3>1, <4>1, <4>2
    <3> QED BY <3>3, <3>4
  <2> QED BY <2>2, <2>4
<1>4. CASE \E p \in Packets, n \in PacketSizes : Carry(p, n)
  BY <1>4 DEF Carry, memory, database
<1>5. CASE ResetCounters \/ FlushRuleset
  BY <1>5 DEF ResetCounters, FlushRuleset, memory, database
<1>6. CASE DeleteOldTable \/ LoadRuleset \/ ReadCounters \/ Commit \/ CommitAnswerLost
           \/ WriteFails \/ Record \/ Crash
  BY <1>6 DEF DeleteOldTable, LoadRuleset, ReadCounters, Commit, CommitAnswerLost,
       WriteFails, Record, Crash, GiveUp
<1> QED BY <1>1, <1>2, <1>3, <1>4, <1>5, <1>6, StepKinds

(* Only a COMMIT changes the tables, and it adds the same to all of them   *)
(* (writer.go:80).                                                         *)
LEMMA TablesAgreeStep == TypeOK /\ Rows /\ TablesAgree /\ [Next]_vars => TablesAgree'
<1> SUFFICES ASSUME TypeOK, Rows, TablesAgree, [Next]_vars PROVE TablesAgree'
  OBVIOUS
<1> USE DEF TablesAgree
<1>1. CASE pc = "commit" /\ stored' = Applied
  <2> SUFFICES ASSUME NEW t \in Tables, NEW u \in Tables PROVE Applied[t] = Applied[u]
    BY <1>1
  <2>1. \A a \in Accounts : txn[t][a] = txn[u][a]
    BY <1>1, CommitAddsDeltas
  <2> QED BY <2>1 DEF Applied, Plus
<1>2. CASE stored' = stored
  BY <1>2
<1>3. (pc = "commit" /\ stored' = Applied) \/ stored' = stored
  BY StepKinds DEF Quiet, DeleteOldTable, LoadRuleset, ReadCounters, BeginTransaction,
     ExecStatement, Commit, CommitAnswerLost, WriteFails, Record, Carry, ResetCounters,
     FlushRuleset, Crash, database
<1> QED BY <1>1, <1>2, <1>3

(* No step counts a byte in two of the three parts (main.go:131-137).      *)
LEMMA CoveredStep == TypeOK /\ Rows /\ Covered /\ [Next]_vars => Covered'
<1> SUFFICES ASSUME TypeOK, Rows, Covered, [Next]_vars PROVE Covered'
  OBVIOUS
<1>a. TypeOK'
  BY TypeStep
<1> USE DEF Covered
<1>t. \A a \in Accounts :
        /\ counter[a] \in Nat /\ previous[a] \in Nat /\ deltas[a] \in Nat /\ actual[a] \in Nat
        /\ counter'[a] \in Nat /\ previous'[a] \in Nat /\ deltas'[a] \in Nat /\ actual'[a] \in Nat
        /\ \A t \in Tables : stored[t][a] \in Nat /\ stored'[t][a] \in Nat
  BY <1>a DEF TypeOK
<1>r. rules \in Nat /\ rules' \in Nat
  BY <1>a DEF TypeOK
<1>1. CASE Quiet
  BY <1>1, <1>t DEF Quiet, InFlight, Unread, Polling
<1>2. CASE DeleteOldTable
  BY <1>2, <1>t DEF DeleteOldTable, InFlight, Unread, Polling, Zero, memory, database, history
<1>3. CASE LoadRuleset
  <2>1. /\ pc = "load" /\ pc' = "wait" /\ rules' = rules + 1
        /\ recounted' = (recounted \/ rules > 0)
        /\ previous' = Zero /\ UNCHANGED <<counter, stored, actual>>
    BY <1>3 DEF LoadRuleset, database
  <2>2. ASSUME ~recounted', NEW t \in Tables, NEW a \in Accounts
        PROVE  stored'[t][a] + InFlight(a)' + Unread(a)' <= actual'[a]
    <3>0. ~recounted /\ ~(rules > 0)
      BY <2>1, <2>2, Zenon
    <3>1. ~recounted /\ counter[a] = 0 /\ previous'[a] = 0
      BY <1>r, <2>1, <3>0 DEF Zero
    <3>2. InFlight(a) = 0 /\ Unread(a) = 0 /\ InFlight(a)' = 0 /\ Unread(a)' = 0
      BY <2>1, <3>1 DEF InFlight, Unread, Polling, PositiveDelta
    <3> QED BY <2>1, <3>1, <3>2
  <2>3. rules' # 0
    BY <1>r, <2>1
  <2>4. ASSUME ~recounted'
        PROVE  rules' <= 1
    <3>1. ~(rules > 0)
      BY <2>1, <2>4, Zenon
    <3> QED BY <1>r, <2>1, <3>1
  <2> QED BY <2>2, <2>3, <2>4
<1>4. CASE ReadCounters
  BY <1>4, <1>t DEF ReadCounters, InFlight, Unread, Polling, Growth, PositiveDelta,
     kernel, database, history
<1>5. CASE BeginTransaction \/ ExecStatement
  BY <1>5, <1>t DEF BeginTransaction, ExecStatement, InFlight, Unread, Polling, kernel, history
<1>6. CASE Commit \/ CommitAnswerLost
  BY <1>6, <1>t, CommitAddsDeltas DEF Commit, CommitAnswerLost, GiveUp, InFlight, Unread, Polling,
     memory, kernel, history
<1>7. CASE WriteFails
  <2>1. /\ pc \in {"begin", "exec", "commit"} /\ pc' = "wait"
        /\ UNCHANGED <<rules, counter, previous, stored, actual, recounted>>
    BY <1>7 DEF WriteFails, GiveUp, kernel
  <2>2. ASSUME NEW a \in Accounts
        PROVE  InFlight(a)' = 0 /\ InFlight(a) \in Nat /\ Unread(a)' = Unread(a) /\ Unread(a) \in Nat
    BY <1>t, <2>1, PositiveDeltaType DEF InFlight, Unread, Polling
  <2> QED BY <1>t, <2>1, <2>2
<1>8. CASE Record
  BY <1>8, <1>t DEF Record, InFlight, Unread, Polling, kernel, database, history
<1>9. CASE \E p \in Packets, n \in PacketSizes : Carry(p, n)
  <2>1. PICK p \in Packets, n \in PacketSizes : Carry(p, n)
    BY <1>9
  <2>2. n \in Nat
    BY SizesAssumption
  <2>3. /\ rules > 0 /\ rules' = rules /\ pc' = pc /\ recounted' = recounted
        /\ deltas' = deltas /\ previous' = previous /\ stored' = stored
    BY <2>1 DEF Carry, memory, database
  <2>4. ASSUME ~recounted, NEW a \in Accounts
        PROVE  \E m \in {0, n} : counter'[a] = counter[a] + m /\ actual'[a] >= actual[a] + m
    <3>1. rules = 1
      BY <1>r, <2>3, <2>4
    <3>2. /\ counter'[a] = counter[a] + (IF a \in Matched(p) THEN rules * n ELSE 0)
          /\ actual'[a] = actual[a] + (IF a \in Crossed(p) THEN n ELSE 0)
      BY <2>1 DEF Carry
    <3>3. a \in Matched(p) => a \in Crossed(p)
      BY DEF Matched, Crossed
    <3> QED BY <1>t, <2>2, <3>1, <3>2, <3>3
  <2>5. ASSUME ~recounted, NEW t \in Tables, NEW a \in Accounts
        PROVE  stored'[t][a] + InFlight(a)' + Unread(a)' <= actual'[a]
    <3>1. PICK m \in {0, n} : counter'[a] = counter[a] + m /\ actual'[a] >= actual[a] + m
      BY <2>4, <2>5
    <3>2. stored[t][a] + InFlight(a) + Unread(a) <= actual[a]
      BY <2>5
    <3>3. InFlight(a)' = InFlight(a) /\ InFlight(a) \in Nat
      BY <2>3, <1>t DEF InFlight
    <3>4. Unread(a)' <= Unread(a) + m /\ Unread(a) \in Nat /\ Unread(a)' \in Nat
      BY <1>t, <2>2, <2>3, <3>1 DEF Unread, PositiveDelta
    <3> QED BY <1>t, <2>2, <2>3, <3>1, <3>2, <3>3, <3>4
  <2> QED BY <1>r, <2>3, <2>5
<1>10. CASE ResetCounters \/ FlushRuleset
  <2>1. /\ UNCHANGED <<pc, deltas, previous, stored, actual, recounted>>
        /\ counter' = Zero
        /\ rules' = rules \/ rules' = 0
    BY <1>10 DEF ResetCounters, FlushRuleset, memory, database
  <2>2. ASSUME NEW a \in Accounts
        PROVE  counter'[a] = 0 /\ InFlight(a)' = InFlight(a) /\ Unread(a)' = 0 /\ Unread(a) \in Nat
    BY <1>t, <2>1 DEF Zero, InFlight, Unread, PositiveDelta
  <2>3. \A a \in Accounts : InFlight(a) \in Nat
    BY <1>t DEF InFlight
  <2> QED BY <1>t, <1>r, <2>1, <2>2, <2>3
<1>11. CASE Crash
  BY <1>11, <1>t, CommitAddsDeltas DEF Crash, InFlight, Unread, Polling, PositiveDelta, kernel
<1> QED BY <1>1, <1>2, <1>3, <1>4, <1>5, <1>6, <1>7, <1>8, <1>9, <1>10, <1>11, StepKinds

(* No step that is not named a loss lets a byte fall out of the three      *)
(* parts (main.go:126-132).                                                *)
LEMMA ExactStep == TypeOK /\ Rows /\ Covered /\ Exact /\ [Next]_vars => Exact'
<1> SUFFICES ASSUME TypeOK, Rows, Covered, Exact, [Next]_vars,
                    lossy' = {}, ~recounted'
             PROVE  Exact'
  BY DEF Exact
<1>a. TypeOK'
  BY TypeStep
<1>t. \A a \in Accounts :
        /\ counter[a] \in Nat /\ previous[a] \in Nat /\ deltas[a] \in Nat /\ actual[a] \in Nat
        /\ counter'[a] \in Nat /\ previous'[a] \in Nat /\ deltas'[a] \in Nat /\ actual'[a] \in Nat
        /\ \A t \in Tables : stored[t][a] \in Nat /\ stored'[t][a] \in Nat
  BY <1>a DEF TypeOK
<1>r. rules \in Nat /\ rules' \in Nat
  BY <1>a DEF TypeOK
<1> USE DEF Exact
<1>1. CASE Quiet
  BY <1>1, <1>t DEF Quiet, InFlight, Polling
<1>2. CASE DeleteOldTable
  BY <1>2, <1>t DEF DeleteOldTable, Polling, Zero, memory, database, history
<1>3. CASE LoadRuleset
  <2>1. /\ pc = "load" /\ pc' = "wait" /\ recounted' = (recounted \/ rules > 0)
        /\ previous' = Zero /\ UNCHANGED <<counter, stored, actual, lossy>>
    BY <1>3 DEF LoadRuleset, database
  <2>2. ~recounted
    BY <2>1, Zenon
  <2>3. \A a \in Accounts :
          /\ counter[a] = 0 /\ actual[a] = 0 /\ previous'[a] = 0 /\ InFlight(a)' = 0
          /\ \A t \in Tables : stored[t][a] = 0
    BY <2>1, <2>2 DEF InFlight, Polling, Zero
  <2> QED BY <2>1, <2>3 DEF Polling
<1>4. CASE ReadCounters
  <2>1. /\ pc = "wait" /\ previous' = counter /\ deltas' = Growth(counter, previous)
        /\ pc' = IF ItemClasses(deltas') = {} THEN "record" ELSE "begin"
        /\ UNCHANGED <<rules, counter, stored, actual, lossy, recounted>>
    BY <1>4 DEF ReadCounters, kernel, database, history
  <2>2. ASSUME NEW a \in Accounts
        PROVE  InFlight(a)' = counter[a] - previous[a]
    <3>1. deltas'[a] = counter[a] - previous[a]
      BY <1>t, <2>1 DEF Growth, PositiveDelta, Polling
    <3>2. CASE ItemClasses(deltas') = {}
      <4>1. deltas' \in [Accounts -> Nat]
        BY <1>a DEF TypeOK
      <4>2. deltas'[a] = 0
        BY <3>2, <4>1, NoItems
      <4> QED BY <2>1, <3>1, <3>2, <4>2 DEF InFlight
    <3>3. CASE ItemClasses(deltas') # {}
      BY <2>1, <3>1, <3>3 DEF InFlight
    <3> QED BY <3>2, <3>3
  <2>3. \A a \in Accounts : InFlight(a) = 0
    BY <2>1 DEF InFlight
  <2> QED BY <1>t, <2>1, <2>2, <2>3 DEF Polling
<1>5. CASE BeginTransaction \/ ExecStatement
  BY <1>5, <1>t DEF BeginTransaction, ExecStatement, InFlight, Polling, kernel, history
<1>6. CASE Commit \/ CommitAnswerLost
  <2>1. /\ pc = "commit" /\ pc' \in {"record", "wait"} /\ stored' = Applied
        /\ UNCHANGED <<counter, previous, actual, lossy, recounted>>
    BY <1>6 DEF Commit, CommitAnswerLost, GiveUp, memory, kernel, history
  <2>2. \A a \in Accounts : InFlight(a) = deltas[a] /\ InFlight(a)' = 0
    BY <2>1 DEF InFlight
  <2>3. \A t \in Tables, a \in Accounts : stored'[t][a] = stored[t][a] + deltas[a]
    BY <2>1, CommitAddsDeltas
  <2> QED BY <1>t, <2>1, <2>2, <2>3 DEF Polling
<1>7. CASE WriteFails \/ ResetCounters \/ FlushRuleset \/ Crash
  BY <1>7 DEF WriteFails, ResetCounters, FlushRuleset, Crash
<1>8. CASE Record
  BY <1>8, <1>t DEF Record, InFlight, Polling, kernel, database, history
<1>9. CASE \E p \in Packets, n \in PacketSizes : Carry(p, n)
  <2>1. PICK p \in Packets, n \in PacketSizes : Carry(p, n)
    BY <1>9
  <2>2. n \in Nat
    BY SizesAssumption
  <2>3. /\ rules > 0 /\ UNCHANGED <<pc, deltas, previous, rules, stored, recounted>>
        /\ lossy' = IF p.v4 THEN lossy ELSE lossy \cup {"ipv6"}
    BY <2>1 DEF Carry, memory, database
  <2>4. p.v4 /\ lossy = {} /\ ~recounted
    BY <2>3
  <2>5. rules = 1 /\ pc \in Polling
    BY <1>r, <2>3, <2>4 DEF Covered
  <2>6. ASSUME NEW a \in Accounts
        PROVE  \E m \in {0, n} : counter'[a] = counter[a] + m /\ actual'[a] = actual[a] + m
    <3>1. /\ counter'[a] = counter[a] + (IF a \in Matched(p) THEN rules * n ELSE 0)
          /\ actual'[a] = actual[a] + (IF a \in Crossed(p) THEN n ELSE 0)
      BY <2>1 DEF Carry
    <3>2. a \in Matched(p) <=> a \in Crossed(p)
      BY <2>4, PacketsAssumption DEF Matched, Crossed, PacketKinds, Hooks
    <3> QED BY <1>t, <2>2, <2>5, <3>1, <3>2
  <2>7. \A a \in Accounts : InFlight(a)' = InFlight(a) /\ InFlight(a) \in Nat
    BY <1>t, <2>3 DEF InFlight
  <2>8. ASSUME NEW a \in Accounts, NEW t \in Tables
        PROVE  /\ previous'[a] <= counter'[a]
               /\ stored'[t][a] + InFlight(a)' + (counter'[a] - previous'[a]) = actual'[a]
    <3>1. PICK m \in {0, n} : counter'[a] = counter[a] + m /\ actual'[a] = actual[a] + m
      BY <2>6
    <3>2. m \in Nat
      BY <2>2
    <3>3. /\ previous[a] <= counter[a]
          /\ stored[t][a] + InFlight(a) + (counter[a] - previous[a]) = actual[a]
      BY <2>4, <2>5
    <3> QED BY <1>t, <2>3, <2>7, <3>1, <3>2, <3>3
  <2>9. "traffic_samples" \in Tables
    BY DEF Tables, TableOrder
  <2> QED BY <2>3, <2>5, <2>8, <2>9
<1> QED BY <1>1, <1>2, <1>3, <1>4, <1>5, <1>6, <1>7, <1>8, <1>9, StepKinds

(* The totals only take deltas that were committed (main.go:133-137). *)
LEMMA BackedStep == TypeOK /\ Rows /\ Backed /\ [Next]_vars => Backed'
<1> SUFFICES ASSUME TypeOK, Rows, Backed, [Next]_vars PROVE Backed'
  OBVIOUS
<1>a. TypeOK'
  BY TypeStep
<1>t. \A a \in Accounts :
        /\ deltas[a] \in Nat /\ totals[a] \in Nat /\ deltas'[a] \in Nat /\ totals'[a] \in Nat
        /\ \A t \in Tables : stored[t][a] \in Nat /\ stored'[t][a] \in Nat
  BY <1>a DEF TypeOK
<1> USE DEF Backed
<1>1. CASE Quiet \/ DeleteOldTable \/ LoadRuleset
  BY <1>1, <1>t DEF Quiet, DeleteOldTable, LoadRuleset, Polling, memory, database
<1>2. CASE ReadCounters
  <2>1. /\ pc' = IF ItemClasses(deltas') = {} THEN "record" ELSE "begin"
        /\ UNCHANGED <<totals, stored>>
    BY <1>2 DEF ReadCounters, database
  <2>2. deltas' \in [Accounts -> Nat]
    BY <1>a DEF TypeOK
  <2>3. \A a \in Accounts : (IF pc' = "record" THEN deltas'[a] ELSE 0) = 0
    BY <2>1, <2>2, NoItems
  <2> QED BY <1>t, <2>1, <2>3
<1>3. CASE BeginTransaction \/ ExecStatement \/ WriteFails
  BY <1>3, <1>t DEF BeginTransaction, ExecStatement, WriteFails, GiveUp
<1>4. CASE Commit \/ CommitAnswerLost
  BY <1>4, <1>t, CommitAddsDeltas DEF Commit, CommitAnswerLost, GiveUp, memory
<1>5. CASE Record
  BY <1>5, <1>t DEF Record, Plus, database
<1>6. CASE \E p \in Packets, n \in PacketSizes : Carry(p, n)
  BY <1>6 DEF Carry, memory, database
<1>7. CASE ResetCounters \/ FlushRuleset
  BY <1>7 DEF ResetCounters, FlushRuleset, memory, database
<1>8. CASE Crash
  BY <1>8, <1>t, CommitAddsDeltas DEF Crash, Zero
<1> QED BY <1>1, <1>2, <1>3, <1>4, <1>5, <1>6, <1>7, <1>8, StepKinds

-----------------------------------------------------------------------------
(* The theorems.                                                           *)

(* The conjunction is preserved by every step. *)
LEMMA InductiveStep == IInv /\ [Next]_vars => IInv'
BY TypeStep, RowsStep, TablesAgreeStep, CoveredStep, ExactStep, BackedStep DEF IInv

(* And it holds initially. *)
LEMMA InductiveInit == Init => IInv
<1> SUFFICES ASSUME Init PROVE IInv
  OBVIOUS
<1>1. TypeOK
  BY InitTyped
<1>2. Rows /\ TablesAgree
  BY DEF Init, Rows, TablesAgree, NoRows
<1>3. \A a \in Accounts :
        /\ counter[a] = 0 /\ actual[a] = 0 /\ totals[a] = 0 /\ InFlight(a) = 0 /\ Unread(a) = 0
        /\ \A t \in Tables : stored[t][a] = 0
  BY DEF Init, NoRows, Zero, InFlight, Unread, Polling
<1>4. pc = "off" /\ rules = 0
  BY DEF Init
<1>5. Covered /\ Backed
  BY <1>3, <1>4 DEF Covered, Backed
<1>6. Exact
  BY <1>3, <1>4 DEF Exact, Polling
<1> QED BY <1>1, <1>2, <1>5, <1>6 DEF IInv

(* The inductive invariant of the polling loop and the transaction, from   *)
(* which the theorems below follow (main.go:105-140, writer.go:36-81).     *)
THEOREM Inductive == Spec => []IInv
BY InductiveInit, InductiveStep, PTL DEF Spec

(* For every set of packets, every amount of traffic and every number of   *)
(* failed writes, lost commit answers, resets, crashes and restarts, no    *)
(* table holds more than crossed the interface, as long as Setup never     *)
(* reused a table it failed to delete.                                     *)
THEOREM NeverOvercounts == Spec => []NoOvercount
<1>1. IInv => NoOvercount
  <2> SUFFICES ASSUME IInv, ~recounted, NEW t \in Tables, NEW a \in Accounts
               PROVE  stored[t][a] <= actual[a]
    BY DEF NoOvercount
  <2>1. stored[t][a] + InFlight(a) + Unread(a) <= actual[a]
    BY DEF IInv, Covered
  <2>2. /\ stored[t][a] \in Nat /\ deltas[a] \in Nat /\ actual[a] \in Nat
        /\ counter[a] \in Nat /\ previous[a] \in Nat
    BY DEF IInv, TypeOK
  <2>3. InFlight(a) \in Nat /\ Unread(a) \in Nat
    BY <2>2, PositiveDeltaType DEF InFlight, Unread
  <2> QED BY <2>1, <2>2, <2>3
<1> QED BY <1>1, Inductive, PTL

(* A delta item reaches all four tables or none of them, whichever         *)
(* statement fails and wherever the process dies.                          *)
THEOREM TablesAlwaysAgree == Spec => []TablesAgree
<1>1. IInv => TablesAgree
  BY DEF IInv
<1> QED BY <1>1, Inductive, PTL

(* Bytes go missing only through a failed write, a reset or flush of the   *)
(* counters, a crash, or because they were IPv6: failed reads and late     *)
(* ticks never lose any.                                                   *)
THEOREM LossesAreNamed == Spec => []NothingLost
<1>1. IInv => NothingLost
  <2> SUFFICES ASSUME IInv, lossy = {}, ~recounted, NEW a \in Accounts, NEW t \in Tables
               PROVE  stored[t][a] + InFlight(a) + PositiveDelta(counter[a], previous[a]) = actual[a]
    BY DEF NothingLost, Accounted
  <2>1. counter[a] \in Nat /\ previous[a] \in Nat
    BY DEF IInv, TypeOK
  <2>2. CASE pc \in Polling
    <3>1. /\ previous[a] <= counter[a]
          /\ stored[t][a] + InFlight(a) + (counter[a] - previous[a]) = actual[a]
      BY <2>2 DEF IInv, Exact
    <3> QED BY <2>1, <3>1, PositiveDeltaType
  <2>3. CASE pc \notin Polling
    <3>1. counter[a] = 0 /\ actual[a] = 0 /\ stored[t][a] = 0
      BY <2>3 DEF IInv, Exact
    <3>2. InFlight(a) = 0
      BY <2>3 DEF InFlight, Polling
    <3>3. PositiveDelta(counter[a], previous[a]) = 0
      BY <2>1, <3>1 DEF PositiveDelta
    <3> QED BY <3>1, <3>2, <3>3
  <2> QED BY <2>2, <2>3
<1> QED BY <1>1, Inductive, PTL

(* The totals on /healthz never exceed what the database holds. *)
THEOREM TotalsAreBacked == Spec => []TotalsAreStored
<1>1. IInv => TotalsAreStored
  <2> SUFFICES ASSUME IInv, NEW t \in Tables, NEW a \in Accounts
               PROVE  totals[a] <= stored[t][a]
    BY DEF TotalsAreStored
  <2>1. totals[a] + (IF pc = "record" THEN deltas[a] ELSE 0) <= stored[t][a]
    BY DEF IInv, Backed
  <2>2. totals[a] \in Nat /\ deltas[a] \in Nat /\ stored[t][a] \in Nat
    BY DEF IInv, TypeOK
  <2> QED BY <2>1, <2>2
<1> QED BY <1>1, Inductive, PTL

(* The collector implements the abstract ledger: each step carries, books  *)
(* or taints, or changes nothing the ledger sees.                          *)
THEOREM RefinesLedger == Spec => ImplementsLedger
<1>1. Init => L!LedgerInit
  BY DEF Init, L!LedgerInit, NoRows, Zero, Tables, TableOrder
<1>2. IInv /\ IInv' /\ [Next]_vars => [L!LedgerNext]_(L!ledgerVars)
  <2> SUFFICES ASSUME IInv, IInv', [Next]_vars
               PROVE  [L!LedgerNext]_(L!ledgerVars)
    OBVIOUS
  <2>s. "traffic_samples" \in Tables
    BY DEF Tables, TableOrder
  <2>t. \A a \in Accounts :
          /\ stored["traffic_samples"][a] \in Nat /\ stored'["traffic_samples"][a] \in Nat
          /\ deltas[a] \in Nat /\ actual[a] \in Nat /\ actual'[a] \in Nat
          /\ InFlight(a) \in Nat /\ InFlight(a)' \in Nat /\ Unread(a) \in Nat /\ Unread(a)' \in Nat
    BY <2>s, PositiveDeltaType DEF IInv, TypeOK, InFlight, Unread
  <2>1. CASE pc = "commit" /\ stored' = Applied /\ UNCHANGED <<actual, recounted>>
    <3>1. \A a \in Accounts :
            stored'["traffic_samples"][a] = stored["traffic_samples"][a] + deltas[a]
      BY <2>1, <2>s, CommitAddsDeltas DEF IInv
    <3>2. ASSUME ~recounted, NEW a \in Accounts
          PROVE  stored'["traffic_samples"][a] <= actual[a]
      <4>1. stored'["traffic_samples"][a] + InFlight(a)' + Unread(a)' <= actual'[a]
        BY <2>1, <2>s, <3>2 DEF IInv, Covered
      <4> QED BY <2>1, <2>t, <4>1
    <3>3. L!Book
      BY <2>1, <2>t, <3>1, <3>2 DEF L!Book
    <3> QED BY <3>3 DEF L!LedgerNext
  <2>2. CASE UNCHANGED <<stored, actual, recounted>>
    BY <2>2 DEF L!ledgerVars
  <2>3. CASE LoadRuleset
    <3>1. recounted' = (recounted \/ rules > 0) /\ UNCHANGED <<stored, actual>>
      BY <2>3 DEF LoadRuleset, database
    <3>2. recounted \in BOOLEAN /\ recounted' \in BOOLEAN
      BY DEF IInv, TypeOK
    <3>3. CASE recounted' = recounted
      BY <3>1, <3>3 DEF L!ledgerVars
    <3>4. CASE recounted' # recounted
      <4>1. recounted'
        BY <3>1, <3>2, <3>4, Zenon
      <4> QED BY <3>1, <4>1 DEF L!Taint, L!LedgerNext
    <3> QED BY <3>3, <3>4
  <2>4. CASE \E p \in Packets, n \in PacketSizes : Carry(p, n)
    <3>1. PICK p \in Packets, n \in PacketSizes : Carry(p, n)
      BY <2>4
    <3>2. /\ UNCHANGED <<stored, recounted>>
          /\ actual' = [a \in Accounts |-> actual[a] + (IF a \in Crossed(p) THEN n ELSE 0)]
      BY <3>1 DEF Carry, database
    <3>3. \A a \in Accounts : actual'[a] >= actual[a]
      BY <2>t, <3>2, SizesAssumption
    <3> QED BY <3>2, <3>3 DEF L!Carry, L!LedgerNext
  <2>5. \/ pc = "commit" /\ stored' = Applied /\ UNCHANGED <<actual, recounted>>
        \/ UNCHANGED <<stored, actual, recounted>>
        \/ LoadRuleset
        \/ \E p \in Packets, n \in PacketSizes : Carry(p, n)
    BY StepKinds DEF Quiet, DeleteOldTable, ReadCounters, BeginTransaction,
       ExecStatement, Commit, CommitAnswerLost, WriteFails, Record, ResetCounters,
       FlushRuleset, Crash, database, history
  <2> QED BY <2>1, <2>2, <2>3, <2>4, <2>5
<1> QED BY <1>1, <1>2, Inductive, PTL DEF Spec, ImplementsLedger, L!LedgerSpec
(* The goroutine enters "halted" and "stopped" only together with setError,*)
(* and no handler touches the health state afterwards, so /healthz never   *)
(* claims accounting while nobody accounts (main.go:80-82, 146-152).       *)
THEOREM IdleIsAlwaysReported == Spec => []IdleIsReported
<1>1. Init => IdleIsReported
  BY DEF Init, IdleIsReported
<1>2. TypeOK /\ IdleIsReported /\ [Next]_vars => IdleIsReported'
  <2> SUFFICES ASSUME TypeOK, IdleIsReported, [Next]_vars, pc' \in {"halted", "stopped"}
               PROVE  health'.accounting = "unavailable" /\ health'.status = "degraded"
    BY DEF IdleIsReported
  <2> USE DEF IdleIsReported, memory, kernel, database, history
  <2>1. SetError => health'.accounting = "unavailable" /\ health'.status = "degraded"
    BY DEF SetError, TypeOK, HealthValues
  <2>2. CASE Start
    BY <2>2 DEF Start
  <2>3. CASE Boot
    BY <2>1, <2>3 DEF Boot, DetectHost, DetectHostFails, ConnectDatabase, ConnectDatabaseFails,
         SetupWithoutInterface, DeleteOldTable, DeleteOldTableFails, LoadRuleset,
         LoadRulesetFails, FallBackToConntrack, ConntrackUnavailable
  <2>4. CASE Tick
    BY <2>4 DEF Tick, ReadCounters, ReadMissingTable, ReadCountersFails, BeginTransaction,
         ExecStatement, Commit, CommitAnswerLost, WriteFails, GiveUp, Record
  <2>5. CASE Environment
    BY <2>5 DEF Environment, Carry, ResetCounters, FlushRuleset, Crash
  <2>6. CASE UNCHANGED vars
    BY <2>6 DEF vars
  <2> QED BY <2>2, <2>3, <2>4, <2>5, <2>6 DEF Next
<1> QED BY <1>1, <1>2, TypeCorrect, PTL DEF Spec

(* Whatever makes the collector let go of deltas that are not in the       *)
(* database (a failed statement, a COMMIT that was not applied, a crash),  *)
(* the same step withdraws the accounting claim on /healthz                *)
(* (main.go:133-136).                                                      *)
THEOREM DropsAreAlwaysReported == Spec => DroppedDeltasAreReported
<1>1. TypeOK /\ Rows /\ [Next]_vars =>
        ((\E a \in Accounts : InFlight(a) > 0) /\ stored' = stored
         /\ pc' \notin {"begin", "exec", "commit"} => health'.accounting = "unavailable")
  <2> SUFFICES ASSUME TypeOK, Rows, [Next]_vars, NEW a \in Accounts, InFlight(a) > 0,
                      stored' = stored, pc' \notin {"begin", "exec", "commit"}
               PROVE  health'.accounting = "unavailable"
    OBVIOUS
  <2>1. pc \in {"begin", "exec", "commit"} /\ deltas[a] > 0
    BY DEF InFlight
  <2>2. SetError => health'.accounting = "unavailable"
    BY DEF SetError, TypeOK, HealthValues
  <2>3. ~Commit
    <3> SUFFICES ASSUME Commit PROVE FALSE
      OBVIOUS
    <3>1. pc = "commit" /\ stored' = Applied
      BY DEF Commit
    <3>2. "traffic_samples" \in Tables
      BY DEF Tables, TableOrder
    <3>3. stored'["traffic_samples"][a] = stored["traffic_samples"][a] + deltas[a]
      BY <3>1, <3>2, CommitAddsDeltas
    <3>4. stored["traffic_samples"][a] \in Nat /\ deltas[a] \in Nat
      BY <3>2 DEF TypeOK
    <3> QED BY <2>1, <3>3, <3>4
  <2>4. CASE Quiet \/ DeleteOldTable \/ LoadRuleset \/ ReadCounters \/ BeginTransaction
             \/ ExecStatement \/ Record
    BY <2>1, <2>4 DEF Quiet, Polling, DeleteOldTable, LoadRuleset, ReadCounters,
       BeginTransaction, ExecStatement, Record
  <2>5. CASE CommitAnswerLost \/ WriteFails
    BY <2>2, <2>5 DEF CommitAnswerLost, WriteFails, GiveUp
  <2>6. CASE \E p \in Packets, n \in PacketSizes : Carry(p, n)
    BY <2>1, <2>6 DEF Carry
  <2>7. CASE ResetCounters \/ FlushRuleset
    BY <2>1, <2>7 DEF ResetCounters, FlushRuleset
  <2>8. CASE Crash
    BY <2>8 DEF Crash, StartingHealth
  <2> QED BY <2>3, <2>4, <2>5, <2>6, <2>7, <2>8, StepKinds
<1>2. IInv => TypeOK /\ Rows
  BY DEF IInv
<1> QED BY <1>1, <1>2, Inductive, PTL DEF Spec, DroppedDeltasAreReported
=============================================================================
