--------------------------- MODULE SchedulerProofs ---------------------------
(***************************************************************************)
(* The scheduler for every capacity and every number of tasks: its table   *)
(* is consistent after every operation, it implements the life cycle of    *)
(* module Tasks, and a ready task keeps its turn.  None of these is        *)
(* inductive alone: `current' names the one running record only because    *)
(* identities are never issued twice, and a record that is not blocked     *)
(* retains no wait.                                                        *)
(***************************************************************************)
EXTENDS Scheduler, TLAPS

\* Identities are issued once.
IdsUnique ==
    /\ \A i \in DOMAIN records : records[i].id < nextId
    /\ \A i, j \in DOMAIN records : records[i].id = records[j].id => i = j

\* Only a blocked task holds a wait registration.
WaitsRetained == \A i \in DOMAIN records : records[i].state # "Blocked" => records[i].wait = NoKey

IInv == RecordsExact /\ IdsUnique /\ WaitsRetained

-----------------------------------------------------------------------------
LEMMA Fields ==
  ASSUME TypeOK
  PROVE  /\ Len(records) \in Nat /\ DOMAIN records = 1 .. Len(records)
         /\ \A i \in DOMAIN records : records[i] \in TaskRecord /\ records[i].id \in TaskId
  <1>1. /\ Len(records) \in Nat /\ DOMAIN records = 1 .. Len(records)
        /\ \A i \in DOMAIN records : records[i] \in TaskRecord
    BY DEF TypeOK
  <1> QED BY <1>1, Zenon DEF TaskRecord

\* The search by identity finds the one record that has it.
LEMMA AtFinds ==
  ASSUME IInv, NEW id, Known(id)
  PROVE  /\ At(id) \in DOMAIN records
         /\ records[At(id)].id = id
         /\ \A i \in DOMAIN records : records[i].id = id => i = At(id)
  <1>1. \E i \in DOMAIN records : records[i].id = id
    BY Zenon DEF Known, Position
  <1>2. At(id) \in DOMAIN records /\ records[At(id)].id = id
    BY <1>1, Zenon DEF At
  <1> QED BY <1>2, Zenon DEF IInv, IdsUnique

LEMMA AtFindsNext ==
  ASSUME NEW id, Known(id)'
  PROVE  At(id)' \in DOMAIN records' /\ records'[At(id)'].id = id
  <1>1. \E i \in DOMAIN records' : records'[i].id = id
    BY Zenon DEF Known, Position
  <1>2. (CHOOSE i \in DOMAIN records' : records'[i].id = id) \in DOMAIN records'
        /\ records'[CHOOSE i \in DOMAIN records' : records'[i].id = id].id = id
    BY <1>1, Zenon
  <1> QED BY <1>2, Zenon DEF At

\* A transition of one record changes its state and wait and nothing else.
LEMMA BecomeChanges ==
  ASSUME IInv, NEW id, Known(id),
         NEW state \in Terminal \cup {"Ready", "Running", "Blocked"},
         NEW key \in WaitKey \cup {NoKey}, Become(id, state, key)
  PROVE  /\ records' \in Seq(TaskRecord)
         /\ Len(records') = Len(records) /\ DOMAIN records' = DOMAIN records
         /\ \A i \in DOMAIN records :
               /\ records'[i].id = records[i].id /\ records'[i].caps = records[i].caps
               /\ records'[i].stack = records[i].stack
               /\ records'[i].isolation = records[i].isolation
               /\ i # At(id) => records'[i] = records[i]
         /\ records'[At(id)].state = state /\ records'[At(id)].wait = key
  <1> USE DEF IInv, RecordsExact, TypeOK
  <1>1. At(id) \in DOMAIN records
    BY AtFinds, Zenon
  <1>2. records[At(id)] \in TaskRecord
    BY <1>1
  <1> DEFINE new == [records[At(id)] EXCEPT !.state = state, !.wait = key]
  <1>3. new \in TaskRecord /\ new.state = state /\ new.wait = key
        /\ new.id = records[At(id)].id /\ new.caps = records[At(id)].caps
        /\ new.stack = records[At(id)].stack /\ new.isolation = records[At(id)].isolation
    BY <1>2, Zenon DEF TaskRecord
  <1>4. records' = [records EXCEPT ![At(id)] = new]
    BY <1>1, Zenon DEF Become
  <1> HIDE DEF new
  <1>5. records' \in Seq(TaskRecord) /\ Len(records') = Len(records) /\ DOMAIN records' = DOMAIN records
    BY <1>1, <1>3, <1>4
  <1> QED BY <1>1, <1>3, <1>4, <1>5, Zenon

\* Removal keeps the other records, in their order.
LEMMA RemoveKeeps ==
  ASSUME IInv, NEW id, Known(id), RemoveRecord(id)
  PROVE  /\ records' \in Seq(TaskRecord)
         /\ Len(records') = Len(records) - 1 /\ DOMAIN records' = 1 .. Len(records) - 1
         /\ \A i \in DOMAIN records' :
               records'[i] = records[IF i < At(id) THEN i ELSE i + 1]
         /\ \A i \in DOMAIN records : i # At(id) =>
               \E j \in DOMAIN records' : records'[j] = records[i]
  <1> USE DEF IInv, RecordsExact, TypeOK, Count
  <1>1. At(id) \in DOMAIN records /\ DOMAIN records = 1 .. Len(records) /\ Len(records) \in Nat
    BY AtFinds
  <1>2. records' = [i \in 1 .. Len(records) - 1 |-> IF i < At(id) THEN records[i] ELSE records[i + 1]]
    BY Zenon DEF RemoveRecord
  <1>3. \A i \in 1 .. Len(records) - 1 : records'[i] \in TaskRecord
    BY <1>1, <1>2
  <1>4. records' \in Seq(TaskRecord) /\ Len(records') = Len(records) - 1
    BY <1>1, <1>2, <1>3
  <1>5. DOMAIN records' = 1 .. Len(records) - 1
    BY <1>2, Zenon
  <1>6. \A i \in DOMAIN records' : records'[i] = records[IF i < At(id) THEN i ELSE i + 1]
    BY <1>2, Zenon
  <1>7. ASSUME NEW i \in DOMAIN records, i # At(id)
        PROVE  \E j \in DOMAIN records' : records'[j] = records[i]
    <2>1. CASE i < At(id)
      BY <1>1, <1>2, <1>5, <2>1
    <2>2. CASE i > At(id)
      <3>1. i - 1 \in DOMAIN records' /\ ~ (i - 1 < At(id)) /\ i - 1 + 1 = i
        BY <1>1, <1>5, <2>2
      <3>2. records'[i - 1] = records[i]
        BY <1>2, <1>5, <3>1, Zenon
      <3> QED BY <3>1, <3>2, Zenon
    <2> QED BY <1>1, <1>7, <2>1, <2>2
  <1> QED BY <1>4, <1>5, <1>6, <1>7, Zenon

-----------------------------------------------------------------------------
\* A transition of one record keeps the invariant when `current' names the
\* record exactly if it now runs, and a wait is left only with a blocked one.
LEMMA BecomeKeepsIInv ==
  ASSUME IInv, NEW id \in TaskId, Known(id),
         NEW state \in Terminal \cup {"Ready", "Running", "Blocked"},
         NEW key \in WaitKey \cup {NoKey}, Become(id, state, key),
         state # "Blocked" => key = NoKey,
         current' \in TaskId \cup {NoTask},
         (state = "Running") <=> (current' = id),
         \A x \in TaskId \ {id} : (current' = x) <=> (current = x),
         cursor' \in Nat, cursor' < Count \/ cursor' = 0, UNCHANGED nextId
  PROVE  IInv'
  <1>1. /\ records' \in Seq(TaskRecord)
        /\ Len(records') = Len(records) /\ DOMAIN records' = DOMAIN records
        /\ \A i \in DOMAIN records :
              /\ records'[i].id = records[i].id
              /\ records'[i].stack = records[i].stack
              /\ records'[i].isolation = records[i].isolation
              /\ i # At(id) => records'[i] = records[i]
        /\ records'[At(id)].state = state /\ records'[At(id)].wait = key
    BY BecomeChanges
  <1>2. /\ At(id) \in DOMAIN records /\ records[At(id)].id = id
        /\ \A i \in DOMAIN records : records[i].id = id => i = At(id)
    BY AtFinds, Zenon
  <1>3. \A i \in DOMAIN records : records[i].id \in TaskId
    BY Fields, Zenon DEF IInv, RecordsExact
  <1>4. TypeOK'
    BY <1>1, Zenon DEF IInv, RecordsExact, TypeOK, Count
  <1>5. OneRunning'
    <2>1. ASSUME NEW i \in DOMAIN records
          PROVE  (records'[i].state = "Running") <=> (records'[i].id = current')
      <3>1. CASE i = At(id)
        BY <1>1, <1>2, <3>1, Zenon
      <3>2. CASE i # At(id)
        BY <1>1, <1>2, <1>3, <3>2 DEF IInv, RecordsExact, OneRunning
      <3> QED BY <3>1, <3>2, Zenon
    <2>2. ASSUME current' # NoTask
          PROVE  \E i \in DOMAIN records : records[i].id = current'
      <3>1. CASE current' = id
        BY <1>2, <3>1, Zenon
      <3>2. CASE current' # id
        BY <2>2, <3>2, SchedulerAssumption, Zenon DEF IInv, RecordsExact, OneRunning, Known, Position, TaskId
      <3> QED BY <3>1, <3>2, Zenon
    <2> QED BY <1>1, <2>1, <2>2, Zenon DEF OneRunning, Known, Position
  <1>6. SlotsExclusive'
    BY <1>1 DEF IInv, RecordsExact, SlotsExclusive
  <1>7. CursorInRange'
    BY <1>1, Zenon DEF IInv, RecordsExact, CursorInRange, Count
  <1>8. IdsUnique'
    BY <1>1, Zenon DEF IInv, IdsUnique
  <1>9. WaitsRetained'
    BY <1>1, Zenon DEF IInv, WaitsRetained
  <1> QED BY <1>4, <1>5, <1>6, <1>7, <1>8, <1>9, Zenon DEF IInv, RecordsExact

\* A dispatch is the transition of the selected record to Running.
LEMMA StartBecomes ==
  ASSUME IInv, current = NoTask, NEW i \in DOMAIN records, records[i].state = "Ready", Start(i)
  PROVE  /\ records[i].id \in TaskId /\ Known(records[i].id) /\ At(records[i].id) = i
         /\ Become(records[i].id, "Running", NoKey)
         /\ current' = records[i].id
  <1>1. records[i] \in TaskRecord /\ records[i].id \in TaskId /\ Known(records[i].id)
    BY Fields, Zenon DEF IInv, RecordsExact, Known, Position
  <1>2. At(records[i].id) = i
    BY <1>1, AtFinds, Zenon
  <1>3. records[i].wait = NoKey
    BY Zenon DEF IInv, WaitsRetained
  <1>4. [records[i] EXCEPT !.state = "Running"]
          = [records[i] EXCEPT !.state = "Running", !.wait = NoKey]
    BY <1>1, <1>3, Zenon DEF TaskRecord
  <1>5. records' = [records EXCEPT ![i] = [records[i] EXCEPT !.state = "Running", !.wait = NoKey]]
    BY <1>4, Zenon DEF Start
  <1>6. [records EXCEPT ![i].state = "Running", ![i].wait = NoKey]
          = [records EXCEPT ![i] = [records[i] EXCEPT !.state = "Running", !.wait = NoKey]]
    BY Zenon
  <1> QED BY <1>1, <1>2, <1>5, <1>6, Zenon DEF Start, Become

LEMMA StartKeepsIInv ==
  ASSUME IInv, current = NoTask, NEW i \in DOMAIN records, records[i].state = "Ready", Start(i)
  PROVE  IInv'
  <1>1. /\ records[i].id \in TaskId /\ Known(records[i].id)
        /\ Become(records[i].id, "Running", NoKey) /\ current' = records[i].id
    BY StartBecomes, Zenon
  <1>2. Len(records) \in Nat \ {0} /\ i \in Nat
    BY Fields DEF IInv, RecordsExact
  <1>3. cursor' \in Nat /\ cursor' < Count /\ nextId' = nextId
    BY <1>2 DEF Start, Count
  <1>4. \A x \in TaskId \ {records[i].id} : (current' = x) <=> (current = x)
    BY <1>1, SchedulerAssumption, Zenon DEF TaskId
  <1> QED BY <1>1, <1>3, <1>4, BecomeKeepsIInv, Zenon

\* A removed record takes nothing with it but itself, and the cursor stays on
\* the vector.
LEMMA RemoveKeepsIInv ==
  ASSUME IInv, NEW id \in TaskId, Known(id), RemoveRecord(id),
         current' = IF current = id THEN NoTask ELSE current, UNCHANGED nextId
  PROVE  IInv'
  <1> DEFINE old(i) == IF i < At(id) THEN i ELSE i + 1
  <1>1. /\ records' \in Seq(TaskRecord)
        /\ Len(records') = Len(records) - 1 /\ DOMAIN records' = 1 .. Len(records) - 1
        /\ \A i \in DOMAIN records' : records'[i] = records[old(i)]
        /\ \A i \in DOMAIN records : i # At(id) =>
              \E j \in DOMAIN records' : records'[j] = records[i]
    BY RemoveKeeps, Zenon
  <1>2. /\ At(id) \in DOMAIN records /\ records[At(id)].id = id
        /\ \A i \in DOMAIN records : records[i].id = id => i = At(id)
        /\ DOMAIN records = 1 .. Len(records) /\ Len(records) \in Nat
    BY AtFinds DEF IInv, RecordsExact, TypeOK
  <1>3. \A i, j \in DOMAIN records' :
           /\ old(i) \in DOMAIN records /\ old(i) # At(id)
           /\ old(i) = old(j) => i = j
    BY <1>1, <1>2
  <1> HIDE DEF old
  <1>4. cursor' \in Nat /\ (cursor' < Len(records) - 1 \/ cursor' = 0)
    BY <1>2 DEF IInv, RecordsExact, TypeOK, CursorInRange, RemoveRecord, Count
  <1>5. TypeOK'
    BY <1>1, <1>2, <1>4, SchedulerAssumption DEF IInv, RecordsExact, TypeOK, Count
  <1>6. OneRunning'
    <2>1. ASSUME NEW i \in DOMAIN records'
          PROVE  (records'[i].state = "Running") <=> (records'[i].id = current')
      <3>1. records'[i] = records[old(i)] /\ records[old(i)].id # id /\ records[old(i)].id \in TaskId
        BY <1>1, <1>2, <1>3, <2>1, Fields, Zenon DEF IInv, RecordsExact
      <3> QED BY <1>3, <3>1, SchedulerAssumption, Zenon DEF IInv, RecordsExact, OneRunning, TaskId
    <2>2. ASSUME current' # NoTask
          PROVE  \E j \in DOMAIN records' : records'[j].id = current'
      <3>1. current # id /\ current # NoTask /\ current' = current
        BY <2>2, Zenon
      <3>2. PICK i \in DOMAIN records : records[i].id = current
        BY <3>1, Zenon DEF IInv, RecordsExact, OneRunning, Known, Position
      <3> QED BY <1>1, <1>2, <3>1, <3>2, Zenon
    <2> QED BY <2>1, <2>2, Zenon DEF OneRunning, Known, Position
  <1>7. SlotsExclusive'
    <2>1. ASSUME NEW i \in DOMAIN records', NEW j \in DOMAIN records', i # j
          PROVE  /\ records'[i].stack # records'[j].stack
                 /\ records'[i].isolation # NoSlot => records'[i].isolation # records'[j].isolation
      <3>1. /\ old(i) \in DOMAIN records /\ old(j) \in DOMAIN records /\ old(i) # old(j)
            /\ records'[i] = records[old(i)] /\ records'[j] = records[old(j)]
        BY <1>1, <1>3, <2>1, Zenon
      <3> QED BY <3>1, Zenon DEF IInv, RecordsExact, SlotsExclusive
    <2> QED BY <2>1, Zenon DEF SlotsExclusive
  <1>8. CursorInRange'
    BY <1>1, <1>4, Zenon DEF CursorInRange, Count
  <1>9. IdsUnique'
    <2>1. ASSUME NEW i \in DOMAIN records', NEW j \in DOMAIN records'
          PROVE  /\ records'[i].id < nextId
                 /\ records'[i].id = records'[j].id => i = j
      <3>1. /\ old(i) \in DOMAIN records /\ old(j) \in DOMAIN records
            /\ records'[i] = records[old(i)] /\ records'[j] = records[old(j)]
            /\ old(i) = old(j) => i = j
        BY <1>1, <1>3, Zenon
      <3> QED BY <3>1, Zenon DEF IInv, IdsUnique
    <2> QED BY <2>1, Zenon DEF IdsUnique
  <1>10. WaitsRetained'
    BY <1>1, <1>3 DEF IInv, WaitsRetained
  <1> QED BY <1>5, <1>6, <1>7, <1>8, <1>9, <1>10, Zenon DEF IInv, RecordsExact

LEMMA InitIInv == Init => IInv
  <1> SUFFICES ASSUME Init PROVE IInv
    BY Zenon
  <1>1. records = <<>> /\ Len(records) = 0 /\ DOMAIN records = {}
    BY DEF Init
  <1> QED BY <1>1, SchedulerAssumption
          DEF Init, IInv, RecordsExact, TypeOK, OneRunning, SlotsExclusive, CursorInRange,
              IdsUnique, WaitsRetained, Count

\* A new record, at the end of the vector, with the next identity.
LEMMA SpawnChanges ==
  ASSUME IInv, NEW caps \in SUBSET Capability, NEW owned \in Resources,
         Spawn(caps, owned[1], owned[2])
  PROVE  /\ records' \in Seq(TaskRecord)
         /\ Len(records') = Len(records) + 1 /\ DOMAIN records' = 1 .. Len(records) + 1
         /\ \A i \in DOMAIN records : records'[i] = records[i]
         /\ records'[Len(records) + 1].id = nextId /\ nextId \in TaskId
         /\ records'[Len(records) + 1].state = "Ready"
         /\ records'[Len(records) + 1].wait = NoKey
         /\ records'[Len(records) + 1].stack = owned[1]
         /\ records'[Len(records) + 1].isolation = owned[2]
  <1> DEFINE new == [id |-> nextId, state |-> "Ready", caps |-> caps,
                     stack |-> owned[1], isolation |-> owned[2], wait |-> NoKey]
  <1>1. nextId \in TaskId
    BY SchedulerAssumption DEF Spawn, IInv, RecordsExact, TypeOK, TaskId
  <1>2. new \in TaskRecord /\ new.id = nextId /\ new.state = "Ready" /\ new.wait = NoKey
        /\ new.stack = owned[1] /\ new.isolation = owned[2]
    BY <1>1, Zenon DEF TaskRecord
  <1>3. records' = Append(records, new) /\ records \in Seq(TaskRecord)
    BY Zenon DEF Spawn, IInv, RecordsExact, TypeOK
  <1> HIDE DEF new
  <1>4. /\ records' \in Seq(TaskRecord)
        /\ Len(records') = Len(records) + 1 /\ DOMAIN records' = 1 .. Len(records) + 1
        /\ \A i \in DOMAIN records : records'[i] = records[i]
        /\ records'[Len(records) + 1] = new
    BY <1>2, <1>3
  <1> QED BY <1>1, <1>2, <1>4, Zenon

LEMMA SpawnKeepsIInv ==
  ASSUME IInv, NEW caps \in SUBSET Capability, NEW owned \in Resources,
         Spawn(caps, owned[1], owned[2])
  PROVE  IInv'
  <1> DEFINE last == Len(records) + 1
  <1>1. /\ records' \in Seq(TaskRecord)
        /\ Len(records') = last /\ DOMAIN records' = 1 .. last
        /\ \A i \in DOMAIN records : records'[i] = records[i]
        /\ records'[last].id = nextId /\ nextId \in TaskId
        /\ records'[last].state = "Ready"
        /\ records'[last].wait = NoKey
        /\ records'[last].stack = owned[1]
        /\ records'[last].isolation = owned[2]
    BY SpawnChanges, Zenon
  <1>2. /\ Len(records) \in Nat /\ DOMAIN records = 1 .. Len(records)
        /\ \A i \in DOMAIN records : records[i].id \in TaskId /\ records[i].id < nextId
    BY Fields, Zenon DEF IInv, RecordsExact, IdsUnique
  <1>3. \A i \in DOMAIN records' : i \in DOMAIN records \/ i = last
    BY <1>1, <1>2
  <1>4. /\ nextId' = nextId + 1 /\ cursor' = cursor /\ current' = current
        /\ Len(records) < Capacity
        /\ \A i \in DOMAIN records : records[i].stack # owned[1]
        /\ owned[2] # NoSlot => \A i \in DOMAIN records : records[i].isolation # owned[2]
    BY Zenon DEF Spawn, Count
  <1>5. nextId \in Nat /\ nextId <= MaxSpawned /\ last \in Nat /\ last \notin DOMAIN records
    BY <1>1, <1>2, SchedulerAssumption DEF TaskId
  <1>6. \A i \in DOMAIN records : i \in DOMAIN records' /\ i # last
    BY <1>1, <1>2
  <1> HIDE DEF last
  <1>7. TypeOK'
    <2>1. Len(records') <= Capacity
      BY <1>1, <1>2, <1>4, SchedulerAssumption DEF last
    <2> QED BY <1>1, <1>4, <1>5, <2>1, SchedulerAssumption DEF IInv, RecordsExact, TypeOK, Count
  <1>8. OneRunning'
    <2>1. current' # nextId
      <3>1. CASE current = NoTask
        BY <1>1, <1>4, <3>1, SchedulerAssumption, Zenon DEF TaskId
      <3>2. CASE current # NoTask
        <4>1. PICK i \in DOMAIN records : records[i].id = current
          BY <3>2, Zenon DEF IInv, RecordsExact, OneRunning, Known, Position
        <4> QED BY <1>2, <1>4, <1>5, <4>1 DEF TaskId
      <3> QED BY <3>1, <3>2, Zenon
    <2>2. \A i \in DOMAIN records' : (records'[i].state = "Running") <=> (records'[i].id = current')
      BY <1>1, <1>3, <1>4, <2>1 DEF IInv, RecordsExact, OneRunning
    <2>3. current' # NoTask => \E i \in DOMAIN records' : records'[i].id = current'
      BY <1>1, <1>4, <1>6 DEF IInv, RecordsExact, OneRunning, Known, Position
    <2> QED BY <2>2, <2>3, Zenon DEF OneRunning, Known, Position
  <1>9. SlotsExclusive'
    <2>1. ASSUME NEW i \in DOMAIN records', NEW j \in DOMAIN records', i # j
          PROVE  /\ records'[i].stack # records'[j].stack
                 /\ records'[i].isolation # NoSlot => records'[i].isolation # records'[j].isolation
      BY <1>1, <1>3, <1>4, <2>1 DEF IInv, RecordsExact, SlotsExclusive
    <2> QED BY <2>1, Zenon DEF SlotsExclusive
  <1>10. CursorInRange'
    BY <1>1, <1>2, <1>4 DEF IInv, RecordsExact, CursorInRange, TypeOK, Count, last
  <1>11. IdsUnique'
    <2>1. \A i \in DOMAIN records : records[i].id \in Nat /\ records[i].id < nextId
      BY <1>2 DEF TaskId
    <2>2. \A i \in DOMAIN records' : records'[i].id < nextId'
      BY <1>1, <1>3, <1>4, <1>5, <2>1
    <2>3. \A i, j \in DOMAIN records' : records'[i].id = records'[j].id => i = j
      BY <1>1, <1>3, <1>5, <2>1 DEF IInv, IdsUnique
    <2> QED BY <2>2, <2>3, Zenon DEF IdsUnique
  <1>12. WaitsRetained'
    BY <1>1, <1>3, Zenon DEF IInv, WaitsRetained
  <1> QED BY <1>7, <1>8, <1>9, <1>10, <1>11, <1>12, Zenon DEF IInv, RecordsExact

-----------------------------------------------------------------------------
\* What every operation on one existing record does: it takes the record
\* through one transition, or it removes it.
Moves(id, state, key) ==
    /\ Known(id) /\ Become(id, state, key)
    /\ UNCHANGED <<cursor, nextId>>

LEMMA LeaveKeepsIInv ==
  ASSUME IInv, NEW id \in TaskId, NEW state \in Terminal \cup {"Ready", "Blocked"},
         NEW key \in WaitKey \cup {NoKey}, Moves(id, state, key),
         state # "Blocked" => key = NoKey,
         \/ current = id /\ current' = NoTask
         \/ current # id /\ current' = current
  PROVE  IInv'
  <1>1. /\ current' \in TaskId \cup {NoTask} /\ current' # id
        /\ \A x \in TaskId \ {id} : (current' = x) <=> (current = x)
    BY SchedulerAssumption, Zenon DEF IInv, RecordsExact, TypeOK, TaskId
  <1>2. state # "Running" /\ state \in Terminal \cup {"Ready", "Running", "Blocked"}
    BY Zenon DEF Terminal
  <1>3. cursor' \in Nat /\ (cursor' < Count \/ cursor' = 0)
    BY Zenon DEF IInv, RecordsExact, TypeOK, CursorInRange, Moves
  <1> QED BY <1>1, <1>2, <1>3, BecomeKeepsIInv, Zenon DEF Moves

\* A record that does not run is not the current one.
LEMMA NotCurrent ==
  ASSUME IInv, NEW id, Known(id), State(id) # "Running"
  PROVE  current # id
  BY AtFinds, Zenon DEF State, IInv, RecordsExact, OneRunning

LEMMA StepIInv == IInv /\ [Next]_vars => IInv'
  <1> SUFFICES ASSUME IInv, [Next]_vars PROVE IInv'
    BY Zenon
  <1> USE DEF Terminal
  <1>1. CASE Admit
    BY <1>1, SpawnKeepsIInv, Zenon DEF Admit
  <1>2. ASSUME NEW required \in SUBSET Capability, DispatchNext(required) PROVE IInv'
    BY <1>2, StartKeepsIInv, Zenon DEF DispatchNext, Eligible
  <1>3. ASSUME NEW id \in TaskId, NEW required \in SUBSET Capability, Dispatch(id, required)
        PROVE  IInv'
    BY <1>3, StartKeepsIInv, Zenon DEF Dispatch, Eligible
  <1>4. ASSUME NEW id \in TaskId, Relinquish(id) PROVE IInv'
    <2>1. Moves(id, "Ready", NoKey) /\ current = id /\ current' = NoTask
      BY <1>4, Zenon DEF Relinquish, PreemptCurrent, YieldCurrent, Running, Moves
    <2> QED BY <2>1, LeaveKeepsIInv, Zenon
  <1>5. ASSUME NEW id \in TaskId, Finish(id) PROVE IInv'
    <2>1. CASE ExitCurrent(id) \/ FaultCurrent(id)
      <3>1. /\ Moves(id, "Exited", NoKey) \/ Moves(id, "Faulted", NoKey)
            /\ current = id /\ current' = NoTask
        BY <2>1, Zenon DEF ExitCurrent, FaultCurrent, Running, Moves
      <3> QED BY <3>1, LeaveKeepsIInv, Zenon
    <2>2. CASE CancelReady(id) \/ CancelBlocked(id) \/ FaultBlocked(id)
      <3>1. /\ Moves(id, "Exited", NoKey) \/ Moves(id, "Faulted", NoKey)
            /\ Known(id) /\ State(id) # "Running" /\ current' = current
        BY <2>2, Zenon DEF CancelReady, CancelBlocked, FaultBlocked, Moves
      <3> QED BY <3>1, NotCurrent, LeaveKeepsIInv, Zenon
    <2>3. CASE Reap(id)
      <3>1. Known(id) /\ State(id) # "Running" /\ RemoveRecord(id) /\ UNCHANGED <<current, nextId>>
        BY <2>3, Zenon DEF Reap
      <3>2. current # id
        BY <3>1, NotCurrent, Zenon
      <3> QED BY <3>1, <3>2, RemoveKeepsIInv, Zenon
    <2>4. ASSUME NEW revoked \in BOOLEAN, TerminateRevokeAndReap(id, revoked) PROVE IInv'
      <3>1. Known(id) /\ nextId' = nextId /\ current' = IF current = id THEN NoTask ELSE current
        BY <2>4, Zenon DEF TerminateRevokeAndReap
      <3>2. CASE revoked /\ RemoveRecord(id)
        BY <3>1, <3>2, RemoveKeepsIInv, Zenon
      <3>3. CASE State(id) \in Terminal /\ UNCHANGED <<records, cursor>>
        <4>1. UNCHANGED vars
          BY <3>1, <3>3, NotCurrent, Zenon DEF vars
        <4> QED BY <4>1 DEF vars, IInv, RecordsExact, TypeOK, OneRunning, SlotsExclusive,
                            CursorInRange, IdsUnique, WaitsRetained, Count, Known, Position
      <3>4. CASE Moves(id, "Exited", NoKey)
        BY <3>1, <3>4, LeaveKeepsIInv, Zenon
      <3> QED BY <2>4, <3>1, <3>2, <3>3, <3>4, Zenon DEF TerminateRevokeAndReap, Moves
    <2> QED BY <1>5, <2>1, <2>2, <2>3, <2>4, Zenon DEF Finish
  <1>6. ASSUME NEW id \in TaskId, WaitStep(id) PROVE IInv'
    <2>1. PICK key \in WaitKey : BlockCurrent(id, key) \/ WakeBlocked(id, key)
      BY <1>6, Zenon DEF WaitStep
    <2>2. CASE BlockCurrent(id, key)
      <3>1. Moves(id, "Blocked", key) /\ current = id /\ current' = NoTask
        BY <2>2, Zenon DEF BlockCurrent, Running, Moves
      <3> QED BY <3>1, LeaveKeepsIInv, Zenon
    <2>3. CASE WakeBlocked(id, key)
      <3>1. Moves(id, "Ready", NoKey) /\ State(id) # "Running" /\ current' = current
        BY <2>3, Zenon DEF WakeBlocked, Moves
      <3> QED BY <3>1, NotCurrent, LeaveKeepsIInv, Zenon DEF Moves
    <2> QED BY <2>1, <2>2, <2>3, Zenon
  <1>7. CASE UNCHANGED vars
    BY <1>7 DEF vars, IInv, RecordsExact, TypeOK, OneRunning, SlotsExclusive,
                CursorInRange, IdsUnique, WaitsRetained, Count, Known, Position
  <1> QED BY <1>1, <1>2, <1>3, <1>4, <1>5, <1>6, <1>7, Zenon DEF Next

\* The table of troe-task is consistent after every operation, for every capacity
\* and number of tasks: `current` names the one running record, no two records
\* own a stack or an address space together, and the cursor stays on the vector.
THEOREM TableExact == Spec => []RecordsExact
  <1>1. IInv => RecordsExact
    BY Zenon DEF IInv
  <1> QED BY <1>1, InitIInv, StepIInv, PTL DEF Spec

-----------------------------------------------------------------------------
LEMMA Chosen ==
  ASSUME NEW r, NEW id, NEW k \in DOMAIN r, r[k].id = id,
         \A i \in DOMAIN r : r[i].id = id => i = k
  PROVE  (CHOOSE i \in DOMAIN r : r[i].id = id) = k
  BY Zenon

\* The record a task of the table shows.
Shows(r) == [state |-> r.state, isolated |-> r.isolation # NoSlot, wait |-> r.wait]

Changed(r, state, key) == [r EXCEPT !.state = state, !.wait = key]

LEMMA ShownChange ==
  ASSUME NEW r, NEW s, NEW b, NEW w, NEW state, NEW key,
         r = [state |-> s, isolated |-> b, wait |-> w]
  PROVE  [state |-> state, isolated |-> b, wait |-> key]
           = Changed(r, state, key)
  <1> DEFINE R == [state : {s, state}, isolated : {b}, wait : {w, key}]
             new == [r EXCEPT !.state = state, !.wait = key]
  <1>1. r \in R /\ r.isolated = b
    BY Zenon
  <1>2. new \in R /\ new.state = state /\ new.isolated = r.isolated /\ new.wait = key
    BY <1>1, Zenon
  <1> HIDE DEF new
  <1>3. new = [state |-> state, isolated |-> b, wait |-> key]
    BY <1>1, <1>2, Zenon
  <1> QED BY <1>3, Zenon DEF new, Changed

LEMMA ViewIsRecord ==
  ASSUME IInv, NEW id, NEW k \in DOMAIN records, records[k].id = id
  PROVE  TaskView(id) = Shows(records[k])
  <1>1. At(id) = k /\ Known(id)
    BY Chosen, Zenon DEF At, Known, Position, IInv, IdsUnique
  <1> QED BY <1>1, Zenon DEF TaskView, Shows, State, Isolated

LEMMA ViewIsRecordNext ==
  ASSUME IInv', NEW id, NEW k \in DOMAIN records', records'[k].id = id
  PROVE  TaskView(id)' = Shows(records'[k])
  <1>1. \A i \in DOMAIN records' : records'[i].id = id => i = k
    BY Zenon DEF IInv, IdsUnique
  <1>2. (CHOOSE i \in DOMAIN records' : records'[i].id = id) = k
    BY <1>1, Chosen, Zenon
  <1>3. At(id)' = k /\ Known(id)'
    BY <1>2, Zenon DEF At, Known, Position
  <1> QED BY <1>3, Zenon DEF TaskView, Shows, State, Isolated

Table == [id \in TaskId |-> TaskView(id)]

\* A transition of one record is a transition of its entry in the abstract table.
LEMMA BecomeMapped ==
  ASSUME IInv, IInv', NEW id \in TaskId, Known(id),
         NEW state \in Terminal \cup {"Ready", "Running", "Blocked"},
         NEW key \in WaitKey \cup {NoKey}, Become(id, state, key), UNCHANGED nextId
  PROVE  Table' = [Table EXCEPT ![id].state = state, ![id].wait = key]
  <1>1. /\ Len(records') = Len(records) /\ DOMAIN records' = DOMAIN records
        /\ \A i \in DOMAIN records :
              /\ records'[i].id = records[i].id
              /\ records'[i].isolation = records[i].isolation
              /\ i # At(id) => records'[i] = records[i]
        /\ records'[At(id)].state = state /\ records'[At(id)].wait = key
    BY BecomeChanges
  <1>2. /\ At(id) \in DOMAIN records /\ records[At(id)].id = id
        /\ \A i \in DOMAIN records : records[i].id = id => i = At(id)
    BY AtFinds, Zenon
  <1>3. TaskView(id) = Shows(records[At(id)]) /\ TaskView(id)' = Shows(records'[At(id)])
    BY <1>1, <1>2, ViewIsRecord, ViewIsRecordNext
  <1>4. TaskView(id)' = Changed(TaskView(id), state, key)
    <2>1. Shows(records'[At(id)]) = Changed(Shows(records[At(id)]), state, key)
      <3> DEFINE b == records[At(id)].isolation # NoSlot
      <3>1. Shows(records'[At(id)]) = [state |-> state, isolated |-> b, wait |-> key]
        BY <1>1, <1>2, Zenon DEF Shows
      <3>2. Shows(records[At(id)])
              = [state |-> records[At(id)].state, isolated |-> b, wait |-> records[At(id)].wait]
        BY Zenon DEF Shows
      <3> HIDE DEF b
      <3> QED BY <3>1, <3>2, ShownChange
    <2> QED BY <1>3, <2>1, Zenon
  <1>5. ASSUME NEW x \in TaskId, x # id
        PROVE  TaskView(x)' = TaskView(x)
    <2>1. CASE Known(x)
      <3>1. PICK k \in DOMAIN records : records[k].id = x
        BY <2>1, Zenon DEF Known, Position
      <3>2. records'[k] = records[k] /\ k \in DOMAIN records'
        BY <1>1, <1>2, <1>5, <3>1, Zenon
      <3> QED BY <3>1, <3>2, ViewIsRecord, ViewIsRecordNext, Zenon
    <2>2. CASE ~Known(x)
      <3>1. ~Known(x)'
        BY <1>1, <2>2, Zenon DEF Known, Position
      <3> QED BY <2>2, <3>1, Zenon DEF TaskView
    <2> QED BY <2>1, <2>2, Zenon
  <1>6. Table' = [x \in TaskId |-> IF x = id THEN Changed(TaskView(id), state, key)
                                   ELSE TaskView(x)]
    BY <1>4, <1>5, Zenon DEF Table
  <1> QED BY <1>6, Zenon DEF Table, Changed

\* A removed record leaves a reaped identity behind.
LEMMA RemoveMapped ==
  ASSUME IInv, IInv', NEW id \in TaskId, Known(id), RemoveRecord(id), UNCHANGED nextId
  PROVE  Table' = [Table EXCEPT ![id] = [state |-> "Reaped", isolated |-> FALSE, wait |-> NoKey]]
  <1> DEFINE old(i) == IF i < At(id) THEN i ELSE i + 1
  <1>1. /\ Len(records') = Len(records) - 1 /\ DOMAIN records' = 1 .. Len(records) - 1
        /\ \A i \in DOMAIN records' : records'[i] = records[old(i)]
        /\ \A i \in DOMAIN records : i # At(id) =>
              \E j \in DOMAIN records' : records'[j] = records[i]
    BY RemoveKeeps, Zenon
  <1>2. /\ At(id) \in DOMAIN records /\ records[At(id)].id = id
        /\ \A i \in DOMAIN records : records[i].id = id => i = At(id)
        /\ DOMAIN records = 1 .. Len(records) /\ Len(records) \in Nat
    BY AtFinds, Fields, Zenon DEF IInv, RecordsExact
  <1>3. \A i \in DOMAIN records' : old(i) \in DOMAIN records /\ old(i) # At(id)
    BY <1>1, <1>2
  <1> HIDE DEF old
  <1>4. TaskView(id)' = [state |-> "Reaped", isolated |-> FALSE, wait |-> NoKey]
    <2>1. ~Known(id)'
      BY <1>1, <1>2, <1>3, Zenon DEF Known, Position
    <2>2. id < nextId
      BY <1>2, Zenon DEF IInv, IdsUnique
    <2> QED BY <2>1, <2>2, Zenon DEF TaskView
  <1>5. ASSUME NEW x \in TaskId, x # id
        PROVE  TaskView(x)' = TaskView(x)
    <2>1. CASE Known(x)
      <3>1. PICK k \in DOMAIN records : records[k].id = x
        BY <2>1, Zenon DEF Known, Position
      <3>2. PICK j \in DOMAIN records' : records'[j] = records[k]
        BY <1>1, <1>2, <1>5, <3>1, Zenon
      <3> QED BY <3>1, <3>2, ViewIsRecord, ViewIsRecordNext, Zenon
    <2>2. CASE ~Known(x)
      <3>1. ~Known(x)'
        BY <1>1, <1>3, <2>2 DEF Known, Position
      <3> QED BY <2>2, <3>1, Zenon DEF TaskView
    <2> QED BY <2>1, <2>2, Zenon
  <1> QED BY <1>4, <1>5, Zenon DEF Table

LEMMA SpawnMapped ==
  ASSUME IInv, IInv', NEW caps \in SUBSET Capability, NEW owned \in Resources,
         Spawn(caps, owned[1], owned[2])
  PROVE  /\ nextId \in TaskId /\ TaskView(nextId).state = "Unborn"
         /\ Table' = [Table EXCEPT ![nextId] =
                        [state |-> "Ready", isolated |-> owned[2] # NoSlot, wait |-> NoKey]]
  <1> DEFINE last == Len(records) + 1
  <1>1. /\ DOMAIN records' = 1 .. last
        /\ \A i \in DOMAIN records : records'[i] = records[i]
        /\ records'[last].id = nextId /\ nextId \in TaskId
        /\ records'[last].state = "Ready"
        /\ records'[last].wait = NoKey
        /\ records'[last].isolation = owned[2]
    BY SpawnChanges, Zenon
  <1>2. /\ Len(records) \in Nat /\ DOMAIN records = 1 .. Len(records)
        /\ \A i \in DOMAIN records : records[i].id \in TaskId /\ records[i].id < nextId
        /\ nextId' = nextId + 1
    BY Fields, Zenon DEF IInv, RecordsExact, IdsUnique, Spawn
  <1>3. last \in DOMAIN records' /\ \A i \in DOMAIN records' : i \in DOMAIN records \/ i = last
    BY <1>1, <1>2
  <1>4. \A i \in DOMAIN records : i \in DOMAIN records'
    BY <1>1, <1>2
  <1> HIDE DEF last
  <1>5. TaskView(nextId).state = "Unborn"
    <2>1. ~Known(nextId) /\ ~(nextId < nextId)
      BY <1>1, <1>2 DEF Known, Position, TaskId
    <2> QED BY <2>1, Zenon DEF TaskView
  <1>6. ASSUME NEW id \in TaskId, id = nextId
        PROVE  TaskView(id)' = [state |-> "Ready", isolated |-> owned[2] # NoSlot, wait |-> NoKey]
    BY <1>1, <1>3, <1>6, ViewIsRecordNext, Zenon DEF Shows
  <1>7. ASSUME NEW x \in TaskId, x # nextId
        PROVE  TaskView(x)' = TaskView(x)
    <2>1. CASE Known(x)
      <3>1. PICK k \in DOMAIN records : records[k].id = x
        BY <2>1, Zenon DEF Known, Position
      <3> QED BY <1>1, <1>4, <3>1, ViewIsRecord, ViewIsRecordNext
    <2>2. CASE ~Known(x)
      <3>1. ~Known(x)'
        BY <1>1, <1>3, <1>7, <2>2, Zenon DEF Known, Position
      <3>2. (x < nextId) <=> (x < nextId')
        BY <1>1, <1>2, <1>7, SchedulerAssumption DEF TaskId
      <3> QED BY <2>2, <3>1, <3>2, Zenon DEF TaskView
    <2> QED BY <2>1, <2>2, Zenon
  <1> QED BY <1>1, <1>5, <1>6, <1>7, Zenon DEF Table

-----------------------------------------------------------------------------
LEMMA InitMapped == Init => Abstract!TasksInit
  <1> SUFFICES ASSUME Init PROVE Abstract!TasksInit
    BY Zenon
  <1>1. \A id \in TaskId : ~Known(id) /\ ~(id < nextId)
    BY DEF Init, Known, Position, TaskId
  <1>2. \A id \in TaskId : TaskView(id) = [state |-> "Unborn", isolated |-> FALSE, wait |-> NoKey]
    BY <1>1, Zenon DEF TaskView
  <1> QED BY <1>2, Zenon DEF Init, Abstract!TasksInit, Abstract!NoRecord

\* What the abstract table shows of a task that has a record.
LEMMA KnownView ==
  ASSUME IInv, NEW id \in TaskId, Known(id)
  PROVE  /\ Table[id].state = State(id) /\ Table[id].wait = records[At(id)].wait
         /\ Table[id].isolated <=> Isolated(id)
         /\ State(id) \in Terminal \cup {"Ready", "Running", "Blocked"}
  <1>1. TaskView(id) = [state |-> State(id), isolated |-> Isolated(id), wait |-> records[At(id)].wait]
    BY Zenon DEF TaskView
  <1>2. Table[id] = TaskView(id)
    BY Zenon DEF Table
  <1>3. records[At(id)] \in TaskRecord
    BY AtFinds, Fields, Zenon DEF IInv, RecordsExact
  <1> QED BY <1>1, <1>2, <1>3 DEF TaskRecord, State

LEMMA StepMapped ==
  ASSUME IInv, IInv', [Next]_vars
  PROVE  [\E t \in TaskId : Abstract!TaskStep(t)]_(Abstract!taskVars)
  <1> USE DEF Terminal
  <1> DEFINE Step == \E t \in TaskId : Abstract!TaskStep(t)
  <1>1. CASE Admit
    <2>1. PICK caps \in SUBSET Capability, owned \in Resources : Spawn(caps, owned[1], owned[2])
      BY <1>1, Zenon DEF Admit
    <2>2. /\ nextId \in TaskId /\ Table[nextId].state = "Unborn"
          /\ Table' = [Table EXCEPT ![nextId] =
                        [state |-> "Ready", isolated |-> owned[2] # NoSlot, wait |-> NoKey]]
      BY <2>1, SpawnMapped, Zenon DEF Table
    <2>3. Abstract!Spawn(nextId, owned[2] # NoSlot)
      BY <2>1, <2>2, Zenon DEF Abstract!Spawn, Table, Spawn
    <2>4. (owned[2] # NoSlot) \in BOOLEAN
      BY Zenon
    <2> QED BY <2>2, <2>3, <2>4, Zenon DEF Abstract!TaskStep
  <1>2. ASSUME current = NoTask, NEW i \in DOMAIN records, records[i].state = "Ready", Start(i)
        PROVE  Step
    <2> DEFINE id == records[i].id
    <2>1. /\ id \in TaskId /\ Known(id) /\ At(id) = i /\ Become(id, "Running", NoKey)
          /\ current' = id /\ UNCHANGED nextId
      BY <1>2, StartBecomes, Zenon DEF Start
    <2>2. Table' = [Table EXCEPT ![id].state = "Running", ![id].wait = NoKey]
      BY <2>1, BecomeMapped
    <2>3. Table[id].state = "Ready"
      BY <1>2, <2>1, KnownView, Zenon DEF State
    <2> HIDE DEF id
    <2> QED BY <1>2, <2>1, <2>2, <2>3, Zenon DEF Abstract!TaskStep, Abstract!Dispatch, Abstract!SetState, Table
  <1>3. ASSUME NEW required \in SUBSET Capability, DispatchNext(required) PROVE Step
    BY <1>2, <1>3, Zenon DEF DispatchNext, Eligible
  <1>4. ASSUME NEW id \in TaskId, NEW required \in SUBSET Capability, Dispatch(id, required)
        PROVE  Step
    BY <1>2, <1>4, Zenon DEF Dispatch, Eligible
  <1>5. ASSUME NEW id \in TaskId, Relinquish(id) PROVE Step
    <2>1. Known(id) /\ Become(id, "Ready", NoKey) /\ current = id /\ current' = NoTask /\ UNCHANGED nextId
      BY <1>5, Zenon DEF Relinquish, PreemptCurrent, YieldCurrent, Running
    <2>2. Table' = [Table EXCEPT ![id].state = "Ready", ![id].wait = NoKey]
      BY <2>1, BecomeMapped, Zenon
    <2> QED BY <2>1, <2>2, Zenon DEF Abstract!TaskStep, Abstract!Relinquish, Abstract!SetState, Table
  <1>6. ASSUME NEW id \in TaskId, Known(id), Become(id, "Exited", NoKey), current = id,
               current' = NoTask, UNCHANGED nextId
        PROVE  Step
    <2>1. Table' = [Table EXCEPT ![id].state = "Exited", ![id].wait = NoKey]
      BY <1>6, BecomeMapped, Zenon
    <2> QED BY <1>6, <2>1, Zenon DEF Abstract!TaskStep, Abstract!Exit, Abstract!SetState, Table
  <1>7. ASSUME NEW id \in TaskId, Known(id), Isolated(id), State(id) \in {"Ready", "Blocked"},
               Become(id, "Exited", NoKey), UNCHANGED <<current, nextId>>
        PROVE  Step
    <2>1. Table' = [Table EXCEPT ![id].state = "Exited", ![id].wait = NoKey]
      BY <1>7, BecomeMapped
    <2>2. Table[id].state \in {"Ready", "Blocked"} /\ Table[id].isolated
      BY <1>7, KnownView, Zenon
    <2> QED BY <1>7, <2>1, <2>2, Zenon
            DEF Abstract!TaskStep, Abstract!Cancel, Abstract!Isolated, Abstract!SetState, Table
  <1>8. ASSUME NEW id \in TaskId, Finish(id) PROVE Step \/ UNCHANGED vars
    <2>1. CASE ExitCurrent(id)
      BY <1>6, <2>1, Zenon DEF ExitCurrent, Running
    <2>2. CASE FaultCurrent(id)
      <3>1. /\ Known(id) /\ Isolated(id) /\ Become(id, "Faulted", NoKey)
            /\ current = id /\ current' = NoTask /\ UNCHANGED nextId
        BY <2>2, Zenon DEF FaultCurrent, Running
      <3>2. Table' = [Table EXCEPT ![id].state = "Faulted", ![id].wait = NoKey]
        BY <3>1, BecomeMapped, Zenon
      <3>3. Table[id].isolated
        BY <3>1, KnownView, Zenon
      <3> QED BY <3>1, <3>2, <3>3, Zenon
              DEF Abstract!TaskStep, Abstract!Fault, Abstract!Isolated, Abstract!SetState, Table
    <2>3. CASE CancelReady(id) \/ CancelBlocked(id)
      BY <1>7, <2>3, Zenon DEF CancelReady, CancelBlocked
    <2>4. CASE FaultBlocked(id)
      <3>1. /\ Known(id) /\ Isolated(id) /\ Become(id, "Faulted", NoKey)
            /\ State(id) = "Blocked" /\ UNCHANGED <<current, nextId>>
        BY <2>4, Zenon DEF FaultBlocked
      <3>2. Table' = [Table EXCEPT ![id].state = "Faulted", ![id].wait = NoKey]
        BY <3>1, BecomeMapped
      <3>3. Table[id].isolated /\ Table[id].state = "Blocked"
        BY <3>1, KnownView, Zenon
      <3> QED BY <3>1, <3>2, <3>3, Zenon
              DEF Abstract!TaskStep, Abstract!FaultBlocked, Abstract!Isolated, Abstract!SetState, Table
    <2>5. CASE Reap(id)
      <3>1. Known(id) /\ State(id) \in Terminal /\ RemoveRecord(id) /\ UNCHANGED <<current, nextId>>
        BY <2>5, Zenon DEF Reap
      <3>2. Table' = [Table EXCEPT ![id] = [state |-> "Reaped", isolated |-> FALSE, wait |-> NoKey]]
        BY <3>1, RemoveMapped, Zenon
      <3>3. Table[id].state \in Terminal
        BY <3>1, KnownView, Zenon
      <3> QED BY <3>1, <3>2, <3>3, Zenon
              DEF Abstract!TaskStep, Abstract!Reap, Abstract!NoRecord, Abstract!Terminal, Table
    <2>6. ASSUME NEW revoked \in BOOLEAN, TerminateRevokeAndReap(id, revoked)
          PROVE  Step \/ UNCHANGED vars
      <3>1. /\ Known(id) /\ Isolated(id) /\ nextId' = nextId
            /\ current' = IF current = id THEN NoTask ELSE current
        BY <2>6, Zenon DEF TerminateRevokeAndReap
      <3>2. /\ Table[id].state = State(id) /\ Table[id].isolated
            /\ State(id) \in Terminal \cup {"Ready", "Running", "Blocked"}
        BY <3>1, KnownView, Zenon
      <3>3. CASE revoked /\ RemoveRecord(id)
        <4>1. Table' = [Table EXCEPT ![id] = [state |-> "Reaped", isolated |-> FALSE, wait |-> NoKey]]
          BY <3>1, <3>3, RemoveMapped, Zenon
        <4> QED BY <3>1, <3>2, <4>1, Zenon
                DEF Abstract!TaskStep, Abstract!Terminate, Abstract!NoRecord, Abstract!Isolated,
                    Abstract!Live, Abstract!Terminal, Table
      <3>4. CASE State(id) \in Terminal /\ UNCHANGED <<records, cursor>>
        BY <3>1, <3>4, NotCurrent, Zenon DEF vars
      <3>5. CASE State(id) \notin Terminal /\ Become(id, "Exited", NoKey)
        <4>1. CASE current = id
          BY <1>6, <3>1, <3>5, <4>1, Zenon
        <4>2. CASE current # id
          <5>1. State(id) # "Running"
            BY <3>1, <4>2, AtFinds, Zenon DEF State, IInv, RecordsExact, OneRunning
          <5> QED BY <1>7, <3>1, <3>2, <3>5, <4>2, <5>1, Zenon
        <4> QED BY <4>1, <4>2, Zenon
      <3> QED BY <2>6, <3>3, <3>4, <3>5, Zenon DEF TerminateRevokeAndReap
    <2> QED BY <1>8, <2>1, <2>2, <2>3, <2>4, <2>5, <2>6, Zenon DEF Finish
  <1>9. ASSUME NEW id \in TaskId, WaitStep(id) PROVE Step
    <2>1. PICK key \in WaitKey : BlockCurrent(id, key) \/ WakeBlocked(id, key)
      BY <1>9, Zenon DEF WaitStep
    <2>2. CASE BlockCurrent(id, key)
      <3>1. /\ Known(id) /\ Isolated(id) /\ Become(id, "Blocked", key)
            /\ current = id /\ current' = NoTask /\ UNCHANGED nextId
        BY <2>2, Zenon DEF BlockCurrent, Running
      <3>2. Table' = [Table EXCEPT ![id].state = "Blocked", ![id].wait = key]
        BY <3>1, BecomeMapped
      <3>3. Table[id].isolated
        BY <3>1, KnownView, Zenon
      <3> QED BY <3>1, <3>2, <3>3, Zenon DEF Abstract!TaskStep, Abstract!Block, Abstract!Isolated, Table
    <2>3. CASE WakeBlocked(id, key)
      <3>1. /\ Known(id) /\ State(id) = "Blocked" /\ records[At(id)].wait = key
            /\ Become(id, "Ready", NoKey) /\ UNCHANGED <<current, nextId>>
        BY <2>3, Zenon DEF WakeBlocked
      <3>2. Table' = [Table EXCEPT ![id].state = "Ready", ![id].wait = NoKey]
        BY <3>1, BecomeMapped
      <3>3. Table[id].state = "Blocked" /\ Table[id].wait = key
        BY <3>1, KnownView, Zenon
      <3> QED BY <3>1, <3>2, <3>3, Zenon DEF Abstract!TaskStep, Abstract!Wake, Abstract!SetState, Table
    <2> QED BY <2>1, <2>2, <2>3, Zenon
  <1>10. CASE UNCHANGED vars
    BY <1>10, Zenon DEF vars, Abstract!taskVars, TaskView, Known, Position, State, Isolated, At
  <1> QED BY <1>1, <1>3, <1>4, <1>5, <1>8, <1>9, <1>10, Zenon DEF Next

\* Every operation of troe-task's Scheduler is a step of the task life cycle the
\* kernel relies on, or changes nothing of it, for every capacity, set of
\* resources and number of tasks: no record is woken by another registration, is
\* reaped alive, runs beside another, or comes back once reaped.
THEOREM SchedulerImplementsTasks == Spec => ImplementsTasks
  <1>1. IInv /\ IInv' /\ [Next]_vars
          => [Abstract!taskVars' # Abstract!taskVars /\ \E t \in TaskId : Abstract!TaskStep(t)]_(Abstract!taskVars)
    BY StepMapped, Zenon
  <1> QED BY <1>1, InitMapped, InitIInv, StepIInv, PTL DEF Spec, ImplementsTasks, Abstract!TasksSpec

-----------------------------------------------------------------------------
(***************************************************************************)
(* The turn of a ready task: how far the search is from its record.        *)
(***************************************************************************)
Away(i, c, n) == (i - 1 + n - c) % n

LEMMA AwayIs ==
  ASSUME NEW n \in Nat \ {0}, NEW i \in 1 .. n, NEW c \in 0 .. n - 1
  PROVE  /\ Away(i, c, n) = IF i - 1 >= c THEN i - 1 - c ELSE i - 1 + n - c
         /\ Away(i, c, n) \in 0 .. n - 1
  BY SMTT(20) DEF Away

\* Behind the record that was nearest, every other record is nearer.
LEMMA AwayAfterStart ==
  ASSUME NEW n \in Nat \ {0}, NEW i \in 1 .. n, NEW j \in 1 .. n, i # j, NEW c \in 0 .. n - 1,
         Away(i, c, n) <= Away(j, c, n)
  PROVE  i % n \in 0 .. n - 1 /\ Away(j, i % n, n) < Away(j, c, n)
  <1> DEFINE d == i % n
  <1>1. d = (IF i = n THEN 0 ELSE i) /\ d \in 0 .. n - 1
    BY SMTT(20)
  <1> HIDE DEF d
  <1>2. Away(j, d, n) = IF j - 1 >= d THEN j - 1 - d ELSE j - 1 + n - d
    BY <1>1, AwayIs
  <1>3. /\ Away(i, c, n) = IF i - 1 >= c THEN i - 1 - c ELSE i - 1 + n - c
        /\ Away(j, c, n) = IF j - 1 >= c THEN j - 1 - c ELSE j - 1 + n - c
    BY AwayIs, SMTT(20)
  <1>4. d \in 0 .. n - 1 /\ Away(j, d, n) < Away(j, c, n)
    BY <1>1, <1>2, <1>3, SMTT(20)
  <1> QED BY <1>4 DEF d

\* The repaired cursor is not farther from any record that stays.
LEMMA AwayAfterRemove ==
  ASSUME NEW n \in Nat \ {0, 1}, NEW a \in 1 .. n, NEW j \in 1 .. n - 1, NEW c \in 0 .. n - 1,
         NEW d, d = IF a - 1 < c THEN c - 1 ELSE IF c >= n - 1 THEN 0 ELSE c
  PROVE  Away(j, d, n - 1) <= Away(IF j < a THEN j ELSE j + 1, c, n)
  <1> DEFINE k == IF j < a THEN j ELSE j + 1
  <1>1. k \in 1 .. n /\ n - 1 \in Nat \ {0} /\ d \in 0 .. (n - 1) - 1
    OBVIOUS
  <1>2. k = IF j < a THEN j ELSE j + 1
    OBVIOUS
  <1> HIDE DEF k
  <1>3. Away(k, c, n) = IF k - 1 >= c THEN k - 1 - c ELSE k - 1 + n - c
    BY <1>1, AwayIs
  <1>4. Away(j, d, n - 1) = IF j - 1 >= d THEN j - 1 - d ELSE j - 1 + (n - 1) - d
    BY <1>1, AwayIs
  <1>5. Away(j, d, n - 1) <= Away(k, c, n)
    BY <1>1, <1>2, <1>3, <1>4, SMTT(20)
  <1> QED BY <1>5 DEF k

LEMMA AheadIs ==
  ASSUME IInv, NEW id, Known(id)
  PROVE  /\ Len(records) \in Nat \ {0} /\ DOMAIN records = 1 .. Len(records)
         /\ At(id) \in 1 .. Len(records) /\ records[At(id)].id = id
         /\ cursor \in 0 .. Len(records) - 1
         /\ Ahead(id) = Away(At(id), cursor, Len(records))
  <1>1. At(id) \in DOMAIN records /\ records[At(id)].id = id
    BY AtFinds, Zenon
  <1>2. DOMAIN records = 1 .. Len(records) /\ Len(records) \in Nat
    BY Fields DEF IInv, RecordsExact
  <1>3. Len(records) \in Nat \ {0} /\ cursor \in 0 .. Len(records) - 1
    BY <1>1, <1>2 DEF IInv, RecordsExact, TypeOK, CursorInRange, Count
  <1> QED BY <1>1, <1>2, <1>3, Zenon DEF Ahead, Offset, Away, Count

LEMMA AheadNext ==
  ASSUME IInv', NEW id, NEW k \in DOMAIN records', records'[k].id = id
  PROVE  Ahead(id)' = Away(k, cursor', Len(records'))
  <1>1. \A i \in DOMAIN records' : records'[i].id = id => i = k
    BY Zenon DEF IInv, IdsUnique
  <1>2. (CHOOSE i \in DOMAIN records' : records'[i].id = id) = k
    BY <1>1, Chosen, Zenon
  <1> QED BY <1>2, Zenon DEF At, Ahead, Offset, Away, Count

LEMMA BecomeKeepsTurn ==
  ASSUME IInv, IInv', NEW x \in TaskId, Known(x),
         NEW state \in Terminal \cup {"Ready", "Running", "Blocked"},
         NEW key \in WaitKey \cup {NoKey}, Become(x, state, key), cursor' = cursor,
         NEW id \in TaskId, Known(id)
  PROVE  Ahead(id)' = Ahead(id)
  <1>1. At(id) \in DOMAIN records /\ records[At(id)].id = id
    BY AtFinds, Zenon
  <1>2. /\ Len(records') = Len(records) /\ DOMAIN records' = DOMAIN records
        /\ records'[At(id)].id = records[At(id)].id
    BY <1>1, BecomeChanges, Zenon
  <1>3. Ahead(id)' = Away(At(id), cursor', Len(records'))
    BY <1>1, <1>2, AheadNext, Zenon
  <1> QED BY <1>2, <1>3, AheadIs, Zenon

LEMMA StartKeepsTurn ==
  ASSUME IInv, IInv', current = NoTask, NEW i \in DOMAIN records, records[i].state = "Ready", Start(i),
         NEW id \in TaskId, Known(id), At(id) # i, Offset(i) <= Offset(At(id))
  PROVE  Ahead(id)' < Ahead(id)
  <1> DEFINE n == Len(records)
  <1>1. /\ n \in Nat \ {0} /\ DOMAIN records = 1 .. n /\ At(id) \in 1 .. n /\ records[At(id)].id = id
        /\ cursor \in 0 .. n - 1 /\ Ahead(id) = Away(At(id), cursor, n)
    BY AheadIs, Zenon
  <1>2. /\ Len(records') = n /\ DOMAIN records' = DOMAIN records
        /\ records'[At(id)].id = records[At(id)].id
    BY <1>1, StartBecomes, BecomeChanges, Zenon
  <1>3. Ahead(id)' = Away(At(id), i % n, n)
    <2>1. Ahead(id)' = Away(At(id), cursor', Len(records'))
      BY <1>1, <1>2, AheadNext, Zenon
    <2> QED BY <1>2, <2>1, Zenon DEF Start, Count
  <1>4. Away(i, cursor, n) <= Away(At(id), cursor, n)
    BY Zenon DEF Offset, Away, Count
  <1> HIDE DEF n
  <1> QED BY <1>1, <1>3, <1>4, AwayAfterStart

LEMMA RemoveKeepsTurn ==
  ASSUME IInv, IInv', NEW x \in TaskId, Known(x), RemoveRecord(x), NEW id \in TaskId, Known(id)'
  PROVE  Ahead(id)' <= Ahead(id)
  <1> DEFINE n == Len(records)
             a == At(x)
  <1>1. /\ n \in Nat \ {0} /\ DOMAIN records = 1 .. n /\ a \in 1 .. n /\ cursor \in 0 .. n - 1
    BY AheadIs, Zenon
  <1>2. /\ Len(records') = n - 1 /\ DOMAIN records' = 1 .. n - 1
        /\ \A j \in DOMAIN records' : records'[j] = records[IF j < a THEN j ELSE j + 1]
    BY RemoveKeeps, Zenon
  <1>3. PICK j \in DOMAIN records' : records'[j].id = id
    BY Zenon DEF Known, Position
  <1> DEFINE k == IF j < a THEN j ELSE j + 1
  <1>4. k \in DOMAIN records /\ records[k].id = id /\ n # 1
    BY <1>1, <1>2, <1>3
  <1>5. Known(id) /\ At(id) = k
    <2>1. Known(id)
      BY <1>4, Zenon DEF Known, Position
    <2> QED BY <1>4, <2>1, AtFinds, Zenon
  <1>6. Ahead(id) = Away(k, cursor, n)
    BY <1>5, AheadIs, Zenon
  <1>7. Ahead(id)' = Away(j, cursor', n - 1)
    BY <1>2, <1>3, AheadNext, Zenon
  <1>8. cursor' = IF a - 1 < cursor THEN cursor - 1 ELSE IF cursor >= n - 1 THEN 0 ELSE cursor
    BY <1>4, Zenon DEF RemoveRecord, Count
  <1>9. n \in Nat \ {0, 1} /\ j \in 1 .. n - 1
    BY <1>1, <1>2, <1>4
  <1>10. Away(j, cursor', n - 1) <= Away(k, cursor, n)
    <2> HIDE DEF n, a
    <2> QED BY <1>1, <1>8, <1>9, AwayAfterRemove
  <1> QED BY <1>6, <1>7, <1>10, Zenon

\* A step that starts no task and admits none.
LEMMA RestKeepsTurn ==
  ASSUME IInv, IInv', Next, NEW id \in TaskId, Waiting(id), Waiting(id)',
         current' \in {current, NoTask}, Count' <= Count
  PROVE  Ahead(id)' <= Ahead(id)
  <1> USE DEF Terminal
  <1>0. Known(id) /\ Known(id)' /\ Ahead(id) <= Ahead(id)
    <2>1. Known(id) /\ Known(id)'
      BY Zenon DEF Waiting
    <2>2. Ahead(id) \in 0 .. Len(records) - 1
      BY <2>1, AheadIs, AwayIs
    <2> QED BY <2>1, <2>2
  <1>1. ASSUME NEW x \in TaskId, Known(x), cursor' = cursor,
               NEW state \in Terminal \cup {"Ready", "Running", "Blocked"},
               NEW key \in WaitKey \cup {NoKey}, Become(x, state, key)
        PROVE  Ahead(id)' <= Ahead(id)
    BY <1>0, <1>1, BecomeKeepsTurn, Zenon
  <1>2. ~ Admit
    <2>1. ASSUME NEW caps \in SUBSET Capability, NEW owned \in Resources, Spawn(caps, owned[1], owned[2])
          PROVE  FALSE
      <3>1. Len(records') = Len(records) + 1 /\ Len(records) \in Nat
        BY <2>1 DEF Spawn, IInv, RecordsExact, TypeOK
      <3> QED BY <3>1 DEF Count
    <2> QED BY <2>1, Zenon DEF Admit
  <1>3. ASSUME NEW i \in DOMAIN records, current = NoTask, records[i].state = "Ready", Start(i) PROVE FALSE
    BY <1>3, StartBecomes, SchedulerAssumption, Zenon DEF TaskId
  <1>4. ASSUME NEW required \in SUBSET Capability, DispatchNext(required) PROVE FALSE
    BY <1>3, <1>4, Zenon DEF DispatchNext, Eligible
  <1>5. ASSUME NEW x \in TaskId, NEW required \in SUBSET Capability, Dispatch(x, required) PROVE FALSE
    BY <1>3, <1>5, Zenon DEF Dispatch, Eligible
  <1>6. ASSUME NEW x \in TaskId, Relinquish(x) PROVE Ahead(id)' <= Ahead(id)
    BY <1>1, <1>6, Zenon DEF Relinquish, PreemptCurrent, YieldCurrent, Running
  <1>7. ASSUME NEW x \in TaskId, Finish(x) PROVE Ahead(id)' <= Ahead(id)
    <2>1. CASE ExitCurrent(x) \/ FaultCurrent(x)
      BY <1>1, <2>1, Zenon DEF ExitCurrent, FaultCurrent, Running
    <2>2. CASE CancelReady(x) \/ CancelBlocked(x) \/ FaultBlocked(x)
      BY <1>1, <2>2, Zenon DEF CancelReady, CancelBlocked, FaultBlocked
    <2>3. CASE Reap(x)
      BY <1>0, <2>3, RemoveKeepsTurn, Zenon DEF Reap
    <2>4. ASSUME NEW revoked \in BOOLEAN, TerminateRevokeAndReap(x, revoked) PROVE Ahead(id)' <= Ahead(id)
      <3>1. CASE RemoveRecord(x)
        BY <1>0, <2>4, <3>1, RemoveKeepsTurn, Zenon DEF TerminateRevokeAndReap
      <3>2. CASE UNCHANGED <<records, cursor>>
        <4>1. Ahead(id)' = Ahead(id)
          BY <3>2, Zenon DEF Ahead, Offset, At, Count
        <4> QED BY <1>0, <4>1, Zenon
      <3>3. CASE Become(x, "Exited", NoKey) /\ UNCHANGED cursor
        BY <1>1, <2>4, <3>3, Zenon DEF TerminateRevokeAndReap
      <3> QED BY <2>4, <3>1, <3>2, <3>3, Zenon DEF TerminateRevokeAndReap
    <2> QED BY <1>7, <2>1, <2>2, <2>3, <2>4, Zenon DEF Finish
  <1>8. ASSUME NEW x \in TaskId, WaitStep(x) PROVE Ahead(id)' <= Ahead(id)
    BY <1>1, <1>8, Zenon DEF WaitStep, BlockCurrent, WakeBlocked, Running
  <1> QED BY <1>2, <1>4, <1>5, <1>6, <1>7, <1>8, Zenon DEF Next

\* A search that could have taken the task.
LEMMA SearchKeepsTurn ==
  ASSUME IInv, IInv', NEW id \in TaskId, Waiting(id), Waiting(id)',
         NEW required, DispatchNext(required), required \subseteq records[At(id)].caps
  PROVE  Ahead(id)' < Ahead(id)
  <1>1. Known(id) /\ State(id) = "Ready" /\ Known(id)' /\ State(id)' = "Ready"
    BY Zenon DEF Waiting
  <1>2. At(id) \in Eligible(required) /\ records[At(id)].id = id
    BY <1>1, AtFinds, Zenon DEF Eligible, State
  <1>3. PICK i \in Eligible(required) :
           (\A j \in Eligible(required) : Offset(i) <= Offset(j)) /\ Start(i)
    BY Zenon DEF DispatchNext
  <1>4. current = NoTask /\ i \in DOMAIN records /\ records[i].state = "Ready"
    BY <1>3, Zenon DEF DispatchNext, Eligible
  <1>5. At(id) # i
    <2>1. SUFFICES ASSUME At(id) = i PROVE FALSE
      OBVIOUS
    <2>2. current' = id
      BY <1>2, <1>3, <2>1, Zenon DEF Start
    <2>3. At(id)' \in DOMAIN records' /\ records'[At(id)'].id = id
      BY <1>1, AtFindsNext, Zenon
    <2>4. records'[At(id)'].state = "Running"
      BY <2>2, <2>3, Zenon DEF IInv, RecordsExact, OneRunning
    <2> QED BY <1>1, <2>4, Zenon DEF State
  <1>6. Offset(i) <= Offset(At(id))
    BY <1>2, <1>3, Zenon
  <1> QED BY <1>1, <1>3, <1>4, <1>5, <1>6, StartKeepsTurn, Zenon

\* A ready task is passed over less often than there are records, for every
\* capacity and number of tasks: each search that could have taken it brings the
\* cursor nearer, and neither a removal nor any step of another task puts it back.
THEOREM TurnKept == Spec => KeepsItsTurn
  <1> DEFINE Turn ==
        \A id \in TaskId : Waiting(id) /\ Waiting(id)' =>
          /\ \A required \in SUBSET Capability :
                DispatchNext(required) /\ required \subseteq records[At(id)].caps => Ahead(id)' < Ahead(id)
          /\ current' \in {current, NoTask} /\ Count' <= Count => Ahead(id)' <= Ahead(id)
  <1>1. IInv /\ IInv' /\ [Next]_vars => [Turn]_vars
    BY RestKeepsTurn, SearchKeepsTurn, Zenon
  <1> QED BY <1>1, InitIInv, StepIInv, PTL DEF Spec, KeepsItsTurn
=============================================================================
