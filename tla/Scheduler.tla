-------------------------------- MODULE Scheduler --------------------------------
(***************************************************************************)
(* The bounded single-CPU round-robin scheduler of troe-task (lib.rs): a    *)
(* vector of task records, the cursor that the next search starts from, and *)
(* the identity of the running task.  Dispatch, yield and block counters    *)
(* are left out; their overflow checks only refuse a call.                  *)
(***************************************************************************)
EXTENDS Naturals, Sequences, FiniteSets

CONSTANTS
    Capacity,      \* immutable bound on the number of records
    Resources,     \* <<stack slot, address-space slot or NoSlot>> pairs tasks are spawned with
    Capability,    \* atoms of the capability bit set
    WaitKey,       \* wait registrations a task may block on
    MaxSpawned,    \* bound on the identities issued (next_id is a u32)
    NoSlot,        \* a task without an isolated address space
    NoKey,         \* a task that is not blocked
    NoTask         \* no task is running

ASSUME SchedulerAssumption ==
    Capacity \in Nat /\ MaxSpawned \in Nat /\ NoTask \notin 1 .. MaxSpawned

VARIABLES
    records,       \* Vec<TaskRecord>, in spawn order
    cursor,        \* zero-based index the next search starts from
    current,       \* identity of the running task
    nextId         \* next identity to issue

vars == <<records, cursor, current, nextId>>

TaskId == 1 .. MaxSpawned
Terminal == {"Exited", "Faulted"}
Count == Len(records)

Init ==
    /\ records = <<>>
    /\ cursor = 0
    /\ current = NoTask
    /\ nextId = 1

Position(id) == {i \in DOMAIN records : records[i].id = id}

At(id) == CHOOSE i \in DOMAIN records : records[i].id = id

Known(id) == Position(id) # {}

State(id) == records[At(id)].state

Isolated(id) == records[At(id)].isolation # NoSlot

\* Every transition of one record leaves the other records and the order alone.
Become(id, state, key) ==
    records' = [records EXCEPT ![At(id)].state = state, ![At(id)].wait = key]

\* spawn_with_isolation: a full table, a stack slot or an address-space slot in
\* use refuse the task.
Spawn(caps, stack, isolation) ==
    /\ Count < Capacity
    /\ \A i \in DOMAIN records : records[i].stack # stack
    /\ isolation # NoSlot => \A i \in DOMAIN records : records[i].isolation # isolation
    /\ nextId <= MaxSpawned
    /\ records' = Append(records, [id |-> nextId, state |-> "Ready", caps |-> caps,
                                   stack |-> stack, isolation |-> isolation, wait |-> NoKey])
    /\ nextId' = nextId + 1
    /\ UNCHANGED <<cursor, current>>

\* The selected record runs and the cursor moves just behind it.
Start(i) ==
    /\ records' = [records EXCEPT ![i].state = "Running"]
    /\ current' = records[i].id
    /\ cursor' = i % Count
    /\ UNCHANGED nextId

Eligible(required) ==
    {i \in DOMAIN records : records[i].state = "Ready" /\ required \subseteq records[i].caps}

\* Distance of a record from the cursor in the circular search.
Offset(i) == (i - 1 + Count - cursor) % Count

DispatchNext(required) ==
    /\ current = NoTask
    /\ \E i \in Eligible(required) :
          /\ \A j \in Eligible(required) : Offset(i) <= Offset(j)
          /\ Start(i)

Dispatch(id, required) ==
    /\ current = NoTask
    /\ \E i \in Position(id) \cap Eligible(required) : Start(i)

\* The checks that every operation on the running task makes.
Running(id) ==
    /\ current = id
    /\ Known(id)
    /\ State(id) = "Running"

YieldCurrent(id) ==
    /\ Running(id)
    /\ Become(id, "Ready", NoKey)
    /\ current' = NoTask
    /\ UNCHANGED <<cursor, nextId>>

PreemptCurrent(id) == YieldCurrent(id)

\* Mutant: a kernel task may be suspended like an isolated one.
BlockCurrentKernel(id, key) ==
    /\ Running(id)
    /\ Become(id, "Blocked", key)
    /\ current' = NoTask
    /\ UNCHANGED <<cursor, nextId>>

BlockCurrent(id, key) ==
    /\ Running(id)
    /\ Isolated(id)
    /\ Become(id, "Blocked", key)
    /\ current' = NoTask
    /\ UNCHANGED <<cursor, nextId>>

WakeBlocked(id, key) ==
    /\ Known(id)
    /\ State(id) = "Blocked"
    /\ records[At(id)].wait = key
    /\ Become(id, "Ready", NoKey)
    /\ UNCHANGED <<cursor, current, nextId>>

ExitCurrent(id) ==
    /\ Running(id)
    /\ Become(id, "Exited", NoKey)
    /\ current' = NoTask
    /\ UNCHANGED <<cursor, nextId>>

FaultCurrent(id) ==
    /\ Running(id)
    /\ Isolated(id)
    /\ Become(id, "Faulted", NoKey)
    /\ current' = NoTask
    /\ UNCHANGED <<cursor, nextId>>

CancelReady(id) ==
    /\ Known(id)
    /\ State(id) = "Ready"
    /\ Isolated(id)
    /\ Become(id, "Exited", NoKey)
    /\ UNCHANGED <<cursor, current, nextId>>

CancelBlocked(id) ==
    /\ Known(id)
    /\ State(id) = "Blocked"
    /\ Isolated(id)
    /\ Become(id, "Exited", NoKey)
    /\ UNCHANGED <<cursor, current, nextId>>

FaultBlocked(id) ==
    /\ Known(id)
    /\ State(id) = "Blocked"
    /\ Isolated(id)
    /\ Become(id, "Faulted", NoKey)
    /\ UNCHANGED <<cursor, current, nextId>>

\* Mutant: the cursor is only brought back into the vector.
RemoveRecordOnly(id) ==
    /\ records' = [i \in 1 .. Count - 1 |-> IF i < At(id) THEN records[i] ELSE records[i + 1]]
    /\ cursor' = IF cursor >= Count - 1 THEN 0 ELSE cursor

\* Vec::remove and the repair of the cursor at the end of `reap`.
RemoveRecord(id) ==
    /\ records' = [i \in 1 .. Count - 1 |-> IF i < At(id) THEN records[i] ELSE records[i + 1]]
    /\ cursor' = IF Count = 1 THEN 0
                 ELSE IF At(id) - 1 < cursor THEN cursor - 1
                 ELSE IF cursor >= Count - 1 THEN 0
                 ELSE cursor

Reap(id) ==
    /\ Known(id)
    /\ State(id) \in Terminal
    /\ RemoveRecord(id)
    /\ UNCHANGED <<current, nextId>>

\* terminate_revoke_and_reap: the record is made terminal, then the caller's
\* revocation runs; when it fails the terminal record stays.
TerminateRevokeAndReap(id, revoked) ==
    /\ Known(id)
    /\ Isolated(id)
    /\ \/ revoked /\ RemoveRecord(id)
       \/ /\ ~revoked
          /\ IF State(id) \in Terminal THEN UNCHANGED records ELSE Become(id, "Exited", NoKey)
          /\ UNCHANGED cursor
    /\ current' = IF current = id THEN NoTask ELSE current
    /\ UNCHANGED nextId

Admit ==
    \E caps \in SUBSET Capability, owned \in Resources : Spawn(caps, owned[1], owned[2])

Relinquish(id) == YieldCurrent(id) \/ PreemptCurrent(id)

Finish(id) ==
    \/ ExitCurrent(id) \/ FaultCurrent(id)
    \/ CancelReady(id) \/ CancelBlocked(id) \/ FaultBlocked(id)
    \/ Reap(id)
    \/ \E revoked \in BOOLEAN : TerminateRevokeAndReap(id, revoked)

WaitStep(id) == \E key \in WaitKey : BlockCurrent(id, key) \/ WakeBlocked(id, key)

Next ==
    \/ Admit
    \/ \E required \in SUBSET Capability : DispatchNext(required)
    \/ \E id \in TaskId, required \in SUBSET Capability : Dispatch(id, required)
    \/ \E id \in TaskId : Relinquish(id) \/ Finish(id) \/ WaitStep(id)

Spec == Init /\ [][Next]_vars

------------------------------------------------------------------------------
TaskRecord ==
    [id : TaskId, state : Terminal \cup {"Ready", "Running", "Blocked"},
     caps : SUBSET Capability, stack : {r[1] : r \in Resources},
     isolation : {r[2] : r \in Resources}, wait : WaitKey \cup {NoKey}]

TypeOK ==
    /\ records \in Seq(TaskRecord)
    /\ Count <= Capacity
    /\ cursor \in Nat
    /\ current \in TaskId \cup {NoTask}
    /\ nextId \in 1 .. MaxSpawned + 1

\* `current` names the one Running record and no other record runs: the struct's
\* claim that at most one record can be Running, over every teardown path.
OneRunning ==
    /\ current # NoTask => Known(current)
    /\ \A i \in DOMAIN records : (records[i].state = "Running") <=> (records[i].id = current)

\* No two records own the same stack or the same address space, whatever order
\* tasks are spawned, terminated and reaped in.
SlotsExclusive ==
    \A i, j \in DOMAIN records : i # j =>
        /\ records[i].stack # records[j].stack
        /\ records[i].isolation # NoSlot => records[i].isolation # records[j].isolation

\* The cursor is an index of the vector after every removal: `records[index]` of
\* the next search cannot leave the vector and no record is skipped unseen.
CursorInRange == cursor < Count \/ cursor = 0

\* The table is consistent after every operation.
RecordsExact == TypeOK /\ OneRunning /\ SlotsExclusive /\ CursorInRange

Waiting(id) == Known(id) /\ State(id) = "Ready"
Ahead(id) == Offset(At(id))

\* A ready task keeps its turn.  A search that could have taken it and takes
\* another one brings the cursor strictly nearer to it, so that it is passed over
\* less often than there are records; and of the steps that start no task only an
\* admission puts records between the cursor and it, whatever `reap` removes on
\* either side of the cursor.
KeepsItsTurn ==
    [][\A id \in TaskId : Waiting(id) /\ Waiting(id)' =>
          /\ \A required \in SUBSET Capability :
                DispatchNext(required) /\ required \subseteq records[At(id)].caps => Ahead(id)' < Ahead(id)
          /\ current' \in {current, NoTask} /\ Count' <= Count => Ahead(id)' <= Ahead(id)]_vars

\* The abstract task table that this scheduler implements.
TaskView(id) ==
    IF Known(id) THEN [state |-> State(id), isolated |-> Isolated(id), wait |-> records[At(id)].wait]
    ELSE [state |-> IF id < nextId THEN "Reaped" ELSE "Unborn", isolated |-> FALSE, wait |-> NoKey]

Abstract == INSTANCE Tasks WITH tasks <- [id \in TaskId |-> TaskView(id)]

\* Every scheduler operation is a step of the task life cycle that module
\* Tasks states and the rest of the kernel relies on.
ImplementsTasks == Abstract!TasksSpec
=============================================================================
