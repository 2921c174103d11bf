---------------------------------- MODULE Tasks ----------------------------------
(***************************************************************************)
(* What the scheduler of troe-task promises to the code that composes it:  *)
(* the life of every task record, the single running task, and the exact   *)
(* wait a blocked task sleeps on.  The order of the records and the round-  *)
(* robin cursor are absent; module Scheduler has them and implements this   *)
(* specification.                                                           *)
(***************************************************************************)
CONSTANTS
    TaskId,   \* task identities; the scheduler issues each at most once
    WaitKey,  \* identities of published wait registrations
    NoTask,   \* `current: None`
    NoKey     \* a task that is not blocked

VARIABLES
    tasks,    \* the record of every identity
    current   \* the running task

taskVars == <<tasks, current>>

Live == {"Ready", "Running", "Blocked"}
Terminal == {"Exited", "Faulted"}

\* An identity with no record: not yet issued ("Unborn") or already reaped.
NoRecord(state) == [state |-> state, isolated |-> FALSE, wait |-> NoKey]

TasksInit ==
    /\ tasks = [t \in TaskId |-> NoRecord("Unborn")]
    /\ current = NoTask

SetState(t, s) == tasks' = [tasks EXCEPT ![t].state = s, ![t].wait = NoKey]

Isolated(t) == tasks[t].isolated

\* `spawn` and `spawn_isolated`.
Spawn(t, isolated) ==
    /\ tasks[t].state = "Unborn"
    /\ tasks' = [tasks EXCEPT ![t] = [state |-> "Ready", isolated |-> isolated, wait |-> NoKey]]
    /\ UNCHANGED current

\* `dispatch` and `dispatch_next`.
Dispatch(t) ==
    /\ current = NoTask
    /\ tasks[t].state = "Ready"
    /\ SetState(t, "Running")
    /\ current' = t

\* `yield_current` and `preempt_current`.
Relinquish(t) ==
    /\ current = t
    /\ SetState(t, "Ready")
    /\ current' = NoTask

\* `block_current`.
Block(t, key) ==
    /\ current = t
    /\ Isolated(t)
    /\ tasks' = [tasks EXCEPT ![t].state = "Blocked", ![t].wait = key]
    /\ current' = NoTask

\* `wake_blocked`: only the exact registration wakes the task.
Wake(t, key) ==
    /\ tasks[t].state = "Blocked"
    /\ tasks[t].wait = key
    /\ SetState(t, "Ready")
    /\ UNCHANGED current

\* `exit_current`.
Exit(t) ==
    /\ current = t
    /\ SetState(t, "Exited")
    /\ current' = NoTask

\* `fault_current`.
Fault(t) ==
    /\ current = t
    /\ Isolated(t)
    /\ SetState(t, "Faulted")
    /\ current' = NoTask

\* `cancel_ready` and `cancel_blocked`.
Cancel(t) ==
    /\ tasks[t].state \in {"Ready", "Blocked"}
    /\ Isolated(t)
    /\ SetState(t, "Exited")
    /\ UNCHANGED current

\* `fault_blocked`.
FaultBlocked(t) ==
    /\ tasks[t].state = "Blocked"
    /\ Isolated(t)
    /\ SetState(t, "Faulted")
    /\ UNCHANGED current

\* `reap`: only a terminal record leaves the table.
Reap(t) ==
    /\ tasks[t].state \in Terminal
    /\ tasks' = [tasks EXCEPT ![t] = NoRecord("Reaped")]
    /\ UNCHANGED current

\* `terminate_revoke_and_reap` when the revocation succeeds.
Terminate(t) ==
    /\ tasks[t].state \in Live \cup Terminal
    /\ Isolated(t)
    /\ tasks' = [tasks EXCEPT ![t] = NoRecord("Reaped")]
    /\ current' = IF current = t THEN NoTask ELSE current

TaskStep(t) ==
    \/ \E isolated \in BOOLEAN : Spawn(t, isolated)
    \/ Dispatch(t) \/ Relinquish(t) \/ Exit(t) \/ Fault(t)
    \/ Cancel(t) \/ FaultBlocked(t) \/ Reap(t) \/ Terminate(t)
    \/ \E key \in WaitKey : Block(t, key) \/ Wake(t, key)

\* A step that changes nothing is allowed as it is; saying so first spares the
\* search for the action it might have been.
TasksSpec == TasksInit /\ [][taskVars' # taskVars /\ \E t \in TaskId : TaskStep(t)]_taskVars
=============================================================================
