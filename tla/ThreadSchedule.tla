-------------------------- MODULE ThreadSchedule ---------------------------
(***************************************************************************)
(* Process-first dispatch of native threads (schedule.rs).  A Dispatch is  *)
(* one process turn: the composition holds it, the table remembers whose   *)
(* turn it is.  The clock enters a turn only as the milliseconds `left' to *)
(* its deadline: an observation lets any number of them pass, or finds the *)
(* counter behind the last one and spoils the turn.                        *)
(*                                                                         *)
(* `skipped' and `passed' count selections that preferred somebody else:   *)
(* of a process that was eligible, and of a thread that was ready.         *)
(***************************************************************************)
EXTENDS ThreadTable

CONSTANTS
    Milliseconds,  \* budget of a turn
    Steps,         \* work allowance of a turn
    MaxTurn        \* the bound u64::MAX on dispatch identities

ASSUME BudgetAssumption ==
    Milliseconds \in Nat \ {0} /\ Steps \in Nat \ {0} /\ MaxTurn \in Nat

VARIABLES
    processCursor,  \* process_cursor
    threadCursor,   \* thread_cursor of every process
    turnSeq,        \* dispatch_sequence
    turns,          \* Dispatch values held by the composition
    skipped, passed

scheduleVars == <<processCursor, threadCursor, turnSeq, turns, skipped, passed>>
turnVars == <<tableVars, scheduleVars>>

ScheduleInit ==
    /\ Init
    /\ processCursor = 0
    /\ threadCursor = [p \in Process |-> 0]
    /\ turnSeq = 0
    /\ turns = {}
    /\ skipped = [p \in Process |-> 0]
    /\ passed = [s \in Slots |-> 0]

Ready(p) == {s \in Owned(p) : thread[s].state = "Ready"}
Eligible == {p \in Process : Accepting(p) /\ Ready(p) # {}}

\* Slots between a cursor and an index, going round.
Distance(index, cursor, size) == (index + size - cursor) % size

\* Mutant: the process with the lowest slot goes first.
NearestLowest(p, cursor) == \A q \in Eligible : procs[p].slot <= procs[q].slot

\* select_dispatch_process
Nearest(p, cursor) ==
    \A q \in Eligible : Distance(procs[p].slot, cursor, ProcessCapacity)
                        <= Distance(procs[q].slot, cursor, ProcessCapacity)

\* begin_dispatch; without an eligible process it changes nothing.
BeginDispatch ==
    /\ active = NoTurn /\ ~ AnyRunning
    /\ turnSeq < MaxTurn
    /\ \E p \in Eligible :
          /\ Nearest(p, processCursor)
          /\ active' = [process |-> p, seq |-> turnSeq + 1]
          /\ turns' = turns \cup {[process |-> p, seq |-> turnSeq + 1, left |-> Milliseconds,
                                   steps |-> Steps, failed |-> FALSE]}
          /\ processCursor' = (procs[p].slot + 1) % ProcessCapacity
          /\ skipped' = [q \in Process |-> IF q \in Eligible \ {p} THEN skipped[q] + 1 ELSE 0]
    /\ turnSeq' = turnSeq + 1
    /\ UNCHANGED <<procs, thread, nextJoin, threadCursor, passed>>

\* Mutant: any turn of a live process is taken for the current one.
ValidTurnOfProcess(t) == active # NoTurn /\ Accepting(active.process) /\ ~ t.failed

\* validate_dispatch
ValidTurn(t) ==
    /\ active = [process |-> t.process, seq |-> t.seq]
    /\ Accepting(t.process)
    /\ ~ t.failed

\* dispatch_remaining
Remaining(t) == IF t.steps = 0 THEN 0 ELSE t.left

\* A turn after one clock observation.
Later(t) == {[t EXCEPT !.left = n] : n \in 0 .. t.left}
Replace(t, u) == turns' = (turns \ {t}) \cup {u}

\* Mutant: the cursor stays on the selected thread.
DispatchSiblingSticky(t) ==
    /\ ValidTurn(t) /\ ~ AnyRunning
    /\ \E u \in Later(t) : Replace(t, u) /\ Remaining(u) # 0
    /\ \E s \in Ready(t.process) :
          /\ \A r \in Ready(t.process) :
                Distance(s, threadCursor[t.process], ThreadCapacity)
                <= Distance(r, threadCursor[t.process], ThreadCapacity)
          /\ Dispatch(Id(s))
          /\ threadCursor' = [threadCursor EXCEPT ![t.process] = s]
          /\ passed' = [r \in Slots |-> IF r = s THEN 0 ELSE
                           IF r \in Ready(t.process) THEN passed[r] + 1 ELSE passed[r]]
    /\ UNCHANGED <<processCursor, turnSeq, skipped>>

\* dispatch_sibling: the next ready thread of the turn's process, round robin.
DispatchSibling(t) ==
    /\ ValidTurn(t) /\ ~ AnyRunning
    /\ \E u \in Later(t) : Replace(t, u) /\ Remaining(u) # 0
    /\ \E s \in Ready(t.process) :
          /\ \A r \in Ready(t.process) :
                Distance(s, threadCursor[t.process], ThreadCapacity)
                <= Distance(r, threadCursor[t.process], ThreadCapacity)
          /\ Dispatch(Id(s))
          /\ threadCursor' = [threadCursor EXCEPT ![t.process] = (s + 1) % ThreadCapacity]
          /\ passed' = [r \in Slots |-> IF r = s THEN 0 ELSE
                           IF r \in Ready(t.process) THEN passed[r] + 1 ELSE passed[r]]
    /\ UNCHANGED <<processCursor, turnSeq, skipped>>

\* charge_dispatch_step: one batch of work, if any of the turn is left.
ChargeDispatchStep(t) ==
    /\ ValidTurn(t)
    /\ \E s \in Owned(t.process) : thread[s].state = "Running"
    /\ \E u \in Later(t) :
          Replace(t, IF Remaining(u) = 0 THEN u ELSE [u EXCEPT !.steps = @ - 1])
    /\ UNCHANGED <<tableVars, processCursor, threadCursor, turnSeq, skipped, passed>>

FinishDispatch(t) ==
    /\ ValidTurn(t) /\ ~ AnyRunning
    /\ active' = NoTurn
    /\ turns' = turns \ {t}
    /\ UNCHANGED <<procs, thread, nextJoin, processCursor, threadCursor, turnSeq, skipped, passed>>

\* Any of the three finds the counter behind its last observation.
ClockRegressed(t) ==
    /\ ValidTurn(t)
    /\ Replace(t, [t EXCEPT !.failed = TRUE])
    /\ UNCHANGED <<tableVars, processCursor, threadCursor, turnSeq, skipped, passed>>

\* A new record starts in the process at cursor 0; its slot's count restarts.
Register(p) ==
    /\ RegisterProcess(p)
    /\ threadCursor' = [threadCursor EXCEPT ![p] = 0]
    /\ UNCHANGED <<processCursor, turnSeq, turns, skipped, passed>>

\* What the rest of the table does between selections; a thread that left
\* the rotation by its exit stays Exiting here.  A thread that stops being
\* ready is no longer passed over.
BetweenTurns ==
    /\ \/ \E p \in Process :
             \/ StopProcess(p)
             \/ \E pages \in Charges : PrepareInitial(p, pages)
       \/ \E id \in Ids :
             \/ \E pages \in Charges : PrepareWorker(id, pages)
             \/ Start(id) \/ YieldRunning(id) \/ Block(id)
             \/ \E seq \in 1 .. MaxSequence : Wake(id, seq)
             \/ BeginExit(id)
    /\ passed' = [s \in Slots |-> IF thread'[s].state = "Ready" THEN passed[s] ELSE 0]
    /\ UNCHANGED <<processCursor, threadCursor, turnSeq, turns, skipped>>

ScheduleNext ==
    \/ BeginDispatch
    \/ \E t \in turns :
          \/ DispatchSibling(t) \/ ChargeDispatchStep(t)
          \/ FinishDispatch(t) \/ ClockRegressed(t)
    \/ \E p \in Process : Register(p)
    \/ BetweenTurns

ScheduleSpec == ScheduleInit /\ [][ScheduleNext]_turnVars
-----------------------------------------------------------------------------
(***************************************************************************)
(* The turn the table waits for is held by somebody: exactly one Dispatch  *)
(* value closes it, and every other value belongs to a process that was    *)
(* stopped.  A lost or ambiguous turn would occupy the CPU for ever.       *)
(* Nothing runs outside the turn of its process.                           *)
(***************************************************************************)
TurnHeld ==
    /\ active # NoTurn => \E t \in turns : active = [process |-> t.process, seq |-> t.seq]
    /\ \A t, u \in turns : t.seq = u.seq => t = u
    /\ \A t \in turns : active = [process |-> t.process, seq |-> t.seq]
                        \/ procs[t.process].stopping \/ ~ Registered(t.process)
    /\ \A s \in Slots : thread[s].state = "Running" =>
          active # NoTurn /\ active.process = thread[s].process

(***************************************************************************)
(* Processes rotate: one that is eligible at every selection waits for at  *)
(* most one turn of each other process slot, however many threads the      *)
(* others create, wake or yield to.                                        *)
(***************************************************************************)
ProcessRotation == \A p \in Process : skipped[p] < ProcessCapacity

(***************************************************************************)
(* Siblings rotate: a thread that stays ready is passed over at most once  *)
(* for each other thread slot, across turns and creations.                 *)
(***************************************************************************)
SiblingRotation == \A s \in Slots : passed[s] < ThreadCapacity
=============================================================================
