---------------------------- MODULE ThreadTable ----------------------------
(***************************************************************************)
(* The native thread lifecycle of troe-task: one table of process slots    *)
(* and one of thread slots.  A vacant thread slot keeps the generation of  *)
(* its last lifetime, and a thread identity is a process, a slot and a     *)
(* generation, so that an identity never denotes a later lifetime.         *)
(*                                                                         *)
(* A failed operation changes nothing: a rejection is an action that is    *)
(* not enabled.  Operations take any identity, stale ones included, and    *)
(* are guarded by Retained the way `record' and `record_mut' guard them.   *)
(* Each admission brings a fresh resource reservation, as the composition  *)
(* supplies it, so reservations are not told apart.                        *)
(***************************************************************************)
EXTENDS Integers, FiniteSets, FiniteSetsExt

CONSTANTS
    Process,          \* process identities, never reused after removal
    ProcessCapacity,  \* process slots
    ThreadCapacity,   \* thread slots
    RecordQuota,      \* ThreadQuota.records of every process
    PageQuota,        \* ThreadQuota.pages of every process
    PageLimit,        \* pages charged by all processes together
    Charges,          \* page charges an admission may bring
    Results,          \* scalar completion results
    MaxGeneration,    \* the bound u32::MAX on a slot's generation
    MaxSequence,      \* the bound u64::MAX on a thread's operations
    MaxJoin           \* the bound u64::MAX on join claims

ASSUME CapacityAssumption ==
    /\ ProcessCapacity \in Nat \ {0}
    /\ ThreadCapacity \in Nat \ {0}
    /\ MaxGeneration \in Nat /\ MaxSequence \in Nat /\ MaxJoin \in Nat
ASSUME ChargesAssumption == Charges \subseteq Nat \ {0}
ASSUME ProcessAssumption == "none" \notin Process

VARIABLES
    procs,     \* process -> its slot and flags
    thread,    \* thread slot -> generation and record
    nextJoin,  \* identity of the next join claim
    active     \* active_dispatch: the process turn in progress

tableVars == <<procs, thread, nextJoin, active>>

Slots == 0 .. ThreadCapacity - 1
ProcessSlots == 0 .. ProcessCapacity - 1
NoSlot == ProcessCapacity

ThreadId == [process : Process, slot : Slots, gen : 1 .. MaxGeneration]
NoThread == [process |-> "none", slot |-> 0, gen |-> 0]
NoTurn == [process |-> "none", seq |-> 0]
NoClaim == [caller |-> NoThread, target |-> NoThread, seq |-> 0]

Live == {"Prepared", "Ready", "Running", "Blocked", "Exiting"}
Terminal == {"Completed", "Revoked"}

Empty(g) ==
    [gen |-> g, state |-> "Vacant", process |-> "none", creator |-> NoThread, pages |-> 0,
     stop |-> FALSE, detached |-> FALSE, released |-> FALSE, seq |-> 0, result |-> 0,
     joined |-> FALSE, incoming |-> NoClaim, outgoing |-> NoClaim,
     syncWait |-> FALSE, controlWait |-> FALSE, mutexes |-> 0]

Id(s) == [process |-> thread[s].process, slot |-> s, gen |-> thread[s].gen]
Retained(id) == thread[id.slot].state # "Vacant" /\ Id(id.slot) = id
Rec(id) == thread[id.slot]

Registered(p) == procs[p].slot # NoSlot
Accepting(p) == Registered(p) /\ ~ procs[p].stopping

Owned(p) == {s \in Slots : thread[s].state # "Vacant" /\ thread[s].process = p}
Unreleased(S) == {s \in S : thread[s].state # "Vacant" /\ ~ thread[s].released}
PagesOf(S) == MapThenSumSet(LAMBDA s : thread[s].pages, Unreleased(S))

Init ==
    /\ procs = [p \in Process |->
                  [slot |-> NoSlot, stopping |-> FALSE, initial |-> FALSE, removed |-> FALSE]]
    /\ thread = [s \in Slots |-> Empty(0)]
    /\ nextJoin = 1
    /\ active = NoTurn

FreeProcessSlots == {i \in ProcessSlots : \A p \in Process : procs[p].slot # i}

\* register_process: the first free process slot.
RegisterProcess(p) ==
    /\ ~ Registered(p) /\ ~ procs[p].removed
    /\ \E i \in FreeProcessSlots :
          /\ \A j \in FreeProcessSlots : i <= j
          /\ procs' = [procs EXCEPT ![p].slot = i]
    /\ UNCHANGED <<thread, nextJoin, active>>

FreeSlots == {s \in Slots : thread[s].state = "Vacant" /\ thread[s].gen < MaxGeneration}

\* Quota and limit checks, then the first vacant slot at its next generation.
Prepare(p, creator, pages) ==
    /\ Accepting(p)
    /\ Cardinality(Owned(p)) < RecordQuota
    /\ PagesOf(Owned(p)) + pages <= PageQuota
    /\ PagesOf(Slots) + pages <= PageLimit
    /\ \E s \in FreeSlots :
          /\ \A r \in FreeSlots : s <= r
          /\ thread' = [thread EXCEPT ![s] =
                [Empty(thread[s].gen + 1) EXCEPT
                    !.state = "Prepared", !.process = p, !.creator = creator,
                    !.pages = pages, !.detached = (creator = NoThread)]]

PrepareInitial(p, pages) ==
    /\ ~ procs[p].initial
    /\ Prepare(p, NoThread, pages)
    /\ procs' = [procs EXCEPT ![p].initial = TRUE]
    /\ UNCHANGED <<nextJoin, active>>

\* require_running: an unconsumed completion forbids a new operation.
RunningFree(id) ==
    /\ Retained(id)
    /\ Rec(id).state = "Running"
    /\ ~ Rec(id).syncWait /\ ~ Rec(id).controlWait

ValidRunning(id) == Accepting(id.process) /\ RunningFree(id)

PrepareWorker(creator, pages) ==
    /\ RunningFree(creator)
    /\ Prepare(creator.process, creator, pages)
    /\ UNCHANGED <<procs, nextJoin, active>>

Transition(id, from, to) ==
    /\ Retained(id)
    /\ Rec(id).state = from
    /\ thread' = [thread EXCEPT ![id.slot].state = to]

\* The initial thread is started by the launcher.
Start(id) ==
    /\ Accepting(id.process)
    /\ Transition(id, "Prepared", "Ready")
    /\ UNCHANGED <<procs, nextJoin, active>>

ValidChild(creator, target) ==
    /\ ValidRunning(creator)
    /\ Retained(target)
    /\ target.process = creator.process
    /\ Rec(target).creator = creator
    /\ Rec(target).state = "Prepared"
    /\ ~ Rec(target).released

StartWorker(creator, target) ==
    /\ ValidChild(creator, target)
    /\ Start(target)

AbortPrepared(id) ==
    /\ Transition(id, "Prepared", "Revoked")
    /\ procs' = IF Rec(id).creator = NoThread
                THEN [procs EXCEPT ![id.process].initial = FALSE] ELSE procs
    /\ UNCHANGED <<nextJoin, active>>

AbortWorker(creator, target) ==
    /\ ValidChild(creator, target)
    /\ AbortPrepared(target)

AnyRunning == \E s \in Slots : thread[s].state = "Running"

\* One context runs on the single CPU, of the process that holds the turn.
Dispatch(id) ==
    /\ Accepting(id.process)
    /\ active = NoTurn \/ active.process = id.process
    /\ ~ AnyRunning
    /\ Transition(id, "Ready", "Running")
    /\ UNCHANGED <<procs, nextJoin, active>>

YieldRunning(id) ==
    /\ Transition(id, "Running", "Ready")
    /\ UNCHANGED <<procs, nextJoin, active>>

\* block: the next operation generation of a running thread.
Blocked(th, id) == [th EXCEPT ![id.slot].seq = @ + 1, ![id.slot].state = "Blocked"]

Block(id) ==
    /\ RunningFree(id)
    /\ Rec(id).seq < MaxSequence
    /\ thread' = Blocked(thread, id)
    /\ UNCHANGED <<procs, nextJoin, active>>

\* wake: exactly the operation the thread is blocked on.
Wake(id, seq) ==
    /\ Retained(id)
    /\ ~ Rec(id).syncWait /\ ~ Rec(id).controlWait
    /\ Rec(id).state = "Blocked" /\ Rec(id).seq = seq
    /\ thread' = [thread EXCEPT ![id.slot].state = "Ready"]
    /\ UNCHANGED <<procs, nextJoin, active>>

RequestStop(id) ==
    /\ Retained(id)
    /\ thread' = [thread EXCEPT ![id.slot].stop = TRUE]
    /\ UNCHANGED <<procs, nextJoin, active>>

\* cancel_join: the claim leaves both records.
Unclaimed(th, claim) ==
    [th EXCEPT ![claim.caller.slot].outgoing = NoClaim,
               ![claim.target.slot].incoming = NoClaim]

ChildOf(id, s) == thread[s].creator = id /\ thread[s].state = "Prepared"

RevokeChildren(th, id) ==
    [s \in Slots |-> IF ChildOf(id, s) THEN [th[s] EXCEPT !.state = "Revoked"] ELSE th[s]]

\* The table after begin_exit: claim cancelled, thread Exiting, children revoked.
Exited(th, id) ==
    LET free == IF th[id.slot].outgoing = NoClaim THEN th
                ELSE Unclaimed(th, th[id.slot].outgoing)
    IN  RevokeChildren([free EXCEPT ![id.slot].state = "Exiting"], id)

BeginExit(id) ==
    /\ RunningFree(id)
    /\ Rec(id).mutexes = 0
    /\ thread' = Exited(thread, id)
    /\ UNCHANGED <<procs, nextJoin, active>>

Complete(id, result) ==
    /\ Retained(id)
    /\ Rec(id).state = "Exiting"
    /\ thread' = [thread EXCEPT ![id.slot].state = "Completed", ![id.slot].result = result]
    /\ UNCHANGED <<procs, nextJoin, active>>

\* validate_join: the target's only join right is still free.
ValidJoin(caller, target) ==
    /\ RunningFree(caller)
    /\ caller # target
    /\ caller.process = target.process
    /\ Rec(caller).outgoing = NoClaim
    /\ Retained(target)
    /\ ~ Rec(target).detached /\ ~ Rec(target).joined
    /\ Rec(target).incoming = NoClaim
    /\ Rec(target).state \notin {"Prepared", "Revoked"}

NewClaim(caller, target) == [caller |-> caller, target |-> target, seq |-> nextJoin]

Claimed(th, claim) ==
    [th EXCEPT ![claim.caller.slot].outgoing = claim, ![claim.target.slot].incoming = claim]

ClaimJoin(caller, target) ==
    /\ ValidJoin(caller, target)
    /\ nextJoin < MaxJoin
    /\ thread' = Claimed(thread, NewClaim(caller, target))
    /\ nextJoin' = nextJoin + 1
    /\ UNCHANGED <<procs, active>>

ValidClaim(claim) ==
    /\ Retained(claim.caller) /\ Rec(claim.caller).outgoing = claim
    /\ Retained(claim.target) /\ Rec(claim.target).incoming = claim

Joinable(id) == Rec(id).state = "Completed" /\ Rec(id).released

\* join_result: the claim is consumed with the result.
Joined(th, claim) == [Unclaimed(th, claim) EXCEPT ![claim.target.slot].joined = TRUE]

JoinResult(claim) ==
    /\ ValidClaim(claim)
    /\ Joinable(claim.target)
    /\ thread' = Joined(thread, claim)
    /\ UNCHANGED <<procs, nextJoin, active>>

CancelJoin(claim) ==
    /\ ValidClaim(claim)
    /\ thread' = Unclaimed(thread, claim)
    /\ UNCHANGED <<procs, nextJoin, active>>

\* Mutant: an admitted join does not keep the target joinable.
DetachClaimed(id) ==
    /\ Retained(id)
    /\ ~ Rec(id).detached /\ ~ Rec(id).joined
    /\ Rec(id).state # "Revoked"
    /\ thread' = [thread EXCEPT ![id.slot].detached = TRUE]
    /\ UNCHANGED <<procs, nextJoin, active>>

Detach(id) ==
    /\ Retained(id)
    /\ ~ Rec(id).detached /\ ~ Rec(id).joined /\ Rec(id).incoming = NoClaim
    /\ Rec(id).state # "Revoked"
    /\ thread' = [thread EXCEPT ![id.slot].detached = TRUE]
    /\ UNCHANGED <<procs, nextJoin, active>>

\* The table after stop_process.
Stopped(th, p) ==
    [s \in Slots |->
        IF th[s].state # "Vacant" /\ th[s].process = p
        THEN [th[s] EXCEPT !.state = "Revoked", !.stop = TRUE, !.controlWait = FALSE,
                           !.incoming = NoClaim, !.outgoing = NoClaim]
        ELSE th[s]]

StopProcess(p) ==
    /\ Registered(p)
    /\ procs' = [procs EXCEPT ![p].stopping = TRUE]
    /\ active' = IF active.process = p THEN NoTurn ELSE active
    /\ thread' = Stopped(thread, p)
    /\ UNCHANGED nextJoin

ReleaseResources(id) ==
    /\ Retained(id)
    /\ Rec(id).state \in Terminal
    /\ ~ Rec(id).released
    /\ ~ Rec(id).syncWait /\ ~ Rec(id).controlWait /\ Rec(id).mutexes = 0
    /\ thread' = [thread EXCEPT ![id.slot].released = TRUE]
    /\ UNCHANGED <<procs, nextJoin, active>>

Reapable(id) ==
    /\ Retained(id)
    /\ Rec(id).released
    /\ Rec(id).incoming = NoClaim /\ Rec(id).outgoing = NoClaim
    /\ \/ Rec(id).state = "Revoked"
       \/ Rec(id).state = "Completed" /\ (Rec(id).detached \/ Rec(id).joined)

Reap(id) ==
    /\ Reapable(id)
    /\ thread' = [thread EXCEPT ![id.slot] = Empty(Rec(id).gen)]
    /\ UNCHANGED <<procs, nextJoin, active>>

\* remove_process.  The code also refuses a process that is still registered with
\* the synchronization tables (ThreadSync has those): this allows more.
RemoveProcess(p) ==
    /\ Registered(p)
    /\ Owned(p) = {}
    /\ active.process # p
    /\ procs' = [procs EXCEPT ![p].slot = NoSlot, ![p].removed = TRUE]
    /\ UNCHANGED <<thread, nextJoin, active>>

Ids == {Id(s) : s \in {r \in Slots : thread[r].state # "Vacant"}}

Next ==
    \/ \E p \in Process :
          \/ RegisterProcess(p) \/ StopProcess(p) \/ RemoveProcess(p)
          \/ \E pages \in Charges : PrepareInitial(p, pages)
    \/ \E id \in Ids :
          \/ \E pages \in Charges : PrepareWorker(id, pages)
          \/ Start(id) \/ AbortPrepared(id)
          \/ Dispatch(id) \/ YieldRunning(id) \/ Block(id)
          \/ \E seq \in 1 .. MaxSequence : Wake(id, seq)
          \/ BeginExit(id)
          \/ \E result \in Results : Complete(id, result)
          \/ Detach(id) \/ ReleaseResources(id) \/ Reap(id)
    \/ \E caller, target \in Ids :
          \/ StartWorker(caller, target) \/ AbortWorker(caller, target)
          \/ ClaimJoin(caller, target)
    \/ \E s \in Slots : JoinResult(thread[s].outgoing) \/ CancelJoin(thread[s].outgoing)

Spec == Init /\ [][Next]_tableVars
-----------------------------------------------------------------------------
Claims(ids) == [caller : ids, target : ids, seq : 1 .. MaxJoin] \cup {NoClaim}

Record ==
    [gen : 0 .. MaxGeneration, state : Live \cup Terminal \cup {"Vacant"},
     process : Process \cup {"none"}, creator : ThreadId \cup {NoThread},
     pages : Charges \cup {0}, stop : BOOLEAN, detached : BOOLEAN, released : BOOLEAN,
     seq : 0 .. MaxSequence, result : Results \cup {0}, joined : BOOLEAN,
     incoming : Claims(ThreadId), outgoing : Claims(ThreadId),
     syncWait : BOOLEAN, controlWait : BOOLEAN, mutexes : Nat]

\* Process entries, thread records, the join sequence and the turn have the
\* shapes of thread.rs; a generation never passes its limit.
TypeOK ==
    /\ procs \in [Process -> [slot : ProcessSlots \cup {NoSlot}, stopping : BOOLEAN,
                              initial : BOOLEAN, removed : BOOLEAN]]
    /\ thread \in [Slots -> Record]
    /\ nextJoin \in 1 .. MaxJoin + 1
    /\ active \in [process : Process, seq : Nat] \cup {NoTurn}

(***************************************************************************)
(* At most one thread of all processes runs, and while a process holds a   *)
(* turn it is one of its threads.                                          *)
(***************************************************************************)
OneRunning ==
    \A s \in Slots : thread[s].state = "Running" =>
        /\ \A r \in Slots : thread[r].state = "Running" => r = s
        /\ active # NoTurn => active.process = thread[s].process

(***************************************************************************)
(* A join claim is held on both sides or on neither: the caller's claim is *)
(* the one its retained target carries, and the other way round.  Without  *)
(* it, begin_exit would fail half-way on a claim it cannot cancel.  The    *)
(* claimed target still has its result to give.                            *)
(***************************************************************************)
JoinPaired ==
    \A s \in Slots :
        LET out == thread[s].outgoing
            in == thread[s].incoming
        IN  /\ out # NoClaim =>
                 /\ out.caller = Id(s)
                 /\ thread[s].state \in {"Running", "Ready", "Blocked"}
                 /\ Retained(out.target) /\ Rec(out.target).incoming = out
            /\ in # NoClaim =>
                 /\ in.target = Id(s) /\ in.caller # in.target
                 /\ Retained(in.caller) /\ Rec(in.caller).outgoing = in
                 /\ ~ thread[s].detached /\ ~ thread[s].joined
                 /\ thread[s].state \notin {"Prepared", "Revoked", "Vacant"}

(***************************************************************************)
(* An unstarted worker belongs to a creator that can still start or abort  *)
(* it: no exit, completion or reuse of the creator's slot leaves a         *)
(* prepared thread that nobody can name as its child.                      *)
(***************************************************************************)
NoOrphans ==
    \A s \in Slots : thread[s].state = "Prepared" /\ thread[s].creator # NoThread =>
        /\ Retained(thread[s].creator)
        /\ thread[s].creator.process = thread[s].process
        /\ Rec(thread[s].creator).state \in {"Ready", "Running", "Blocked"}

(***************************************************************************)
(* Once a process is stopping, nothing of it can execute, be joined or     *)
(* hold the turn again.                                                    *)
(***************************************************************************)
StopIsFinal ==
    \A p \in Process : procs[p].stopping =>
        /\ active.process # p
        /\ \A s \in Owned(p) : /\ thread[s].state = "Revoked"
                               /\ thread[s].incoming = NoClaim /\ thread[s].outgoing = NoClaim

(***************************************************************************)
(* Process slots do not move and are not reused while a record refers to   *)
(* them, and no two processes share one.                                   *)
(***************************************************************************)
SlotsStable ==
    /\ \A s \in Slots : thread[s].state # "Vacant" => Registered(thread[s].process)
    /\ \A p, q \in Process : Registered(p) /\ procs[p].slot = procs[q].slot => p = q

(***************************************************************************)
(* Every relation between threads leads to one that can honour it: claims  *)
(* are paired, unstarted workers have their creator, a stopping process    *)
(* holds no claim and no turn, and a record's process keeps its slot.      *)
(***************************************************************************)
NoDangling == JoinPaired /\ NoOrphans /\ StopIsFinal /\ SlotsStable
=============================================================================
