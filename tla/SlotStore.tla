----------------------------- MODULE SlotStore -----------------------------
(***************************************************************************)
(* The two-slot transaction store of crates/storage/troe-txslot over a     *)
(* block device with a volatile cache.                                     *)
(*                                                                         *)
(* A slot is a data block and a commit block.  The commit block carries    *)
(* the generation and the checksum of its data block, so it is modelled by *)
(* the record it vouches for: a slot is valid when both blocks hold the    *)
(* same record.  Blocks that fail a magic, a checksum or the generation    *)
(* test (zero-filled and torn ones alike) are Invalid; checksums are       *)
(* assumed not to collide.                                                 *)
(*                                                                         *)
(* The device answers reads with view[b].  A power loss leaves any element *)
(* of maybe[b]: a write adds its value and a torn block, and only a        *)
(* successful flush settles every block on what is read.                   *)
(***************************************************************************)
EXTENDS Naturals

CONSTANTS
    Payload,        \* what can be committed
    Absent,         \* what an empty store stands for
    Invalid,        \* a block that does not parse
    MaxGeneration   \* stands for u64::MAX

Record == [generation : 1 .. MaxGeneration, payload : Payload]

ASSUME SlotStoreAssumption ==
    /\ MaxGeneration \in Nat
    /\ Absent \in Payload
    /\ Invalid \notin Record

VARIABLES
    view,     \* what a read of each block returns
    maybe,    \* what each block may hold after a power loss
    alive,    \* FALSE once a request has timed out and the device was reset
    active,   \* the newest committed candidate, as held in memory
    step,     \* Down, Refused, Idle, or the next device request of commit
    staged,   \* the payload of the commit under way, otherwise Absent
    safe      \* history: the last acknowledged payload and those tried since

storeVars == <<view, maybe, alive, active, step, staged, safe>>

Slot == {0, 1}
Block == 0 .. 3
DataBlock(s) == 2 * s
CommitBlock(s) == 2 * s + 1
Content == Record \cup {Invalid}
Request == {"WriteData", "FlushData", "WriteCommit", "FlushCommit"}
Mounted == step \in Request \cup {"Idle"}

-----------------------------------------------------------------------------
(* Recovery.                                                               *)

\* No committed slot: generation zero, and the first commit goes to slot 0.
Empty == [slot |-> 1, generation |-> 0, payload |-> Absent]

Found(img, s) == img[DataBlock(s)] # Invalid /\ img[CommitBlock(s)] = img[DataBlock(s)]

Candidate(img, s) ==
    [slot |-> s, generation |-> img[DataBlock(s)].generation, payload |-> img[DataBlock(s)].payload]

\* Both slots claim one generation: open refuses the region.
Corrupt(img) ==
    /\ \A s \in Slot : Found(img, s)
    /\ Candidate(img, 0).generation = Candidate(img, 1).generation

Recovered(img) ==
    IF Found(img, 0) /\ Found(img, 1)
    THEN IF Candidate(img, 0).generation > Candidate(img, 1).generation
         THEN Candidate(img, 0) ELSE Candidate(img, 1)
    ELSE IF Found(img, 0) THEN Candidate(img, 0)
    ELSE IF Found(img, 1) THEN Candidate(img, 1) ELSE Empty

\* Every medium a power loss can leave.
Images == {[b \in Block |-> IF b = 0 THEN w ELSE IF b = 1 THEN x ELSE IF b = 2 THEN y ELSE z] :
             w \in maybe[0], x \in maybe[1], y \in maybe[2], z \in maybe[3]}

-----------------------------------------------------------------------------
(* The device.                                                             *)

\* A write adds its value, whole or torn, to what a power loss may leave.
Dirtied(b, v) == [maybe EXCEPT ![b] = @ \cup {v, Invalid}]

WriteBlock(b, v) ==
    /\ alive
    /\ view' = [view EXCEPT ![b] = v]
    /\ maybe' = Dirtied(b, v)
    /\ UNCHANGED alive

\* An error leaves the outcome open; a time-out also resets the device, which
\* then refuses everything until the machine restarts.
WriteError(b, v) ==
    /\ IF alive
       THEN /\ \E found \in {view[b], v, Invalid} : view' = [view EXCEPT ![b] = found]
            /\ maybe' = Dirtied(b, v)
       ELSE UNCHANGED <<view, maybe>>
    /\ alive' \in {FALSE, alive}

Flush ==
    /\ alive
    /\ maybe' = [b \in Block |-> {view[b]}]
    /\ UNCHANGED <<view, alive>>

\* What a failed flush has settled is not known, so nothing counts as settled.
FlushError ==
    /\ alive' \in {FALSE, alive}
    /\ UNCHANGED <<view, maybe>>

-----------------------------------------------------------------------------
(* The store.                                                              *)

\* Mutant: the slot that holds the newest generation is written in place.
TargetActive == active.slot

Target == 1 - active.slot
Fresh == [generation |-> active.generation + 1, payload |-> staged]

\* Recover the newest valid slot; a read error changes nothing.
Open ==
    /\ step = "Down"
    /\ IF Corrupt(view)
       THEN step' = "Refused" /\ UNCHANGED active
       ELSE step' = "Idle" /\ active' = Recovered(view)
    /\ UNCHANGED <<view, maybe, alive, staged, safe>>

\* The generation may not wrap.
Exhausted == active.generation = MaxGeneration

\* The checks at the head of commit.
BeginCommit(p) ==
    /\ step = "Idle" /\ ~ Exhausted
    /\ staged' = p
    /\ safe' = safe \cup {p}
    /\ step' = "WriteData"
    /\ UNCHANGED <<view, maybe, alive, active>>

WriteData ==
    /\ step = "WriteData"
    /\ WriteBlock(DataBlock(Target), Fresh)
    /\ step' = "FlushData"
    /\ UNCHANGED <<active, staged, safe>>

FlushData ==
    /\ step = "FlushData"
    /\ Flush
    /\ step' = "WriteCommit"
    /\ UNCHANGED <<active, staged, safe>>

\* Mutant: the commit is acknowledged without its last flush.
WriteCommitUnflushed ==
    /\ step = "WriteCommit"
    /\ WriteBlock(CommitBlock(Target), Fresh)
    /\ step' = "Idle"
    /\ active' = [slot |-> Target, generation |-> Fresh.generation, payload |-> staged]
    /\ safe' = {staged}
    /\ staged' = Absent

WriteCommit ==
    /\ step = "WriteCommit"
    /\ WriteBlock(CommitBlock(Target), Fresh)
    /\ step' = "FlushCommit"
    /\ UNCHANGED <<active, staged, safe>>

\* The second flush succeeds: only now the new generation is held in memory
\* and the caller is told.
FlushCommit ==
    /\ step = "FlushCommit"
    /\ Flush
    /\ step' = "Idle"
    /\ active' = [slot |-> Target, generation |-> Fresh.generation, payload |-> staged]
    /\ safe' = {staged}
    /\ staged' = Absent

\* A request fails: commit returns the error and memory is as before.
CommitError ==
    /\ \/ step = "WriteData" /\ WriteError(DataBlock(Target), Fresh)
       \/ step = "WriteCommit" /\ WriteError(CommitBlock(Target), Fresh)
       \/ step \in {"FlushData", "FlushCommit"} /\ FlushError
    /\ step' = "Idle"
    /\ staged' = Absent
    /\ UNCHANGED <<active, safe>>

-----------------------------------------------------------------------------
(* The environment.                                                        *)

\* Power fails at any point.  What the medium then holds is what the next
\* mount finds, so it is the new starting point of the history.
PowerLoss ==
    /\ \E img \in Images :
          /\ view' = img
          /\ maybe' = [b \in Block |-> {img[b]}]
          /\ safe' = {Recovered(img).payload}
    /\ alive' = TRUE
    /\ step' = "Down"
    /\ active' = Empty
    /\ staged' = Absent

\* The machine restarts without a power loss: memory is lost, the device's
\* cache is not.
WarmRestart ==
    /\ alive' = TRUE
    /\ step' = "Down"
    /\ active' = Empty
    /\ staged' = Absent
    /\ UNCHANGED <<view, maybe, safe>>

-----------------------------------------------------------------------------
\* A zero-filled region, not opened yet.
StoreInit ==
    /\ view = [b \in Block |-> Invalid]
    /\ maybe = [b \in Block |-> {Invalid}]
    /\ alive = TRUE
    /\ active = Empty
    /\ step = "Down"
    /\ staged = Absent
    /\ safe = {Absent}

Commit == WriteData \/ FlushData \/ WriteCommit \/ FlushCommit \/ CommitError

StoreNext == Open \/ (\E p \in Payload : BeginCommit(p)) \/ Commit \/ PowerLoss

StoreSpec == StoreInit /\ [][StoreNext]_storeVars

-----------------------------------------------------------------------------
TypeOK ==
    /\ view \in [Block -> Content]
    /\ maybe \in [Block -> SUBSET Content]
    /\ alive \in BOOLEAN
    /\ active \in [slot : Slot, generation : 0 .. MaxGeneration, payload : Payload]
    /\ step \in Request \cup {"Down", "Refused", "Idle"}
    /\ staged \in Payload
    /\ safe \in SUBSET Payload

\* Whatever power loss strikes, in the middle of a commit, after a failed one
\* or after any number of retries, the next open is not refused and finds the
\* last acknowledged payload or one that was being committed since; once a
\* commit is acknowledged it finds that one.
Recoverable ==
    \A img \in Images : ~ Corrupt(img) /\ Recovered(img).payload \in safe
=============================================================================
