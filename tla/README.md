# Specifications of the troe kernel

This directory holds TLA+ specifications of the parts of troe where the order
of steps decides correctness: tasks, native threads and what they wait for,
synchronous and deferred calls, services, processes and pipes, the
crash-consistent stores, and TCP. TLC checks them on small instances, and TLAPS
proves the central results for every value of the constants. `PROJECT.json` maps
every definition that models code to the lines it was translated from, and lists
the runs, the hazards, the findings and the theorems.

Run a model with `tlc -config X.cfg M` and a proof with `tlapm M.tla`.

## 1. The system

troe is a small operating system for one CPU. The kernel is cooperative: the
operations below run to completion and do not preempt each other, so an
operation of a table is one atomic action. Interleaving comes from the order in
which threads, deadlines, devices, servers and process teardown call them.
Storage is the exception: a commit is a sequence of device requests, and power
can fail between any two.

| Part | State | Operations | Talks to |
|---|---|---|---|
| Task scheduler (`troe-task/src/lib.rs`) | records, cursor, next identity | spawn, dispatch, yield, preempt, block, wake, exit, fault, cancel, terminate, reap | processes, waits, call chains |
| Call chains (`chain.rs`) | chains of tasks, live counter | enter, unwind, abandon, detach | IPC runtime |
| Thread table (`thread.rs`, `thread/admission.rs`) | process slots, thread slots with generations | register, prepare, start, abort, dispatch, yield, block, wake, join, detach, exit, complete, stop, release, reap, remove | control, schedule, sync |
| Join and sleep (`thread/control.rs`) | one retained wait per thread, interlock | join, sleep, observe, finish | thread table |
| Process turns (`thread/schedule.rs`) | turn, cursors, budget | begin, dispatch sibling, charge, finish | thread table |
| Synchronisation (`thread/sync.rs`) | mutexes, conditions, permits, queues | create, destroy, lock, unlock, wait, notify, acquire, release, observe, finish, exit, stop | thread table |
| Waits and pending calls (`wait.rs`) | wait slots, call slots, byte account | register, wake, expire, observe, cancel, discard; begin, bind, mark ready, resolve, finish, tear down | deferred calls |
| Deferred calls of native processes (`kernel/src/resident/threading/io.rs`) | vector of suspended calls, cursor | prepare, poll, revoke | waits, pending calls, sockets, streams, diagnostics server |
| Residents (`kernel/src/resident*`, `kex.rs`), children and pipes (`troe-process`) | tree of processes, pipe buffers and ends | launch, pump, cancel, reap; spawn, publish, take; read, write, close | all of the above |
| IPC runtime and dispatch (`troe-service`, `troe-dispatch`) | endpoints, badges, queued calls, reply tokens | attach, bind, call, reply-wait, cancel, expire, terminate | call chains, supervisor |
| Supervisor (`troe-supervisor`, `kernel/src/supervision.rs`) | per-service state, back-off, budget | request, launched, ready, exited, next action | residents |
| Transaction slots and state filesystem (`troe-txslot`, `troe-fs-statefs`) | active slot, four blocks; file, streamed write | open, commit; mount, write, truncate, append, sync, remove | block device |
| ext4 (`troe-fs-ext4`) | journal; bitmaps, extents, links | begin, log, arm, commit, checkpoint, retire, recover; create, link, unlink, rename, write, truncate | block device |
| Network (`troe-net`, `kernel/src/network*`) | connections, sockets | connect, send, receive, close, retransmit | deferred calls |
| Memory, FAT, formats, shell, terminal, ABI, devices | | | see section 6 |

What is hard here, and what the properties are about:

* identities with generations: a key, a claim or a dispatch value kept too long
  must not act on the next occupant of its slot;
* two tables changed in turn by one operation (a wait and its call, a claim and
  its interlock, a queue and the owner field, a chain and a badge), with early
  errors between them;
* a deadline, a stop or a death in the very step in which a result arrives;
* queues unlinked from the middle while their head is served;
* cursors over vectors and sparse slots whose entries move or vanish;
* cycles of callers, some queued and some delivered;
* requests that fail with an unknown outcome, are retried, and are cut off by a
  power loss; segments that are lost, repeated, delayed and reordered.

## 2. Modules

| Module | Models | Extends |
|---|---|---|
| `Tasks` | what the task scheduler promises: the life cycle of a set of tasks | |
| `Scheduler` | the record vector, the cursor and every operation of `Scheduler` | |
| `CallGraph` | what the chain table promises: a call graph without cycles | |
| `CallChain` | the chain table | |
| `ThreadTable` | process and thread slots | |
| `ThreadControl` | joins and sleeps over the table | `ThreadTable` |
| `ThreadSchedule` | process turns over the table | `ThreadTable` |
| `ThreadSync` | mutexes, conditions and permits of one process | |
| `WaitTable` | wait registrations | |
| `PendingCalls` | pending calls and their byte account | `WaitTable` |
| `NativeIo` | prepare, poll and revoke over both tables, with sockets, streams, timers and the diagnostics server | `PendingCalls` |
| `ThreadCalls` | the two tables in use, below a native process and in any order, with the properties and the invariant of the proofs | `NativeIo` |
| `Ipc` | the IPC runtime with endpoints, badges, reply tokens and chains | |
| `Supervision` | the supervisor's policy, the resident slots and the shell loop that drives them | |
| `Children` | a family of nested processes and its pipes | |
| `Tcp` | two ends of one TCP tuple over an unreliable network | |
| `SlotStore` | the two-slot store over a device with a volatile cache | |
| `StateFs` | the one-file filesystem on the store | `SlotStore` |
| `Ext4Journal` | the redo journal of an ext4 volume over the same kind of device | |
| `Ext4` | the mutations of an ext4 tree: inodes, directories, bitmaps, counts | |
| `...Proofs` | theorems about the module of that name; those about `ThreadSchedule` are in `ThreadTableProofs` | it, `TLAPS` |
| `CallTablesProofs` | lemmas about the wait table, the pending calls and the suspended calls, used by `ThreadCallsProofs` | `ThreadCalls`, `TLAPS` |
| `MC...` | instances for TLC | |

Conventions. State keeps the names of the code's fields, operations those of its
functions, except where two modules that a run composes would collide: `Sync`,
`Io`, `Ipc`, `Tcp`, `Journal`, `Tree`, `Supervision` and `Family` then prefix
`Init`, `Next` and `Spec`, and an operation takes a longer name (`AppendRegular`,
`MountVolume`, `ServiceCall`, `RemoveRecord`, `Launch`). An operation that returns an error and changes
nothing is an action that is not enabled, except where a later step depends on
the error (the call chain's replies, an append that opens a stream before it is
refused). Mutated forms used to test the properties are marked `Mutant` and stand
before the definition they vary. Unbounded counters have a named bound
(`MaxGeneration`, `MaxSequence`, `MaxJoin`, `MaxRequest`, `MaxTime`, `MaxNow`,
`MaxTurn`, `MaxSpawned`, `MaxOpens`, `MaxWork`, `MaxId`), which is also the model
of exhaustion where the code refuses to wrap.

How state and actions correspond to the code:

* **Scheduler.** `records` is the vector in its order, because the cursor is an
  index into it: `RemoveRecord` shifts the cursor as `reap` does. `DispatchNext` is
  the circular search from the cursor, with or without a capability.
  `TerminateRevokeAndReap` includes its callback, which may fail. Page counts,
  the two resize operations and event counters are left out.
* **CallChain.** A chain is the sequence of its members. `ChainOf` consults the
  live counter before the scan, as the code does, which is why the counter must
  be exact. `Extend`, `Begin`, `Unwind` and `Detach` carry every error.
* **ThreadTable.** A vacant slot keeps its generation. `Prepare` is
  `admission.rs` and the slot search; joins are claims with a sequence number
  held by both sides. Reservations are counted in pages. `remove_process` also
  refuses a process that is registered with the synchronisation tables; the flag
  is theirs, and `RemoveProcess` allows the removal.
* **ThreadControl.** `Join` returns at once, or sets the claim, the retained
  wait and the interlock; `Observe` selects stop, deadline or result in the
  order of the code; `Finish` clears the interlock and delivers.
* **ThreadSchedule.** A turn is issued to a process, spent by steps and time and
  returned; `Nearest` and `DispatchSibling` are the two cursor searches. The
  counts `skipped` and `passed` are history.
* **ThreadSync.** The intrusive queues are sequences. A thread that waits has
  one retained wait with its outcome; `Grant`, `Reacquire` and `Poison` are
  internal steps and part of the operation that takes them. Objects belong to
  one process; several processes share nothing but capacity.
* **WaitTable, PendingCalls.** One slot function each, with generations.
  `ThreadCalls` drives both in every order the interfaces allow, late and
  repeated completions included.
* **NativeIo.** `suspended` is the vector with its `swap_remove`; `cursor` is
  the polling position. `Call` is `prepare`, `Poll` one visit, `Revoke` the
  teardown of both tables. Packets, end of file, an endpoint that is closed
  while a call waits for it, deadlines, server fates and the stop of the process
  are the environment. A write to a full pipe waits as a read of an empty one
  does: `stream` is the one or the other.
* **Ipc.** A call is named by its caller, who has one at most. A server has one
  endpoint. The chain table is not bounded in the number of chains (module
  `CallChain` has that bound). A payload's queue slot is recycled within the
  operation that frees it. Deadlines are the time left.
* **Supervision.** The shell is one thread, and its place in the pump and drive
  loop is state. A launch becomes ready within the drive that admits it, so
  `Starting` is never seen between steps; a cancelled process ends in the next
  pump, so the forced stop after the grace period is never reached.
* **Children.** A round steps the children before their parent, in spawn order;
  `walk` is what is left of the round. A process makes at most one call in a
  slice, where the code serves up to four before it comes back to the loop; what
  four calls in a row do is what four slices do in which the other processes
  make none. A blocked foreground process that is cancelled is told so and gets
  one more round (`DeliverCancel`). Pipe contents are a count.
* **Tcp.** `net` holds the last few segments of each end; any of them may arrive
  late, twice, out of order or never. Sequence numbers wrap at `Width`. Timers
  may fire at any moment. Resets are not modelled, and in the instance data
  flows in one direction.
* **SlotStore, StateFs.** A block is `Invalid` or holds a record; the commit
  block is the record it vouches for, since it carries its generation and
  checksum. Checksums are assumed not to collide. The device is external:
  `view` is what it reads back, `maybe` what a power loss may leave. A request
  that fails leaves its block open; one that times out resets the device, which
  then refuses everything, as the virtio driver does. `safe` is a history
  variable.
* **Ext4Journal.** `pc` is the next request. `media` is the set of contents a
  power loss may leave: a write adds images, a torn one included where the block
  spans sectors, and a flush leaves the one that is read. Every write may fail,
  the marker's and the time stamp's outside a transaction included, and may then
  have landed in part, while the mount stays in use. Block 0 spans two blocks of
  a device with 512 bytes a block, its checksum lies in the second, and a write
  that is cut short between them leaves a superblock that is not `whole`.
  `fates` and `overtaken` are history; the second records that a mutation began
  while the head of an earlier one that had failed could still be found armed.
  Every restart is a power loss. The escape of images that begin like a record of
  the log is not modelled but assumed (`EscapeAssumption`): an image is never
  taken for a commit record.
* **Ext4.** An action is one mutation that succeeds; a failed one is dropped as a
  whole by the journal. Blocks hold no bytes; each is an extent of its own, and
  the lowest free ones are taken. Symbolic links hold absolute paths. `rename`
  compares paths only. With `Aliased` the model does the same (run `ext4_loop`);
  without it the moves that this lets through by mistake are left out, so that
  the other properties can be checked of the rest. Hashed directories are not
  modelled.

## 3. Runs

A run that asks about several components composes them with a variable `part`
that names the one whose steps the behaviour follows; the others stay in their
initial state. Nothing is interleaved between parts: they share no state.

| Run | Instance | Shows |
|---|---|---|
| `thread_control` | 2 slots of 2 generations, 1 deadline, fair | claim, interlock and wait agree; a result is delivered at most once; an expired wait takes none; a wait that can end does |
| `thread_schedule` | 2 processes, 3 threads, 3 turns | a turn is held by one value, nothing runs outside it; both rotations pass over a process or thread at most once for each other slot |
| `thread_sync` | 3 threads and any 2 objects of 4 kinds, 1 deadline; 5 tasks on 2 chains of at most 4 members | owners, queues and references agree, no wakeup is lost, outcomes are true, hand-over goes to the first in line; no chain re-enters a task and the table implements `CallGraph` |
| `thread_calls` | 2 successive processes on 1 process slot and 2 thread slots; 2 native threads with 3 calls of any of 4 kinds; both tables in any order of use | joins are paired and nothing dangles; vector and tables agree and answers are true; names are never reused, the byte account is exact, a wait has its call |
| `messages` | 3 task records, 4 identities, shared address spaces; 2 servers that may call each other, 1 client, 1 kernel client, queues of 2; a TCP connection of 2 bytes whose sequence numbers wrap | every step of the scheduler is a step of `Tasks`, a ready task keeps its turn; no cycle of waiting, calls, chains and badges agree, no call overtakes an older one; the stream is exact, an acknowledged byte is held, no old request is accepted |
| `storage` | files of at most 1 chunk and 3 generations; 4 inodes and 5 blocks; a journal of 2 blocks and 3 transactions | every power loss leaves the last acknowledged file or one tried since, what is shown is settled; bitmaps, links and counts agree and everything is found from the root; an interrupted transaction happens or does not, also on a mount used after a failure, and only the last is replayable |
| `processes` | 2 services of which one depends on the other, 2 process slots; 3 processes with 1 pipe; 2 threads with 4 calls; fair | processes, ends and families are exact; dependents follow, a service that is to be down stops; end of file is final and reaches waiting readers; suspended calls return |
| `native_io_deadline` | 1 thread, 2 diagnostics calls | violation, see section 5 |
| `state_fs_warm` | the state file with warm restarts | violation, see section 5 |
| `ext4_loop` | the tree with paths through symbolic links | violation, see section 5 |
| `ext4_reuse` | a journal of 2 blocks and 3 transactions | violation, see section 5 |
| `supervision_backoff` | 2 restarted services | violation, see section 5 |

Why the bounds are enough. Identity reuse needs two generations of a slot; the
runs about identities have two or more (`thread_schedule`, which is about
cursors, has one). Hand-over, cancellation from the middle of a queue and
`swap_remove` need three participants, and the runs about them have three. A
deadline needs one instant before and one after, so clocks have one or two ticks.
A store that fails, is retried and is overwritten needs three generations: the
settled one, the failed one, and the one that overwrites the slot of the first;
a journal needs three transactions for the same reason. Its part of `storage`
does not go on from a state in which `overtaken` holds (`InOrder`), of which
neither property says anything; `ext4_reuse` does. A file of three chunks has an
extent tree; that a fourth chunk reuses its block is allowed for and not reached.
To overtake, a call needs an older one in the same queue, hence room for two. A cycle of callers needs
two servers, and a third party makes one of their calls queue. A pipe that is
inherited needs a grandchild, hence three processes. The rotations are stated
with a counted bypass, so a wrong cursor shows as a count that is too high,
without a liveness check. Symmetry is used only where values are compared and
never ordered, and in no run with a liveness property.

Deadlock is checked in `storage`. Elsewhere the system may stop: identities,
generations or requests run out, or the process is stopped.

Fairness.

* `thread_control` assumes only that each retained wait is observed again and
  again: `NativeResident::next` (`threading/execution.rs`) observes all of them
  on every visit. The clock is not assumed to advance; the property is about
  waits that can already end.
* The scheduler is checked without fairness. The kernel searches for the next
  ready task only at boot and in its probes; residents, services and the shell
  are dispatched by name, in an order that their own loops choose. What is
  claimed of the search is therefore `KeepsItsTurn`: how often it is called is
  its caller's business, but each call that passes a task over brings the cursor
  nearer to it, and removing records does not undo that.
* `processes` assumes of the services that the shell goes on from wherever it is
  not made to wait, that a job it waits for is taken when it has ended, and that
  the clock runs; of the family, that a round that began goes on and the next one
  begins (the foreground loop of the session); of the native process, that each
  visit polls once, that the clock runs and that the server ends every request.
  Nothing is assumed of writers, packets, or processes that compute.

## 4. Proofs

Proved for every value of the constants that satisfies the named assumptions:
capacities and bounds are natural numbers, a chain may have two members,
distinguished values (`"none"`, an absent file, an unreadable block, an absent
task, an absent wait) are not ordinary ones. The calls of native processes need
two more (`RoomAssumption` in `NativeIo`): both tables and the byte account have
room for one call of every thread, as `new` (`threading/io.rs`) makes them, and a
behaviour makes no more calls than a slot has generations; a slot that has
used up its 2^32 - 1 generations is retired, and what happens to a process
that has lost all its slots that way is not claimed.

**Call chains** (`CallChainProofs`). `NeverReentrant`: no task is a member of two
chains or twice of one, the live counter is the number of chains, and no chain
exceeds its bound. `NotReentrant` alone is not inductive: `enter` tests
membership through `chain_of`, which answers "none" without a scan when the
counter is zero, so the counter must be exact; and `LiveExact` needs `Bounded`:
a retained chain has at least two members, so that a reply either shortens it or
releases its record and the counter together. `TableImplementsCallGraph`: under
that invariant every operation of the table is a step of `CallGraph`, errors and
repeated unwinds included.

**Task scheduler** (`SchedulerProofs`). The invariant `IInv` says that the vector
is exact (in bounds, the cursor within it, the running task present and alone),
that identities are unique and that a blocked task has its wait. Uniqueness is
what makes "the record of an identity" a function: without it a lookup in the
vector and one in the abstract set could differ. `TableExact`,
`SchedulerImplementsTasks` (`Spec => Tasks!Spec`, every operation is a step of the
abstract life cycle) follow. `TurnKept` (`KeepsItsTurn`): a search that could have
taken a ready task and takes another brings the cursor strictly nearer to it, and
of the steps that start no task only an admission puts records before it. The
distance is taken modulo the length of the vector (`Away`); that removing a record
on either side of the cursor does not lengthen it is a case for each of the orders
in which the record, the cursor and the task can lie.

**Thread table** (`ThreadTableProofs`). `RelationsHonoured`: joins are paired,
unstarted workers have their creator, a stopped process holds neither claim nor
turn, a record's process keeps its slot. The invariant adds `Lifetimes`: a slot in
use has a generation and a process, and claims stay within a process; that is why
a slot that is reused cannot be mistaken for its predecessor. Most operations are
covered by one lemma, `StepsKeepTInv`, about records that go through legal moves
and drop claims at both ends or at neither.

**Joins and sleeps** (`ThreadControlProofs`). `InterlockAlwaysOwned`: a set
interlock has exactly one retained wait that can clear it. `ResultDeliveredOnce`:
a lifetime's result is delivered at most once, and has been delivered exactly when
the record counts as joined. `DeadlineComesFirst`: an observation after the deadline
never takes a result. `ControlKeepsRelations`: the table's relations survive the
composition. The invariant relates each retained wait to the record of its caller
(`Interlocked`): while it is pending, the caller is blocked in the wait's own
operation, and its claim is the wait's; afterwards neither is left. It also needs
that operation numbers never run ahead of the record (`NotAhead`), that no claim
exists without a wait (`Unwaited`), and that a delivery consumes the record
(`Counted`).

**Process turns** (`ThreadTableProofs`). `TurnAlwaysHeld`: the turn the table
waits for is held by exactly one value, every other value belongs to a stopped
process, and nothing runs outside the turn of its process. `RotationBounded` and
`SiblingsRotate`: a process that stays eligible, and a thread that stays ready, is
passed over less often than there are slots. The counts are not inductive; what is, is that the
count and the distance the cursor still has to go to the slot never add up to more
than the number of slots less one (`ProcessInv`, `ThreadInv`). Each selection of
another slot brings the cursor closer by at least one (`Approaches`), which
requires that two processes do not share a slot, a part of the table's invariant.
`ScheduleKeepsRelations`: the table's relations survive this composition as well.

**Calls of native processes** (`CallTablesProofs`, `ThreadCallsProofs`), for every
number of threads, slots, generations, clients and messages. `TablesAlwaysAgree`:
each suspended thread has one entry in the vector, one pending call and one wait,
which name each other, and the tables hold nothing else. `AnswersAreTrue`: a call
is answered only for a condition that holds, no datagram is lost between the
socket and the answer, and nothing but the deadline of a diagnostics request (see
section 5) takes an error path that stops the process. `WaitsAlwaysHaveCalls`
and `NamesNeverReused` speak also of the tables alone, in any order of use: a
registered wait has the call that is bound to it, the byte account is exact, and a
key or an operation identity never names a second wait or call.

All four follow from `CallsInv` (`CallsAreExact`), which is the conjunction of two
invariants. `TablesInv` is what holds in any order of use: each table is well
formed, every wait is linked to its call (`Linked`), and every completion handed
out is for a key that no registration will have again (`CompletionsOver`); without
the last a late completion could resolve the next call of the slot. Calls may
outlive their waits, which is why `Linked` goes one way only. `NativeInv` adds
what the order of `prepare`, `poll` and `revoke` makes of this: an entry, its call
and its registration determine each other (`Bound`, `EntriesExact`), so that a
`swap_remove` together with one resolved wait and one released call leaves the
others intact (`LeaveTables`). `Bound` records the whole registration, not only
its key: that a poll finds the interest it observes is what excludes the error
paths. That `prepare` never meets a full table needs a count: `Frugal` says that a
slot has used up no more generations than requests were made, so none is retired,
and `EntriesExact` that the occupied slots are as many as the suspended threads;
with `RoomAssumption` a caller that is not suspended finds a free slot in both
tables and a free byte (`AlwaysRoom`). The byte account is a sum over a finite set.
That such a sum does not depend on the order in which it is taken (`TotalRemove`,
`TotalSplit`) is proved from a minimal subset for which it would, in place of an
induction.

**State store** (`StateFsProofs`). `AlwaysRecoverable`: the
invariant `StoreInv` says that the active slot is settled on its record
(`ActiveSurvives`), and that a record which can become valid in the other slot is
older, or is the next generation of a payload that was tried (`OtherKnown`). It
speaks of what *both* blocks of a slot may hold: one block alone may keep an
untried record of the next generation from before the last restart. Writes only
add the fresh record to the other slot, a flush only shrinks what is possible, and
the second flush exchanges the roles of the slots. `FileRecoverable` and
`ShownIsAlwaysDurable`: every file operation is a step of the store or leaves it
alone, so recovery carries over; and the file in memory is the payload of a settled
slot.

**Journal of a volume** (`Ext4JournalProofs`). `MutationsAtomic` (`TwoFates`):
wherever power is lost, in a mutation, in its checkpoint or in the recovery from
an earlier loss, and whichever request fails, each content the medium may be left
with opens and holds the volume before the mutation or the whole of the new one.
`NoStaleReplay` (`OneReplayable`): until the commit record is written no record in
the log has the sequence of its head, and until it is armed its head names no
transaction. Nothing is assumed of the device or of what callers do after a
failure. The statements make two exceptions instead: a content whose block 0 was
torn, which does not open, is not spoken of in `TwoFates`; and neither property
says anything once a mutation has begun over the armed log of another
(`overtaken`), see section 5. The first exception does not end the guarantee:
on a mount that is still in use the next marker makes a torn block 0 whole again.
The invariant `JInv` speaks of every content in `media`, not only of the one that
is read. `Lasting`: each is `Sound` (a started log decodes, a clean marker means
an empty log, commit records are older than the head's number) and replays into
`fates`. `Here` adds, for each value of `pc`, what is settled and how far the
requests have come: before the head is written the log carries the whole
transaction (`Carries`), and during the checkpoint a block is either staged or
already as it will be (`Outside`), so that replaying twice, or after any part of
the checkpoint, leads to the same volume. Age of the commit records is what makes
the reuse of the log blocks safe: without `Older` a head that advances could meet
a record that an earlier transaction left behind.

Only model-checked:

* liveness (`WaitsEnd`, `DependentsFollow`, `DownStops`,
  `ReadersSeeTheEnd`, `CallsReturn`), because the prover treats neither fairness
  nor ENABLED;
* `Children`, `Ext4`, `Ipc` and `Supervision`, which declare recursive operators
  (a subtree, a path, a chain of callers, a cascade of stops): the prover loses its
  arithmetic back end there, and what recursion computes needs induction over data;
* the invariants of `ThreadSync` (`ObjectsExact`, `NoLostWakeup`, `OutcomeTrue`,
  `HandedOver`) and of `Tcp` (`StreamExact`, `AcknowledgedIsHeld`,
  `NoGhostAccepted`), for which no proof has been written.

## 5. Findings

Shown by a run:

* `native_io_deadline`. The fate of a diagnostics request whose deadline passed
  is polled as "pending" on a wait that has no deadline interest; the
  observation fails and the process is stopped, although the code after it
  answers that fate with `Timeout`.
* `state_fs_warm`. `open` reads without flushing first. After a restart that
  keeps the device's cache (a reset of the machine, not a power loss), a commit
  that was interrupted before its last flush is valid to the reader and becomes
  the active slot. The next commit overwrites the predecessor, and a power loss
  before its first flush can leave no valid slot. Without warm restarts the
  store is correct, which is what `storage` and the theorems say.
* `ext4_loop`. `rename` compares path strings to refuse a move of a directory
  below itself, but resolves the destination through symbolic links.
* `ext4_reuse`. When a request fails after the head was armed, the error is
  returned and the mount stays in use. `begin_mutation` does not look whether the
  log still holds a transaction, and the next mutation writes its descriptor over
  the armed one. Power lost in the middle of that write leaves a head that names a
  torn descriptor: recovery refuses the volume. ADR 0055 and `journal.rs:9-15`
  promise one of two fates. Without such a failure, or when the volume is
  recovered after it, the journal is correct (`storage` and the theorems).
* `supervision_backoff`. A service whose restart delay is over is launched
  without a look at its desired state or its dependencies.

Met while modelling; the models follow the code:

* `cancel_owner` (`wait.rs`) ends only the first wait of a task, while its
  comment says every wait. Its two callers own whole-task waits, of which a task
  has one.
* `sync_file` (`troe-fs-statefs`) drops the streamed bytes when the commit fails,
  so a repeated sync succeeds without them.
* ext4: a power loss between the two device blocks of the superblock leaves one
  whose checksum does not match, which neither mount nor recovery opens.
* ADR 0038 says that readiness resets the startup delay; `ready` resets nothing.
  A restart requested while a service is stopping or waits for its delay stays
  pending, and a later system action overwrites an earlier one.
* `grown_private_pages` (`application.rs:1238-1242`) leaves out the committed
  pages that ADR 0045 counts.
* A child whose owner has closed its own end of a pipe cannot pass the stream on;
  `available_slot` and `has_runnable_process` (`resident.rs`) look only at the
  jobs' own processes and not at their children.
* FAT (read, not modelled): a directory whose last slot is filled becomes
  unreadable; the descendant check of `rename` is case-sensitive while lookup is
  not; an operation that finds no space leaves the volume marked dirty.

## 6. Not modelled

Each component without a module is listed in `PROJECT.json` with its reason.
Parsers and encoders of fixed layouts (GPT, manifests, packs, executables,
firmware tables, ABI structures), the shell's parser, the terminal and the
machine layer's register code are data or unsafe code without a protocol of
their own. Frame and extent allocation is sequential. FAT, the namespace, the
in-memory filesystems, wait sets and the life cycle of in-kernel services are left
out. Allocation failure is assumed not to happen. The steps of the kernel loop
between two tables' operations are not interleaved further, and two CPUs are not
modelled. Event counters, wording and byte contents are left out everywhere.
