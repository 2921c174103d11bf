------------------------------ MODULE Children ------------------------------
(***************************************************************************)
(* Nested processes and pipes: the owner-scoped tables of troe-process,    *)
(* the stream plumbing of kernel/src/nested.rs, the process-launch and     *)
(* pipe services, and the part of ResidentApplication that spawns, steps,  *)
(* waits for and tears down children.                                      *)
(*                                                                         *)
(* The kernel steps a child on its parent's stack: `step' first pumps the  *)
(* children, in the order they were spawned, and then runs one slice of    *)
(* the process itself.  `walk' is what is left of one such round.  A       *)
(* process makes at most one call in a slice here; Spend is a slice with   *)
(* no call, or with one that is refused and changes nothing.               *)
(***************************************************************************)
EXTENDS Integers, Sequences, SequencesExt, FiniteSets, FiniteSetsExt

CONSTANTS
    MaxId,         \* bound: process identifiers handed out
    ChildSlots,    \* capacity of a child table (MAX_CHILDREN_PER_OWNER)
    PipeSlots,     \* capacity of a pipe table (MAX_PIPES_PER_OWNER)
    MaxGeneration, \* bound: generations of a pipe slot
    MaxDepth,      \* MAX_LAUNCH_DEPTH
    Room,          \* bytes a pipe holds
    PipeUsers,     \* the processes whose manifest grants the pipe service
    Streams,       \* the standard streams a launch binds, "in" among them
    None,          \* no process, record, pipe or wait; a stream bound to nothing
    Inherit        \* a launch that passes the launcher's own stream on

VARIABLES
    proc,  \* the processes, by identifier; None once torn down
    kids,  \* the child table of each process
    pipes, \* the pipe table of each process
    walk,  \* the processes the current round has still to step
    next,  \* the next process identifier
    eof    \* history: the pipes on which a reader was told end of file

familyVars == <<proc, kids, pipes, walk, next, eof>>

Ids == 1 .. MaxId
Root == 1

\* Ends the walk of the round after which a cancelled foreground process goes.
LastRound == 0

Alive == {p \in Ids : proc[p] # None}

\* A pipe token with the owner whose table it indexes.
Token == [owner : PipeUsers, slot : 1 .. PipeSlots, generation : 1 .. MaxGeneration]

EmptyKids == [s \in 1 .. ChildSlots |-> [generation |-> 1, record |-> None]]
EmptyPipes == [s \in 1 .. PipeSlots |-> [generation |-> 1, record |-> None]]

-----------------------------------------------------------------------------
(* The pipe table. *)

SlotOf(table, t) == table[t.owner][t.slot]

\* record_mut, endpoint_record_mut: a stale token finds nothing.
Known(t) ==
    /\ SlotOf(pipes, t).generation = t.generation
    /\ SlotOf(pipes, t).record # None

Record(t) == SlotOf(pipes, t).record

Count(b) == IF b THEN 1 ELSE 0

Readers(r) == Count(r.reader) + r.readers
Writers(r) == Count(r.writer) + r.writers

\* remove_if_closed: a pipe with no end left is removed and its slot ages.
RemoveIfClosed(slot) ==
    IF slot.record # None /\ Readers(slot.record) = 0 /\ Writers(slot.record) = 0
    THEN [generation |-> slot.generation + 1, record |-> None]
    ELSE slot

\* An attached end: the stream that a process has bound to a pipe.
EndsOn(streams, t, reading) ==
    Cardinality({s \in Streams : streams[s] = t /\ (s = "in") = reading})

\* attach succeeds for every stream: its owner still has that direction open.
Attachable(streams) ==
    \A s \in Streams : streams[s] # None =>
        /\ Known(streams[s])
        /\ IF s = "in" THEN Record(streams[s]).reader ELSE Record(streams[s]).writer

\* The tables with `by' more ends for each stream of a process; an end that
\* goes away (by = -1) may remove the pipe.
Shift(table, streams, by) ==
    [o \in PipeUsers |-> [s \in 1 .. PipeSlots |->
        LET slot == table[o][s]
            t == [owner |-> o, slot |-> s, generation |-> slot.generation]
        IN  IF slot.record = None THEN slot
            ELSE RemoveIfClosed(
                    [slot EXCEPT !.record.readers = @ + by * EndsOn(streams, t, TRUE),
                                 !.record.writers = @ + by * EndsOn(streams, t, FALSE)])]]

Attach(table, streams) == Shift(table, streams, 1)

\* Dropping the pipe stream services of a process: detach.
Detach(table, streams) == Shift(table, streams, -1)

-----------------------------------------------------------------------------
(* The round. *)

ChildrenOf(p) == {c \in Alive : proc[c].parent = p}

Entry(p, c) == CHOOSE s \in 1 .. ChildSlots :
    kids[p][s].record # None /\ kids[p][s].record.id = c

\* cancellation_requested
CancelRequested(c) ==
    c # Root /\ kids[proc[c].parent][Entry(proc[c].parent, c)].record.cancel

\* step and pump_children: children first, in spawning order, each with its
\* own children before it; a cancelled child is not stepped.
RECURSIVE Walk(_)
Walk(p) ==
    IF CancelRequested(p) THEN <<p>>
    ELSE FoldLeft(LAMBDA before, c : before \o Walk(c), <<>>,
                  SetToSortSeq(ChildrenOf(p), <)) \o <<p>>

RECURSIVE Descendants(_)
Descendants(p) == {p} \cup UNION {Descendants(c) : c \in ChildrenOf(p)}

BeginRound ==
    /\ walk = <<>>
    /\ Root \in Alive
    /\ walk' = Walk(Root)
    /\ UNCHANGED <<proc, kids, pipes, next, eof>>

\* It is p's turn.
Turn(p) == walk # <<>> /\ Head(walk) = p /\ walk' = Tail(walk)

\* p is running and may make a call.
Runs(p) ==
    /\ Turn(p)
    /\ ~ CancelRequested(p)
    /\ proc[p].wait = None

\* A slice that ends without a call that changes anything.
Spend(p) == Runs(p) /\ UNCHANGED <<proc, kids, pipes, next, eof>>

-----------------------------------------------------------------------------
(* The pipe service and the pipe streams. *)

Open == [bytes |-> 0, reader |-> TRUE, writer |-> TRUE, readers |-> 0, writers |-> 0]

\* PipeTable::create: the first free slot.
CreatePipe(p) ==
    /\ Runs(p)
    /\ p \in PipeUsers
    /\ \E s \in 1 .. PipeSlots :
        /\ pipes[p][s].record = None
        /\ pipes[p][s].generation <= MaxGeneration
        /\ \A f \in 1 .. s - 1 : pipes[p][f].record # None
        /\ pipes' = [pipes EXCEPT ![p][s].record = Open]
    /\ UNCHANGED <<proc, kids, next, eof>>

\* PipeTable::close_owner
CloseOwner(p, t, side) ==
    /\ Runs(p)
    /\ t.owner = p /\ Known(t)
    /\ Record(t)[side]
    /\ pipes' = [pipes EXCEPT ![p][t.slot] =
                    RemoveIfClosed([@ EXCEPT !.record[side] = FALSE])]
    /\ UNCHANGED <<proc, kids, next, eof>>

\* The pipes p may read or write: its own by token, another by its streams.
MayRead(p) ==
    {t \in Token : Known(t) /\ \/ t.owner = p /\ Record(t).reader
                               \/ "in" \in Streams /\ proc[p].streams["in"] = t}

MayWrite(p) ==
    {t \in Token : Known(t) /\ \/ t.owner = p /\ Record(t).writer
                               \/ \E s \in Streams \ {"in"} : proc[p].streams[s] = t}

\* Mutant: end of file as soon as the owner has closed its own writing end.
ReadReadyEarly(t) == Record(t).bytes > 0 \/ ~ Record(t).writer

\* owner_read_ready, endpoint_read_ready
ReadReady(t) == Record(t).bytes > 0 \/ Writers(Record(t)) = 0

\* owner_write_ready, endpoint_write_ready
WriteReady(t, n) == n <= Room - Record(t).bytes

\* read_pipe: what is buffered, up to `most', or end of file.
TakeBytes(t, most) ==
    /\ pipes' = [pipes EXCEPT ![t.owner][t.slot].record.bytes = @ - Min({@, most})]
    /\ eof' = IF Record(t).bytes = 0 THEN eof \cup {t} ELSE eof

\* write_pipe: all of it or nothing.
PutBytes(t, n) ==
    /\ pipes' = [pipes EXCEPT ![t.owner][t.slot].record.bytes = @ + n]
    /\ UNCHANGED eof

Await(p, wait) == proc' = [proc EXCEPT ![p].wait = wait]

\* READ by the owner or standard input; it waits when it would block.
Read(p, t, most) ==
    /\ Runs(p)
    /\ t \in MayRead(p)
    /\ \/ ReadReady(t) /\ TakeBytes(t, most) /\ UNCHANGED proc
       \/ ~ ReadReady(t) /\ Await(p, [kind |-> "Read", on |-> t, n |-> most])
          /\ UNCHANGED <<pipes, eof>>
    /\ UNCHANGED <<kids, next>>

\* WRITE by the owner or standard output; refused once no reader is left.
Write(p, t, n) ==
    /\ Runs(p)
    /\ t \in MayWrite(p) /\ Readers(Record(t)) > 0
    /\ \/ WriteReady(t, n) /\ PutBytes(t, n) /\ UNCHANGED proc
       \/ ~ WriteReady(t, n) /\ Await(p, [kind |-> "Write", on |-> t, n |-> n])
          /\ UNCHANGED <<pipes, eof>>
    /\ UNCHANGED <<kids, next>>

-----------------------------------------------------------------------------
(* The process-launch service. *)

\* nested_input_for_spawn, nested_output_for_spawn: what a stream of the child
\* is bound to when the launch says `spec' of it.
Bound(p, s, spec) == IF spec = Inherit THEN proc[p].streams[s] ELSE spec

Bindable(p, s, spec) ==
    spec \notin {Inherit, None} =>
        /\ spec.owner = p /\ Known(spec)
        /\ IF s = "in" THEN Record(spec).reader
           ELSE Record(spec).writer /\ Readers(Record(spec)) > 0

Specs(p) == [Streams -> {Inherit, None} \cup {t \in Token : t.owner = p /\ Known(t)}]

\* Mutant: a launch that fails late leaves its stream ends attached.
AbandonedAttached(streams) == Attach(pipes, streams)

\* A launch that fails after its streams were registered: the dispatcher and
\* its services are dropped.
Abandoned(streams) == Detach(Attach(pipes, streams), streams)

FreeSlots(p) == {s \in 1 .. ChildSlots : kids[p][s].record = None}

\* spawn_child_with_control.  Preparing the process may fail for want of
\* memory or of a scheduler slot, admitting it for want of a child slot.
Spawn(p, specs) ==
    LET streams == [s \in Streams |-> Bound(p, s, specs[s])]
    IN  /\ Runs(p)
        /\ proc[p].depth < MaxDepth
        /\ \A s \in Streams : Bindable(p, s, specs[s])
        /\ Attachable(streams)
        /\ \/ /\ pipes' = Abandoned(streams)
              /\ UNCHANGED <<proc, kids, next>>
           \/ /\ next <= MaxId
              /\ FreeSlots(p) # {}
              /\ pipes' = Attach(pipes, streams)
              /\ proc' = [proc EXCEPT ![next] =
                            [parent |-> p, depth |-> proc[p].depth + 1,
                             streams |-> streams, wait |-> None]]
              /\ kids' = [kids EXCEPT ![p][Min(FreeSlots(p))].record =
                            [id |-> next, running |-> TRUE, cancel |-> FALSE]]
              /\ next' = next + 1
        /\ UNCHANGED eof

HeldSlots(p) == {s \in 1 .. ChildSlots : kids[p][s].record # None}

\* WAIT: answered at once for a child that has ended, else deferred.
WaitChild(p, s) ==
    /\ Runs(p)
    /\ s \in HeldSlots(p) /\ kids[p][s].record.running
    /\ Await(p, [kind |-> "Child", on |-> s, n |-> kids[p][s].generation])
    /\ UNCHANGED <<kids, pipes, next, eof>>

\* ChildTable::request_cancel
Cancel(p, s) ==
    /\ Runs(p)
    /\ s \in HeldSlots(p) /\ kids[p][s].record.running
    /\ kids' = [kids EXCEPT ![p][s].record.cancel = TRUE]
    /\ UNCHANGED <<proc, pipes, next, eof>>

\* ChildTable::reap
Reap(p, s) ==
    /\ Runs(p)
    /\ s \in HeldSlots(p) /\ ~ kids[p][s].record.running
    /\ kids' = [kids EXCEPT ![p][s] = [generation |-> @.generation + 1, record |-> None]]
    /\ UNCHANGED <<proc, pipes, next, eof>>

-----------------------------------------------------------------------------
(* Deferred calls and teardown. *)

\* The slice of a process that waits: poll_deferred_call, deferred_reply.
Waits(p, kind) ==
    /\ Turn(p)
    /\ ~ CancelRequested(p)
    /\ proc[p].wait # None
    /\ proc[p].wait.kind = kind
    /\ UNCHANGED <<kids, next>>

\* The wait is over when `done' is true.
Resume(p, done) == proc' = IF done THEN [proc EXCEPT ![p].wait = None] ELSE proc

PollChild(p) ==
    /\ Waits(p, "Child")
    /\ Resume(p, ~ kids[p][proc[p].wait.on].record.running)
    /\ UNCHANGED <<pipes, eof>>

PollRead(p) ==
    LET w == proc[p].wait
    IN  /\ Waits(p, "Read")
        /\ Resume(p, ReadReady(w.on))
        /\ IF ReadReady(w.on) THEN TakeBytes(w.on, w.n) ELSE UNCHANGED <<pipes, eof>>

\* A write that waits fails once no reader is left.
PollWrite(p) ==
    LET w == proc[p].wait
        broken == Readers(Record(w.on)) = 0
        fits == ~ broken /\ WriteReady(w.on, w.n)
    IN  /\ Waits(p, "Write")
        /\ Resume(p, broken \/ fits)
        /\ IF fits THEN PutBytes(w.on, w.n) ELSE UNCHANGED <<pipes, eof>>

\* Mutant: a torn-down process takes no descendant with it.
TeardownAlone(p) == {p}

\* terminate_children: the processes that go when p goes.
Terminated(p) == Descendants(p)

\* Mutant: the output service of a process that goes keeps its end attached.
LeaveWriting(gone) ==
    FoldSet(LAMBDA q, table : Detach(table, [proc[q].streams EXCEPT !["out"] = None]),
            pipes, gone)

\* The pipe tables without the ends of the processes that go.
Leave(gone) == FoldSet(LAMBDA q, table : Detach(table, proc[q].streams), pipes, gone)

\* teardown of p, with every descendant, and finish in its parent's table.
Teardown(p) ==
    LET gone == Terminated(p)
        parent == proc[p].parent
        left == Leave(gone)
        table == [q \in Ids |-> IF q \in gone THEN EmptyKids ELSE kids[q]]
    IN  /\ proc' = [q \in Ids |-> IF q \in gone THEN None ELSE proc[q]]
        /\ pipes' = [q \in PipeUsers |-> IF q \in gone THEN EmptyPipes ELSE left[q]]
        /\ kids' = IF p = Root THEN table
                   ELSE [table EXCEPT ![parent][Entry(parent, p)].record.running = FALSE]
        /\ UNCHANGED <<next, eof>>

\* pump_children meets a child whose parent asked for its cancellation.
PumpCancelled(p) == Turn(p) /\ CancelRequested(p) /\ Teardown(p)

\* The slice ends with an exit or a fault, or the step fails: pump_children
\* tears the child down, and whoever steps the first process tears that down.
End(p) == Turn(p) /\ ~ CancelRequested(p) /\ Teardown(p)

\* run_foreground_process: between two rounds the session is cancelled while the
\* foreground process is not blocked, or pumping the residents or waiting for an
\* event fails.
Interrupt == walk = <<>> /\ Root \in Alive /\ walk' = <<>> /\ Teardown(Root)

\* request_deferred_cancel: a blocked foreground process is first told that its
\* call was cancelled, and gets one more round.
DeliverCancel ==
    /\ walk = <<>>
    /\ Root \in Alive
    /\ proc[Root].wait # None
    /\ proc' = [proc EXCEPT ![Root].wait = None]
    /\ walk' = Append(Walk(Root), LastRound)
    /\ UNCHANGED <<kids, pipes, next, eof>>

\* That round is over: cancellation_delivered.
EndLastRound ==
    /\ walk = <<LastRound>>
    /\ walk' = <<>>
    /\ IF Root \in Alive THEN Teardown(Root) ELSE UNCHANGED <<proc, kids, pipes, next, eof>>

FamilyInit ==
    /\ proc = [p \in Ids |->
                IF p = Root THEN [parent |-> None, depth |-> 0,
                                  streams |-> [s \in Streams |-> None], wait |-> None]
                ELSE None]
    /\ kids = [p \in Ids |-> EmptyKids]
    /\ pipes = [p \in PipeUsers |-> EmptyPipes]
    /\ walk = <<>>
    /\ next = Root + 1
    /\ eof = {}

ServiceCall(p) ==
    \/ Spend(p) \/ CreatePipe(p)
    \/ \E t \in Token : \/ \E side \in {"reader", "writer"} : CloseOwner(p, t, side)
                        \/ \E n \in 1 .. Room : Read(p, t, n) \/ Write(p, t, n)
    \/ \E specs \in Specs(p) : Spawn(p, specs)
    \/ \E s \in 1 .. ChildSlots : WaitChild(p, s) \/ Cancel(p, s) \/ Reap(p, s)

Step(p) == ServiceCall(p) \/ PollChild(p) \/ PollRead(p) \/ PollWrite(p) \/ PumpCancelled(p) \/ End(p)

FamilyNext ==
    \/ BeginRound \/ Interrupt \/ DeliverCancel \/ EndLastRound
    \/ \E p \in Alive : Step(p)

FamilySpec == FamilyInit /\ [][FamilyNext]_familyVars

\* The session keeps stepping its foreground process: a round that began goes
\* on, and the next one begins.
Turns == IF walk = <<>> THEN Root \in Alive /\ walk' = Walk(Root) ELSE walk' = Tail(walk)

FairFamilySpec == FamilySpec /\ WF_walk(Turns)

-----------------------------------------------------------------------------
(* Every pipe counts exactly the stream ends that living processes hold,   *)
(* no living process holds an end of a pipe that is gone, and no pipe      *)
(* without an end remains: spawning, failing to spawn, exit, fault and     *)
(* recursive teardown are all balanced (nested.rs, Drop in service.rs).    *)
EndpointsExact ==
    /\ \A p \in Alive : \A s \in Streams :
        proc[p].streams[s] # None => Known(proc[p].streams[s])
    /\ \A t \in Token : Known(t) =>
        LET held(reading) == MapThenSumSet(LAMBDA p : EndsOn(proc[p].streams, t, reading), Alive)
        IN  /\ Record(t).readers = held(TRUE)
            /\ Record(t).writers = held(FALSE)
            /\ Readers(Record(t)) + Writers(Record(t)) > 0

(* The children a process still has are exactly the ones its table shows   *)
(* running, and every living process but the first has a living parent:    *)
(* a parent that exits, faults or is cancelled leaves no orphan            *)
(* (terminate_children).                                                   *)
FamilyExact ==
    /\ \A c \in Alive \ {Root} : proc[c].parent \in Alive
    /\ \A p \in Alive :
        {kids[p][s].record.id : s \in {h \in HeldSlots(p) : kids[p][h].record.running}}
            = ChildrenOf(p)

(* Once any reader was told end of file, nothing is ever written to that   *)
(* pipe again, by its owner, by a child or by a process launched later     *)
(* that inherits the stream (read_pipe and attach).                        *)
EofIsFinal ==
    [][\A t \in eof : Known(t) /\ Known(t)' => Record(t)'.bytes <= Record(t).bytes]_familyVars

NoWriterLeft(t) ==
    /\ Known(t) => ~ Record(t).writer
    /\ \A p \in Alive : \A s \in Streams \ {"in"} : proc[p].streams[s] # t

(* A read that waits on a pipe whose every writer has closed its end or    *)
(* ended, by whatever way it ended, returns (poll_deferred_call).          *)
ReadersSeeTheEnd ==
    \A p \in Ids :
        (p \in Alive /\ proc[p].wait # None /\ proc[p].wait.kind = "Read"
            /\ NoWriterLeft(proc[p].wait.on))
        ~> (p \notin Alive \/ proc[p].wait = None)
=============================================================================
