--------------------------------- MODULE NativeIo ---------------------------------
(***************************************************************************)
(* The deferred service calls of one native process                         *)
(* (kernel/src/resident/threading/io.rs over kernel/src/deferred.rs).  Each  *)
(* thread of the process suspends at most one call; the kernel polls one    *)
(* suspended call per visit of the process, in the order of a cursor.       *)
(*                                                                          *)
(* Calls are of four kinds: a timer, a datagram receive, a stream read (pipe *)
(* and terminal reads, pipe writes and child waits have the same shape:      *)
(* readiness that the reply consumes or leaves, or an endpoint that is gone), *)
(* and a diagnostics request that a protected server answers.  Message       *)
(* contents are left out.                                                    *)
(***************************************************************************)
EXTENDS PendingCalls, Sequences

CONSTANTS
    Thread,          \* the native threads of the process (PROCESS_THREADS of them)
    Kind,            \* the kinds of calls they make
    ClientCapacity,  \* kernel IPC pairs shared by all diagnostics clients
    DatagramWait,    \* APPLICATION_DATAGRAM_WAIT_MILLISECONDS
    DiagnosticsWait, \* the 4000 ms of a diagnostics request
    MaxRequest, MaxTime, MaxItems    \* bounds of the model

VARIABLES
    suspended,       \* the vector of suspended calls
    cursor,          \* index of the next poll
    now,             \* the monotonic clock
    inbox,           \* datagrams queued on the port
    stream,          \* [items, open, held]: buffered data, whether a writer remains,
                     \* and whether the endpoint of the call does
    clients,         \* diagnostics clients: [operation, deadline, fate]
    answer,          \* thread -> reply of its last call
    stopped          \* "No", or why the process was stopped

ioVars == <<waits, calls, lastRequest, retained, suspended, cursor, clients, answer, stopped>>
worldVars == <<now, inbox, stream>>
nativeVars == <<ioVars, worldVars>>

OwnTask == 1
Port == 1
Stream == 2

Kinds == {"timer", "datagram", "stream", "diagnostics"}
Answers == {"None", "Success", "Timeout", "Conflict", "NotFound", "Cancelled", "Exhausted"}

CallerOf(t) == [task |-> OwnTask, thread |-> t]

\* An operation identity or a wait key: a slot and its generation.
Identity == [slot : Nat, generation : Nat]

\* What a caller may be, and what the tables hold: a registration of the wait
\* table and a copied call.
CallerId == [task : Nat, thread : Thread \cup {WholeTask}]

Registration ==
    [caller : CallerId, operation : Identity, deadline : Nat \cup {NoDeadline},
     resource : {NoResource} \cup Nat \cup Identity,
     interests : SUBSET {"ResourceReady", "Deadline"}]

CallRecord ==
    [caller : CallerId, request : Nat, bytes : Nat, state : {"New", "Waiting", "Ready"},
     key : Identity \cup {NoWait}]

\* A process has finitely many threads, and its clock, tables and generations
\* are finite.
ASSUME NativeAssumption ==
    /\ IsFiniteSet(Thread) /\ Kind \subseteq Kinds
    /\ LastGeneration \in Nat \ {0}
    /\ WaitCapacity \in Nat /\ CallCapacity \in Nat /\ ByteCapacity \in Nat
    /\ ClientCapacity \in Nat /\ DatagramWait \in Nat /\ DiagnosticsWait \in Nat
    /\ MaxRequest \in Nat /\ MaxTime \in Nat /\ MaxItems \in Nat

\* The values that stand for `None' are none of the values they are the absence of.
ASSUME AbsenceAssumption ==
    /\ WholeTask \notin Thread /\ NoDeadline \notin Nat
    /\ NoResource \notin Nat \cup Identity
    /\ NoWait \notin Registration \cup Identity /\ NoCall \notin CallRecord
    /\ NoReason \notin {"ResourceReady", "Deadline", "Closed", "Revoked", "Cancelled"}

\* `new' gives the tables and the byte account room for PROCESS_THREADS calls, and
\* the behaviour considered makes no more calls than a slot has generations.
ASSUME RoomAssumption ==
    /\ WaitCapacity >= Cardinality(Thread) /\ CallCapacity >= Cardinality(Thread)
    /\ ByteCapacity >= Cardinality(Thread)
    /\ MaxRequest <= LastGeneration

IoInit ==
    /\ WaitInit /\ CallsInit
    /\ suspended = <<>> /\ cursor = 0
    /\ now = 0 /\ inbox = 0 /\ stream = [items |-> 0, open |-> TRUE, held |-> TRUE]
    /\ clients = {}
    /\ answer = [t \in Thread |-> "None"]
    /\ stopped = "No"

Indices == DOMAIN suspended

\* A thread is blocked while its call is suspended; the others may call.
Suspended == {suspended[i].thread : i \in Indices}

SpecFor(t, kind, operation, deadline) ==
    [caller |-> CallerOf(t), operation |-> operation, deadline |-> deadline,
     resource |-> CASE kind = "timer" -> NoResource
                    [] kind = "datagram" -> Port
                    [] kind = "stream" -> Stream
                    [] kind = "diagnostics" -> operation,
     interests |-> CASE kind = "timer" -> {"Deadline"}
                     [] kind = "datagram" -> {"ResourceReady", "Deadline"}
                     [] OTHER -> {"ResourceReady"}]

------------------------------------------------------------------------------
(* Process stop: NativeResident::stop, which ends in `revoke`, and the       *)
(* cancellation of the task's diagnostics clients in the teardown.          *)

\* Mutant: the pending calls survive the revocation.
RevokeWaitsOnly(why) ==
    /\ stopped' = why
    /\ DiscardOwner(OwnTask, "Revoked")
    /\ suspended' = <<>> /\ cursor' = 0 /\ clients' = {}
    /\ UNCHANGED <<calls, lastRequest, retained, answer, worldVars>>

Revoke(why) ==
    /\ stopped' = why
    /\ DiscardOwner(OwnTask, "Revoked")
    /\ TeardownOwner(OwnTask, "Revoked")
    /\ suspended' = <<>> /\ cursor' = 0 /\ clients' = {}
    /\ UNCHANGED <<answer, worldVars>>

Stop == stopped = "No" /\ Revoke("Stopped")

------------------------------------------------------------------------------
(* prepare: the call completes at once, or it is copied, registered, bound  *)
(* and suspended.                                                           *)

Immediate(t, status) ==
    /\ answer' = [answer EXCEPT ![t] = status]
    /\ UNCHANGED <<waits, callVars, suspended, cursor, clients, stopped>>

\* begin_for, register (Blocked), bind_wait and the push.
Suspend(t, kind, deadline) ==
    \E s \in FreeCalls, w \in FreeWaits :
        /\ Len(suspended) < Cardinality(Thread)
        /\ Publish(SpecFor(t, kind, Operation(s), deadline), w)
        /\ BeginIn(s, CallerOf(t), lastRequest + 1, 1, "Waiting", Key(w))
        /\ suspended' = Append(suspended, [thread |-> t, kind |-> kind, operation |-> Operation(s)])
        /\ UNCHANGED <<cursor, clients, answer, stopped, worldVars>>

\* The conditions under which a step of `prepare` before the push is an error,
\* which stops the process.
CanSuspend(t) ==
    /\ Len(suspended) < Cardinality(Thread)
    /\ CanBegin(CallerOf(t), lastRequest + 1, 1)
    /\ FreeCalls # {} /\ FreeWaits # {}
    /\ \A w \in Held : ~Conflicts(waits[w].record.caller, CallerOf(t))

SuspendOrFail(t, kind, deadline) ==
    \/ Suspend(t, kind, deadline)
    \/ ~CanSuspend(t) /\ Revoke("Prepare")

\* The deadline of a timer may pass between the check of `prepare_deferred_call`
\* and the registration: begin_for, register (Ready), mark_ready, reply, finish.
TimerElapses(t) ==
    \E s \in FreeCalls :
        /\ CanBegin(CallerOf(t), lastRequest + 1, 1)
        /\ \A r \in FreeCalls : s <= r
        /\ now' = now + 1
        /\ calls' = [calls EXCEPT ![s].generation = IF @ < LastGeneration THEN @ + 1 ELSE @,
                                  ![s].retired = calls[s].generation = LastGeneration]
        /\ lastRequest' = lastRequest + 1
        /\ answer' = [answer EXCEPT ![t] = "Success"]
        /\ UNCHANGED <<waits, retained, suspended, cursor, clients, stopped, inbox, stream>>

CallTimer(t, deadline) ==
    \/ deadline <= now /\ Immediate(t, "Success") /\ UNCHANGED worldVars
    \/ deadline > now /\ SuspendOrFail(t, "timer", deadline)
    \/ deadline = now + 1 /\ TimerElapses(t)

CallDatagram(t) ==
    \/ inbox > 0 /\ inbox' = inbox - 1 /\ Immediate(t, "Success") /\ UNCHANGED <<now, stream>>
    \/ inbox = 0 /\ SuspendOrFail(t, "datagram", now + DatagramWait)

\* A read takes what is buffered, or reports end of file without writers.
StreamReady == stream.items > 0 \/ ~stream.open

TakeStream ==
    stream' = IF stream.items > 0 THEN [stream EXCEPT !.items = 0] ELSE stream

\* A token whose endpoint is closed is refused, one that names none is not found.
CallStream(t) ==
    \/ stream.held /\ StreamReady /\ TakeStream /\ Immediate(t, "Success") /\ UNCHANGED <<now, inbox>>
    \/ stream.held /\ ~StreamReady /\ SuspendOrFail(t, "stream", NoDeadline)
    \/ ~stream.held /\ UNCHANGED worldVars /\ (Immediate(t, "Conflict") \/ Immediate(t, "NotFound"))

CallDiagnostics(t) == SuspendOrFail(t, "diagnostics", now + DiagnosticsWait)

\* One handle call of a running thread.  Deadlines stay within the clock's bound.
Call(t) ==
    /\ stopped = "No" /\ t \notin Suspended /\ lastRequest < MaxRequest
    /\ \/ "timer" \in Kind /\ \E d \in 1 .. MaxTime : CallTimer(t, d)
       \/ "datagram" \in Kind /\ now + DatagramWait <= MaxTime /\ CallDatagram(t)
       \/ "stream" \in Kind /\ CallStream(t)
       \/ "diagnostics" \in Kind /\ now + DiagnosticsWait <= MaxTime /\ CallDiagnostics(t)

------------------------------------------------------------------------------
(* poll: one observation of the call under the cursor.                      *)

\* Vec::swap_remove.
SwapRemove(q, i) == SubSeq([q EXCEPT ![i] = q[Len(q)]], 1, Len(q) - 1)

\* Mutant: the cursor stays on the call it polled.
AdvanceStuck(i) == cursor' = i - 1

Advance(i) == cursor' = i % Len(suspended)

\* The reply of a completion; the combinations `deferred_reply` refuses have none.
ReplyTo(kind, reason) ==
    CASE reason \in {"Cancelled", "Revoked"} -> "Cancelled"
      [] reason = "Closed" -> "Conflict"
      [] reason = "Deadline" /\ kind = "timer" -> "Success"
      [] reason = "Deadline" /\ kind = "datagram" -> "Timeout"
      [] reason = "ResourceReady" /\ kind # "timer" -> "Success"
      [] OTHER -> "None"

\* What observe_operation makes of an observation: nothing yet, a completion of
\* the wait the call is bound to, or an error.
Waiting(i, s, w, resource) ==
    /\ s \in Named(suspended[i].operation)
    /\ calls[s].record.state = "Waiting"
    /\ w \in OfOperation(suspended[i].operation)
    /\ waits[w].record.resource = resource

ResourceOf(i) == SpecFor(suspended[i].thread, suspended[i].kind, suspended[i].operation, 0).resource

Completes(i, observation) ==
    \E s \in CallSlots, w \in WaitSlots :
        /\ Waiting(i, s, w, ResourceOf(i))
        /\ LET reason == Observed(waits[w].record, observation, now)
           IN  /\ reason # NoReason
               /\ Accepts(waits[w].record, reason)
               /\ ReplyTo(suspended[i].kind, reason) # "None"
        /\ Resolvable(s, CallerOf(suspended[i].thread), Key(w))

StillPending(i, observation) ==
    \E s \in CallSlots, w \in WaitSlots :
        /\ Waiting(i, s, w, ResourceOf(i))
        /\ Observed(waits[w].record, observation, now) = NoReason

\* observe_operation, resolve, swap_remove, complete_handle and finish.
CompleteCall(i, observation, status) ==
    /\ Completes(i, observation)
    /\ waits' = Resolved(OfOperation(suspended[i].operation))
    /\ Release(Named(suspended[i].operation))
    /\ suspended' = SwapRemove(suspended, i)
    /\ Advance(i)
    /\ answer' = [answer EXCEPT ![suspended[i].thread] = status]
    /\ UNCHANGED stopped

KeepWaiting(i, observation) ==
    /\ StillPending(i, observation)
    /\ Advance(i)
    /\ UNCHANGED <<waits, callVars, suspended, answer, stopped>>

Fails(i, observation) == ~Completes(i, observation) /\ ~StillPending(i, observation)

ReasonOf(i, observation) ==
    LET w == CHOOSE w \in OfOperation(suspended[i].operation) : TRUE
    IN  Observed(waits[w].record, observation, now)

\* The kinds that `observe` looks at; readiness is consumed with the completion.
PollService(i, observation, Consume) ==
    \/ /\ CompleteCall(i, observation, ReplyTo(suspended[i].kind, ReasonOf(i, observation)))
       /\ Consume
       /\ UNCHANGED <<clients, now>>
    \/ KeepWaiting(i, observation) /\ UNCHANGED <<clients, worldVars>>
    \/ Fails(i, observation) /\ Revoke("Poll")

PollTimer(i) == PollService(i, "Pending", UNCHANGED <<inbox, stream>>)

PollDatagram(i) ==
    IF inbox > 0
    THEN PollService(i, "ResourceReady", inbox' = inbox - 1 /\ UNCHANGED stream)
    ELSE PollService(i, "Pending", UNCHANGED <<inbox, stream>>)

\* Mutant: an open empty stream counts as readable.
PollStreamAnyway(i) == PollService(i, "ResourceReady", TakeStream /\ UNCHANGED inbox)

PollStream(i) ==
    IF ~stream.held THEN PollService(i, "ResourceClosed", UNCHANGED <<inbox, stream>>)
    ELSE IF StreamReady THEN PollService(i, "ResourceReady", TakeStream /\ UNCHANGED inbox)
    ELSE PollService(i, "Pending", UNCHANGED <<inbox, stream>>)

ClientsOf(i) == {c \in clients : c.operation = suspended[i].operation}

\* client::submit: the first poll of a call copies its request to a free kernel
\* pair, unless the server incarnation is gone or every pair is taken.
Submit(i) ==
    /\ ClientsOf(i) = {}
    /\ \/ /\ Cardinality(clients) < ClientCapacity
          /\ clients' = clients \cup
               {[operation |-> suspended[i].operation, fate |-> "Pending",
                 deadline |-> waits[CHOOSE w \in OfOperation(suspended[i].operation) : TRUE].record.deadline]}
          /\ Advance(i)
          /\ UNCHANGED <<waits, callVars, suspended, answer, stopped>>
       \/ /\ Cardinality(clients) >= ClientCapacity
          /\ CompleteCall(i, "ResourceReady", "Exhausted")
          /\ UNCHANGED clients
       \/ CompleteCall(i, "OwnerRevoked", "Cancelled") /\ UNCHANGED clients

FateObservation(fate) ==
    CASE fate = "ResourceReady" -> "ResourceReady"
      [] fate = "Closed" -> "ResourceClosed"
      [] fate = "Revoked" -> "OwnerRevoked"
      [] fate = "Cancelled" -> "Cancelled"
      [] fate = "Deadline" -> "Pending"

FateStatus(fate) ==
    CASE fate = "ResourceReady" -> "Success"
      [] fate = "Closed" -> "Conflict"
      [] fate \in {"Revoked", "Cancelled"} -> "Cancelled"
      [] fate = "Deadline" -> "Timeout"

\* client::consume: the fate of the call is taken from its client record.
Consume(i) ==
    \E c \in ClientsOf(i) :
        \/ /\ c.fate = "Pending"
           /\ Advance(i)
           /\ UNCHANGED <<waits, callVars, suspended, answer, stopped, clients>>
        \/ /\ c.fate # "Pending"
           /\ clients' = clients \ {c}
           /\ \/ CompleteCall(i, FateObservation(c.fate), FateStatus(c.fate))
              \/ KeepWaiting(i, FateObservation(c.fate))

ConsumeFails(i) ==
    \E c \in ClientsOf(i) :
        c.fate # "Pending" /\ Fails(i, FateObservation(c.fate)) /\ Revoke("Poll")

PollDiagnostics(i) ==
    \/ Submit(i) /\ UNCHANGED worldVars
    \/ Consume(i) /\ UNCHANGED worldVars
    \/ ConsumeFails(i)

Poll ==
    /\ stopped = "No" /\ suspended # <<>>
    /\ LET i == (cursor % Len(suspended)) + 1 IN
       \/ suspended[i].kind = "timer" /\ PollTimer(i)
       \/ suspended[i].kind = "datagram" /\ PollDatagram(i)
       \/ suspended[i].kind = "stream" /\ PollStream(i)
       \/ suspended[i].kind = "diagnostics" /\ PollDiagnostics(i)

------------------------------------------------------------------------------
(* The world: time, packets, writers, and the diagnostics server.           *)

Tick == now < MaxTime /\ now' = now + 1 /\ UNCHANGED <<ioVars, inbox, stream>>

Arrive ==
    /\ "datagram" \in Kind /\ inbox < MaxItems
    /\ inbox' = inbox + 1
    /\ UNCHANGED <<ioVars, now, stream>>

Written ==
    /\ "stream" \in Kind /\ stream.open
    /\ stream' \in {[stream EXCEPT !.items = 1], [stream EXCEPT !.open = FALSE]}
    /\ UNCHANGED <<ioVars, now, inbox>>

\* Another thread closes the endpoint, or the last reader of a pipe to write goes.
Closed ==
    /\ "stream" \in Kind /\ stream.held
    /\ stream' = [stream EXCEPT !.held = FALSE]
    /\ UNCHANGED <<ioVars, now, inbox>>

\* The server answers, closes its endpoint, dies, or lets the deadline of the
\* request pass; the IPC runtime records exactly one fate.
ServerFate(c) ==
    /\ c.fate = "Pending"
    /\ \E fate \in {"ResourceReady", "Closed", "Revoked"}
                     \cup (IF c.deadline <= now THEN {"Deadline"} ELSE {}) :
          clients' = (clients \ {c}) \cup {[c EXCEPT !.fate = fate]}
    /\ UNCHANGED <<waits, callVars, suspended, cursor, answer, stopped, worldVars>>

IoNext ==
    \/ \E t \in Thread : Call(t)
    \/ Poll \/ Stop \/ Tick \/ Arrive \/ Written \/ Closed
    \/ \E c \in clients : ServerFate(c)

IoSpec == IoInit /\ [][IoNext]_nativeVars

\* Every visit of the process polls once, the clock runs and the server ends
\* every request.
FairIoSpec ==
    /\ IoSpec
    /\ WF_nativeVars(Poll) /\ WF_nativeVars(Tick)
    /\ WF_nativeVars(\E c \in clients : ServerFate(c))

------------------------------------------------------------------------------
\* Every variable stays in its range, the cursor within the vector's capacity.
IoTypeOK ==
    /\ cursor \in 0 .. Cardinality(Thread)
    /\ \A i \in Indices : suspended[i].thread \in Thread /\ suspended[i].kind \in Kind
    /\ answer \in [Thread -> Answers]
    /\ now \in 0 .. MaxTime /\ inbox \in 0 .. MaxItems
    /\ stopped \in {"No", "Stopped", "Prepare", "Poll"}

\* The three tables agree at every moment: each suspended call is a pending call
\* bound to exactly one published wait of the same thread, and there is no other
\* pending call, published wait or suspended thread.  A thread whose entry were
\* missing from one table could never be woken.  A stopped process leaves nothing
\* behind in any of them.
SuspendedExact ==
    /\ IoTypeOK
    /\ stopped # "No" => suspended = <<>> /\ clients = {} /\ retained = 0
    /\ Cardinality(Pending) = Len(suspended)
    /\ Cardinality(Held) = Len(suspended)
    /\ Cardinality(Suspended) = Len(suspended)
    /\ \A i \in Indices :
          \E s \in Named(suspended[i].operation), w \in OfOperation(suspended[i].operation) :
              /\ calls[s].record.state = "Waiting"
              /\ calls[s].record.key = Key(w)
              /\ calls[s].record.caller = CallerOf(suspended[i].thread)
              /\ waits[w].record.caller = CallerOf(suspended[i].thread)

\* A datagram that leaves the queue is the reply of exactly the thread that polled
\* or called for it: the deadline and the packet racing each other lose no packet.
DatagramDelivered ==
    inbox' < inbox =>
      \/ /\ Suspended' = Suspended
         /\ \E t \in Thread \ Suspended : answer'[t] = "Success"
      \/ \E i \in Indices :
            /\ suspended[i].kind = "datagram"
            /\ Suspended' = Suspended \ {suspended[i].thread}
            /\ answer'[suspended[i].thread] = "Success"

\* The condition for which the suspended call i may be answered.
ReplyTrue(i) ==
    LET spec == waits[CHOOSE w \in OfOperation(suspended[i].operation) : TRUE].record
        status == answer'[suspended[i].thread]
    IN  CASE suspended[i].kind = "timer" -> status = "Success" /\ spec.deadline <= now
          [] suspended[i].kind = "datagram" ->
                \/ status = "Success" /\ inbox' = inbox - 1
                \/ status = "Timeout" /\ spec.deadline <= now /\ inbox = 0
          [] suspended[i].kind = "stream" -> IF stream.held THEN status = "Success" /\ StreamReady
                                           ELSE status = "Conflict"
          [] suspended[i].kind = "diagnostics" ->
                \/ status = "Exhausted" /\ Cardinality(clients) = ClientCapacity
                \/ status = "Cancelled" /\ ClientsOf(i) = {}
                \/ \E c \in ClientsOf(i) : status = FateStatus(c.fate) /\ c \notin clients'

\* A suspended call is answered only for a condition that holds: a timer and a
\* timeout not before their deadline, a timeout not over a queued datagram, a
\* stream not before data or end of file unless its endpoint is gone, and a
\* diagnostics call only for the fate its own request met.
RepliesTrue ==
    \A i \in Indices :
      (suspended[i].thread \notin Suspended' /\ stopped' = "No") => ReplyTrue(i)

\* The error paths of `prepare` and `poll` that would stop the process (a full
\* table, a stale operation, a wait that is not the bound one) are unreachable,
\* except the one a diagnostics deadline takes.
OnlyDeadlineFaults ==
    (stopped = "No" /\ stopped' \in {"Prepare", "Poll"})
       => \E c \in clients : c.fate = "Deadline"

\* Whatever order the packet, the deadline, the server's fate and the poll come
\* in, a call is answered truly, no packet is lost on the way, and nothing but
\* the deadline of a diagnostics request stops the process.
AnswerTrue == DatagramDelivered /\ RepliesTrue /\ OnlyDeadlineFaults

BlockedOn(t, kinds) == \E i \in Indices : suspended[i].thread = t /\ suspended[i].kind \in kinds

\* Every timer, datagram and diagnostics call ends, and a stream read ends once
\* the last writer or the endpoint is gone: the cursor passes over no suspended call for ever,
\* although a completion moves the last call into the hole it leaves.
CallsReturn ==
    \A t \in Thread :
        (\/ BlockedOn(t, {"timer", "datagram", "diagnostics"})
         \/ BlockedOn(t, {"stream"}) /\ ~ (stream.open /\ stream.held))
            ~> (t \notin Suspended)

\* A diagnostics request whose deadline passes is answered with the status that
\* troe-dispatch documents as "A bounded wait expired."
DeadlineIsTimeout ==
    [][\A i \in Indices :
         (\E c \in ClientsOf(i) : c.fate = "Deadline" /\ c \notin clients') /\ stopped' # "Stopped"
            => answer'[suspended[i].thread] = "Timeout"]_nativeVars
=============================================================================
