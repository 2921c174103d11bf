------------------------------- MODULE PendingCalls -------------------------------
(***************************************************************************)
(* The table of copied requests that await a deferred completion (wait.rs,  *)
(* PendingCallTable).  A call is New when its request has been copied,      *)
(* Waiting once it is bound to one published wait, and Ready when that wait *)
(* completes; only a Ready call is finished, and its slot then takes a new  *)
(* generation.  Event counters are left out.                                *)
(***************************************************************************)
EXTENDS WaitTable, FiniteSetsExt

CONSTANTS
    CallCapacity,    \* immutable bound on calls
    ByteCapacity,    \* bound on the copied request bytes of all calls
    NoCall           \* an empty slot

VARIABLES
    calls,           \* slot -> [generation, retired, record]
    lastRequest,     \* last_request_id
    retained         \* stats.retained_bytes

callVars == <<calls, lastRequest, retained>>

CallSlots == 1 .. CallCapacity

CallsInit ==
    /\ calls = [s \in CallSlots |-> [generation |-> 1, retired |-> FALSE, record |-> NoCall]]
    /\ lastRequest = 0
    /\ retained = 0

Pending == {s \in CallSlots : calls[s].record # NoCall}

Operation(s) == [slot |-> s, generation |-> calls[s].generation]

\* validate_operation: the slots, one or none, that an identity still names.
Named(operation) == {s \in Pending : Operation(s) = operation}

FreeCalls == {s \in CallSlots : calls[s].record = NoCall /\ ~calls[s].retired}

CanBegin(caller, request, bytes) ==
    /\ request > lastRequest
    /\ \A s \in Pending : ~Conflicts(calls[s].record.caller, caller)
    /\ retained + bytes <= ByteCapacity

Copied(caller, request, bytes, state, key) ==
    [caller |-> caller, request |-> request, bytes |-> bytes, state |-> state, key |-> key]

\* `begin_for`, leaving the call in the state the rest of its handler gives it.
BeginIn(s, caller, request, bytes, state, key) ==
    /\ CanBegin(caller, request, bytes)
    /\ s \in FreeCalls /\ \A r \in FreeCalls : s <= r
    /\ calls' = [calls EXCEPT ![s].record = Copied(caller, request, bytes, state, key)]
    /\ lastRequest' = request
    /\ retained' = retained + bytes

Begin(caller, request, bytes) ==
    \E s \in FreeCalls : BeginIn(s, caller, request, bytes, "New", NoWait)

BindWait(operation, key) ==
    /\ \E s \in Named(operation) :
          /\ calls[s].record.state = "New"
          /\ calls' = [calls EXCEPT ![s].record.state = "Waiting", ![s].record.key = key]
    /\ UNCHANGED <<lastRequest, retained>>

MarkReady(operation) ==
    /\ \E s \in Named(operation) :
          /\ calls[s].record.state = "New"
          /\ calls' = [calls EXCEPT ![s].record.state = "Ready"]
    /\ UNCHANGED <<lastRequest, retained>>

\* `resolve` accepts a completion of this caller for the wait the call is bound to.
Resolvable(s, caller, key) ==
    calls[s].record.caller = caller /\ calls[s].record.state = "Waiting" /\ calls[s].record.key = key

ResolveCall(operation, caller, key) ==
    /\ \E s \in Named(operation) :
          /\ Resolvable(s, caller, key)
          /\ calls' = [calls EXCEPT ![s].record.state = "Ready"]
    /\ UNCHANGED <<lastRequest, retained>>

\* The request bytes that the calls in the slots of S are charged with.
BytesOf(S) == MapThenSumSet(LAMBDA s : calls[s].record.bytes, S)

\* release_index for every slot of S: record and bytes leave, the identity dies.
Release(S) ==
    /\ calls' = [s \in CallSlots |->
          IF s \notin S THEN calls[s]
          ELSE IF calls[s].generation < LastGeneration
          THEN [calls[s] EXCEPT !.record = NoCall, !.generation = @ + 1]
          ELSE [calls[s] EXCEPT !.record = NoCall, !.retired = TRUE]]
    /\ retained' = retained - BytesOf(S)
    /\ UNCHANGED lastRequest

FinishCall(operation) ==
    \E s \in Named(operation) : calls[s].record.state = "Ready" /\ Release({s})

CallsOf(task) == {s \in Pending : calls[s].record.caller.task = task}

TeardownOwner(task, reason) == reason \in EndReasons /\ Release(CallsOf(task))

------------------------------------------------------------------------------
\* Records are in the fields' ranges.
CallTypeOK ==
    /\ \A s \in CallSlots : calls[s].generation \in 1 .. LastGeneration
    /\ \A s \in Pending :
          /\ calls[s].record.state \in {"New", "Waiting", "Ready"}
          /\ calls[s].record.request \in 1 .. lastRequest
          /\ (calls[s].record.state = "Waiting") => calls[s].record.key # NoWait
    /\ lastRequest \in Nat

\* No two calls are held for conflicting callers or for one request identity, and
\* the bytes charged are those of the requests still held and they stay within
\* the ceiling: `begin_for`, `finish` and `teardown_owner` each keep the account.
CallsExact ==
    /\ CallTypeOK
    /\ \A r, s \in Pending : r # s =>
          /\ ~Conflicts(calls[r].record.caller, calls[s].record.caller)
          /\ calls[r].record.request # calls[s].record.request
    /\ retained = BytesOf(Pending)
    /\ retained <= ByteCapacity

\* An operation identity stands for one request for ever, and that request only
\* moves New, Waiting, Ready: a completion that arrives for an identity already
\* finished or torn down changes nothing, and a bound call never changes its wait.
OperationNamesOneCall ==
    \A s \in Pending :
      LET old == calls[s].record
          new == calls'[s].record
      IN  \/ /\ new = NoCall
             /\ calls'[s].generation > calls[s].generation \/ calls'[s].retired
          \/ /\ new # NoCall
             /\ calls'[s].generation = calls[s].generation
             /\ \/ new = old
                \/ old.state # "Ready" /\ new = [old EXCEPT !.state = "Ready"]
                \/ old.state = "New" /\ new = [old EXCEPT !.state = "Waiting", !.key = new.key]
=============================================================================
