-------------------------------- MODULE WaitTable --------------------------------
(***************************************************************************)
(* The wait-registration table of troe-task (wait.rs).  A suspended call    *)
(* publishes one registration that names its caller, its pending operation, *)
(* the resource generation it observes and the conditions that may end it.  *)
(* A registration is completed once, by whichever condition comes first,    *)
(* and its slot takes a new generation, so that a late wake names nothing.  *)
(* Event counters are left out.  The growth of the vector is left out too:  *)
(* a slot that was never pushed is an empty slot of generation one.         *)
(***************************************************************************)
EXTENDS Naturals, FiniteSets

CONSTANTS
    WaitCapacity,    \* immutable bound on registrations
    LastGeneration,   \* the last generation of a slot (u32::MAX)
    WholeTask,        \* a caller that is a whole task
    NoResource,      \* `resource: None`
    NoDeadline,      \* `deadline: None`
    NoWait,          \* an empty slot
    NoReason         \* no condition was observed

VARIABLES waits      \* slot -> [generation, retired, record]

WaitSlots == 1 .. WaitCapacity

EndReasons == {"Cancelled", "Closed", "Revoked"}

EmptyWait == [generation |-> 1, retired |-> FALSE, record |-> NoWait]

WaitInit == waits = [s \in WaitSlots |-> EmptyWait]

Held == {s \in WaitSlots : waits[s].record # NoWait}

Key(s) == [slot |-> s, generation |-> waits[s].generation]

\* PendingCaller::conflicts: a whole-task caller excludes every sibling.
Conflicts(a, b) ==
    /\ a.task = b.task
    /\ a.thread = WholeTask \/ b.thread = WholeTask \/ a.thread = b.thread

\* WaitSpec::new_for: some condition is selected, and what it needs is there.
ValidSpec(spec) ==
    /\ spec.interests # {}
    /\ "ResourceReady" \in spec.interests => spec.resource # NoResource
    /\ "Deadline" \in spec.interests => spec.deadline # NoDeadline

Accepts(spec, reason) ==
    CASE reason = "ResourceReady" -> spec.resource # NoResource /\ reason \in spec.interests
      [] reason = "Deadline" -> spec.deadline # NoDeadline /\ reason \in spec.interests
      [] reason = "Closed" -> spec.resource # NoResource
      [] OTHER -> TRUE

Due(spec, now) == spec.deadline # NoDeadline /\ spec.deadline <= now

\* The reason an observation stands for; an elapsed deadline is seen only when
\* nothing else is.
Observed(spec, observation, now) ==
    CASE observation = "Pending" -> IF Due(spec, now) THEN "Deadline" ELSE NoReason
      [] observation = "ResourceClosed" -> "Closed"
      [] observation = "OwnerRevoked" -> "Revoked"
      [] OTHER -> observation

\* Mutant: the generation wraps to one instead of retiring the slot.
ResolvedWraps(S) ==
    [s \in WaitSlots |->
        IF s \notin S THEN waits[s]
        ELSE [waits[s] EXCEPT !.record = NoWait, !.generation = (@ % LastGeneration) + 1]]

\* resolve_index for every slot of S: the record leaves, the key dies with it.
Resolved(S) ==
    [s \in WaitSlots |->
        IF s \notin S THEN waits[s]
        ELSE IF waits[s].generation < LastGeneration
        THEN [waits[s] EXCEPT !.record = NoWait, !.generation = @ + 1]
        ELSE [waits[s] EXCEPT !.record = NoWait, !.retired = TRUE]]

\* `register` refuses a caller that conflicts with a published one and an
\* operation that is already waiting.
CanRegister(spec) ==
    \A s \in Held :
        /\ ~Conflicts(waits[s].record.caller, spec.caller)
        /\ waits[s].record.operation # spec.operation

FreeWaits == {s \in WaitSlots : waits[s].record = NoWait /\ ~waits[s].retired}

\* `register` when no condition is visible: the first free slot publishes it.
Publish(spec, s) ==
    /\ CanRegister(spec)
    /\ s \in FreeWaits /\ \A r \in FreeWaits : s <= r
    /\ waits' = [waits EXCEPT ![s].record = spec]

Register(spec, observation, now) ==
    LET reason == Observed(spec, observation, now) IN
    /\ CanRegister(spec)
    /\ \/ reason # NoReason /\ Accepts(spec, reason) /\ UNCHANGED waits
       \/ reason = NoReason /\ \E s \in FreeWaits : Publish(spec, s)

\* `wake`: the exact key and an admitted reason.
WakeKey(key, reason) ==
    \E s \in Held :
        /\ Key(s) = key
        /\ Accepts(waits[s].record, reason)
        /\ waits' = Resolved({s})

Matching(resource, reason) ==
    {s \in Held : waits[s].record.resource = resource /\ Accepts(waits[s].record, reason)}

WakeResource(resource, reason) ==
    /\ reason \in {"ResourceReady", "Closed"}
    /\ waits' = Resolved(Matching(resource, reason))

Expired(now) ==
    {s \in Held : "Deadline" \in waits[s].record.interests /\ Due(waits[s].record, now)}

Expire(now) == waits' = Resolved(Expired(now))

OfOperation(operation) == {s \in Held : waits[s].record.operation = operation}

\* `observe_operation`: one exact operation, whose resource must be the one the
\* registration names.
ObserveOperation(operation, resource, observation, now) ==
    \E s \in OfOperation(operation) :
        LET spec == waits[s].record
            reason == Observed(spec, observation, now)
        IN  /\ resource = spec.resource
            /\ \/ reason = NoReason /\ UNCHANGED waits
               \/ reason # NoReason /\ Accepts(spec, reason) /\ waits' = Resolved({s})

CancelOperation(operation, reason) ==
    /\ reason \in EndReasons
    /\ waits' = Resolved(OfOperation(operation))

OfTask(task) == {s \in Held : waits[s].record.caller.task = task}

\* Mutant: only the first registration of the task is discarded.
DiscardFirst(task, reason) ==
    /\ reason \in {"Cancelled", "Revoked"}
    /\ waits' = Resolved({s \in OfTask(task) : \A r \in OfTask(task) : s <= r})

DiscardOwner(task, reason) ==
    /\ reason \in {"Cancelled", "Revoked"}
    /\ waits' = Resolved(OfTask(task))

\* `cancel_owner` completes the first registration of the task and no other.
CancelOwner(task, reason) ==
    /\ reason \in {"Cancelled", "Revoked"}
    /\ waits' = Resolved({s \in OfTask(task) : \A r \in OfTask(task) : s <= r})

------------------------------------------------------------------------------
\* The slots stay inside their generation range and hold valid registrations.
WaitTypeOK ==
    \A s \in WaitSlots :
        /\ waits[s].generation \in 1 .. LastGeneration
        /\ waits[s].retired \in BOOLEAN
        /\ waits[s].record # NoWait => ValidSpec(waits[s].record)

\* A key names one registration for ever.  The record of a slot changes only
\* together with its generation, generations never go back, and a slot whose
\* generations are used up is never published again: a delayed wake for an old
\* key can not complete a newer call.
KeyNamesOneWait ==
    \A s \in WaitSlots :
      /\ waits'[s].generation >= waits[s].generation
      /\ waits[s].retired => waits'[s] = waits[s]
      /\ (waits[s].record # NoWait /\ waits'[s].record # waits[s].record)
            => /\ waits'[s].record = NoWait
               /\ waits'[s].retired \/ waits'[s].generation > waits[s].generation
=============================================================================
