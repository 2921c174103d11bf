---------------------------- MODULE ThreadSync -----------------------------
(***************************************************************************)
(* Mutexes, conditions and permits of one process (sync.rs), with the part *)
(* of the thread table they drive: a thread's state, its stop request and  *)
(* the number of mutexes it owns.                                          *)
(*                                                                         *)
(* A thread has at most one operation, `wait', which is the sync_wait flag *)
(* and the waiter record in one.  The intrusive lists are sequences.  The  *)
(* generations that make stale operation and object handles fail are left  *)
(* out: a refused handle changes nothing.  `now' never runs backwards.     *)
(***************************************************************************)
EXTENDS Integers, Sequences, FiniteSets, SequencesExt

CONSTANTS
    Thread,       \* the process's started threads
    Object,       \* object slots
    Kinds,        \* the objects the process may create
    ObjectQuota,  \* SyncQuota.objects
    WaitQuota,    \* SyncQuota.waits
    Options,      \* wait options: a deadline and whether to observe a stop
    MaxNow,       \* bound on the clock
    NoThread, NoObject

ASSUME QuotaAssumption ==
    /\ ObjectQuota \in Nat /\ WaitQuota \in Nat /\ MaxNow \in Nat
    /\ NoThread \notin Thread /\ NoObject \notin Object
    /\ Options \subseteq [deadline : Nat, stop : BOOLEAN]

VARIABLES
    object,    \* slot -> object and its FIFO queue
    wait,      \* thread -> its operation
    state,     \* thread -> lifecycle state
    held,      \* thread -> owned_mutexes
    stop,      \* threads with a stop request
    stopping,  \* the process is stopped
    now

syncVars == <<object, wait, state, held, stop, stopping, now>>

FreeObject == [kind |-> "Free", owner |-> NoThread, poisoned |-> FALSE, policy |-> "Poison",
         count |-> 0, maximum |-> 0, queue |-> << >>]
Idle == [source |-> NoObject, mutex |-> NoObject, phase |-> "Idle", outcome |-> "None",
         options |-> [deadline |-> 0, stop |-> FALSE]]

\* Templates of create_mutex, create_condition and create_permit.
Mutex(policy) == [FreeObject EXCEPT !.kind = "Mutex", !.policy = policy]
Condition == [FreeObject EXCEPT !.kind = "Condition"]
Permit(initial, maximum) == [FreeObject EXCEPT !.kind = "Permit", !.count = initial, !.maximum = maximum]

SyncInit ==
    /\ object = [o \in Object |-> FreeObject]
    /\ wait = [t \in Thread |-> Idle]
    /\ state = [t \in Thread |-> "Ready"]
    /\ held = [t \in Thread |-> 0]
    /\ stop = {}
    /\ stopping = FALSE
    /\ now = 0

\* `caller': the running thread, with no result left to consume.
Caller(t) == ~ stopping /\ state[t] = "Running" /\ wait[t] = Idle

Due(t, options) ==
    IF now >= options.deadline THEN "TimedOut"
    ELSE IF options.stop /\ t \in stop THEN "Stopped" ELSE "None"
Cause(t) == Due(t, wait[t].options)
Expired(t) == Cause(t) # "None"

(***************************************************************************)
(* The two tables as one value, which the operations below transform.      *)
(***************************************************************************)
Now == [object |-> object, wait |-> wait, state |-> state, held |-> held]
Become(S) ==
    /\ object' = S.object /\ wait' = S.wait /\ state' = S.state /\ held' = S.held

\* complete_wait, for a set of threads.
Complete(S, T, Outcome(_)) ==
    [S EXCEPT !.wait = [t \in Thread |-> IF t \notin T THEN S.wait[t] ELSE
                           [S.wait[t] EXCEPT !.phase = "Complete", !.outcome = Outcome(t)]],
              !.state = [t \in Thread |-> IF t \in T THEN "Ready" ELSE S.state[t]]]

\* set_owner, and the counters of the old and the new owner.
SetOwner(S, m, owner) ==
    [S EXCEPT !.object[m].owner = owner,
              !.held = [t \in Thread |->
                  S.held[t] - (IF t = S.object[m].owner THEN 1 ELSE 0)
                            + (IF t = owner THEN 1 ELSE 0)]]

\* Mutant: the newest waiter gets the mutex.
GrantLast(S, m) ==
    LET q == S.object[m].queue
    IN  IF S.object[m].owner # NoThread \/ q = << >> THEN S
        ELSE Complete(SetOwner([S EXCEPT !.object[m].queue = Front(@)], m, Last(q)), {Last(q)},
                      LAMBDA t : IF S.wait[t].phase = "Reacquiring" THEN S.wait[t].outcome
                                 ELSE "Acquired")

\* grant_mutex: expired waiters leave, the first other one becomes the owner.
Grant(S, m) ==
    LET q == S.object[m].queue
        eligible == {k \in DOMAIN q : S.wait[q[k]].phase = "Reacquiring" \/ ~ Expired(q[k])}
        first == IF eligible = {} THEN Len(q) + 1 ELSE Min(eligible)
        leaving == {q[k] : k \in 1 .. first - 1}
        Left == Complete([S EXCEPT !.object[m].queue = SubSeq(q, first + 1, Len(q))],
                         leaving, Cause)
    IN  IF S.object[m].owner # NoThread THEN S
        ELSE IF S.object[m].poisoned
        THEN Complete([S EXCEPT !.object[m].queue = << >>], ToSet(q), LAMBDA t : "Poisoned")
        ELSE IF eligible = {} THEN Left
        ELSE Complete(SetOwner(Left, m, q[first]), {q[first]},
                      LAMBDA t : IF S.wait[t].phase = "Reacquiring" THEN S.wait[t].outcome
                                 ELSE "Acquired")

\* reacquire: the condition phase ends with a cause, the mutex comes first.
Reacquire(S, t, cause) ==
    LET m == S.wait[t].mutex
    IN  Grant([S EXCEPT !.wait[t].phase = "Reacquiring", !.wait[t].outcome = cause,
                        !.object[m].queue = Append(@, t)], m)

Waiters(S) == {t \in Thread : S.wait[t] # Idle}
References(w, o) == w.source = o \/ w.mutex = o

\* poison: the mutex has no owner again and everybody waiting for it is told.
Poison(S, m) ==
    LET told == {t \in Waiters(S) : References(S.wait[t], m) /\ S.wait[t].phase # "Complete"}
        Clear == [SetOwner(S, m, NoThread) EXCEPT !.object[m].poisoned = TRUE]
        Drained == [Clear EXCEPT !.object = [o \in Object |->
                      [Clear.object[o] EXCEPT !.queue = SelectSeq(@, LAMBDA t : t \notin told)]]]
    IN  Complete(Drained, told, LAMBDA t : "Poisoned")

\* admit: within the quota, at the tail of the source's queue.
CanAdmit == Cardinality(Waiters(Now)) < WaitQuota
Admit(S, t, source, mutex, options) ==
    [S EXCEPT !.wait[t] = [source |-> source, mutex |-> mutex, phase |-> "Queued",
                           outcome |-> "None", options |-> options],
              !.state[t] = "Blocked",
              !.object[source].queue = Append(@, t)]
IsMutex(o) == object[o].kind = "Mutex"

Create(t, kind) ==
    /\ Caller(t)
    /\ Cardinality({o \in Object : object[o].kind # "Free"}) < ObjectQuota
    /\ \E o \in Object : object[o].kind = "Free" /\ object' = [object EXCEPT ![o] = kind]
    /\ UNCHANGED <<wait, state, held, stop, stopping, now>>

\* Mutant: only queued waiters keep an object alive.
DestroyUnqueued(t, o) ==
    /\ Caller(t)
    /\ object[o].kind # "Free" /\ object[o].owner = NoThread
    /\ object[o].queue = << >>
    /\ object' = [object EXCEPT ![o] = FreeObject]
    /\ UNCHANGED <<wait, state, held, stop, stopping, now>>

\* destroy: no owner, and no operation that still refers to the object.
Destroy(t, o) ==
    /\ Caller(t)
    /\ object[o].kind # "Free" /\ object[o].owner = NoThread
    /\ ~ \E u \in Waiters(Now) : References(wait[u], o)
    /\ object' = [object EXCEPT ![o] = FreeObject]
    /\ UNCHANGED <<wait, state, held, stop, stopping, now>>

\* lock: taken when free and not poisoned, else queued (a try, and a wait
\* that is due already, change nothing).
Lock(t, m, options) ==
    /\ Caller(t) /\ IsMutex(m)
    /\ object[m].owner # t
    /\ Due(t, options) = "None"
    /\ ~ object[m].poisoned
    /\ \/ object[m].owner = NoThread /\ Become(SetOwner(Now, m, t))
       \/ object[m].owner # NoThread /\ CanAdmit /\ Become(Admit(Now, t, m, NoObject, options))
    /\ UNCHANGED <<stop, stopping, now>>

Unlock(t, m) ==
    /\ Caller(t) /\ IsMutex(m) /\ object[m].owner = t
    /\ Become(Grant(SetOwner(Now, m, NoThread), m))
    /\ UNCHANGED <<stop, stopping, now>>

\* condition_wait: queue on the condition and hand the mutex over, in one step.
ConditionWait(t, c, m, options) ==
    /\ Caller(t) /\ object[c].kind = "Condition"
    /\ IsMutex(m) /\ object[m].owner = t
    /\ \A u \in Waiters(Now) : wait[u].source = c => wait[u].mutex = m
    /\ Due(t, options) = "None"
    /\ CanAdmit
    /\ Become(Grant(SetOwner(Admit(Now, t, c, m, options), m, NoThread), m))
    /\ UNCHANGED <<stop, stopping, now>>

\* notify: the whole queue, or up to the first waiter whose time is not over.
Notify(t, c, all) ==
    /\ Caller(t) /\ object[c].kind = "Condition"
    /\ LET q == object[c].queue
           eligible == {k \in DOMAIN q : ~ Expired(q[k])}
           popped == IF all \/ eligible = {} THEN Len(q) ELSE Min(eligible)
       IN  Become(FoldLeft(LAMBDA S, u : Reacquire(S, u, IF Expired(u) THEN Cause(u) ELSE "Notified"),
                           [Now EXCEPT !.object[c].queue = SubSeq(q, popped + 1, Len(q))],
                           SubSeq(q, 1, popped)))
    /\ UNCHANGED <<stop, stopping, now>>

AcquirePermit(t, p, options) ==
    /\ Caller(t) /\ object[p].kind = "Permit"
    /\ Due(t, options) = "None"
    /\ \/ object[p].count # 0 /\ Become([Now EXCEPT !.object[p].count = @ - 1])
       \/ object[p].count = 0 /\ CanAdmit /\ Become(Admit(Now, t, p, NoObject, options))
    /\ UNCHANGED <<stop, stopping, now>>

\* release_permits: a batch of n, checked as a whole, for the first waiters
\* whose time is not over; the rest is stored.
ReleasePermits(t, p, n) ==
    /\ Caller(t) /\ object[p].kind = "Permit"
    /\ LET q == object[p].queue
           eligible == {k \in DOMAIN q : ~ Expired(q[k])}
           served == {k \in eligible : Cardinality({j \in eligible : j < k}) < n}
           stored == n - Cardinality(served)
           popped == IF stored > 0 THEN Len(q) ELSE Max(served)
       IN  /\ object[p].count + stored <= object[p].maximum
           /\ Become(Complete([Now EXCEPT !.object[p].queue = SubSeq(q, popped + 1, Len(q)),
                                          !.object[p].count = @ + stored],
                              {q[k] : k \in 1 .. popped},
                              LAMBDA u : IF Expired(u) THEN Cause(u) ELSE "Acquired"))
    /\ UNCHANGED <<stop, stopping, now>>

\* Mutant: a timed-out condition wait returns without its mutex.
ObserveUnlocked(t) ==
    /\ ~ stopping /\ wait[t].phase = "Queued" /\ Expired(t)
    /\ Become(Complete([Now EXCEPT !.object[wait[t].source].queue =
                           SelectSeq(@, LAMBDA u : u # t)], {t}, Cause))
    /\ UNCHANGED <<stop, stopping, now>>

\* observe: deadline and stop end a queued wait, and nothing later.
Observe(t) ==
    /\ ~ stopping /\ wait[t].phase = "Queued" /\ Expired(t)
    /\ LET Unlinked == [Now EXCEPT !.object[wait[t].source].queue =
                           SelectSeq(@, LAMBDA u : u # t)]
       IN  Become(IF wait[t].mutex # NoObject THEN Reacquire(Unlinked, t, Cause(t))
                  ELSE Complete(Unlinked, {t}, Cause))
    /\ UNCHANGED <<stop, stopping, now>>

\* finish_wait: the running thread consumes its outcome.
FinishWait(t) ==
    /\ ~ stopping /\ state[t] = "Running" /\ wait[t].phase = "Complete"
    /\ wait' = [wait EXCEPT ![t] = Idle]
    /\ UNCHANGED <<object, state, held, stop, stopping, now>>

\* stop_process: every thread is revoked, objects and operations are gone.
StopProcess ==
    /\ ~ stopping
    /\ stopping' = TRUE
    /\ object' = [o \in Object |-> FreeObject]
    /\ wait' = [t \in Thread |-> Idle]
    /\ state' = [t \in Thread |-> "Revoked"]
    /\ held' = [t \in Thread |-> 0]
    /\ UNCHANGED <<stop, now>>

Owned(t) == {m \in Object : object[m].owner = t}

\* The thread leaves: its operation is dropped and its mutexes are poisoned.
Leave(t, P(_, _)) ==
    /\ LET S == FoldSet(LAMBDA m, acc : P(acc, m), [Now EXCEPT !.wait[t] = Idle], Owned(t))
       IN  Become([S EXCEPT !.state[t] = "Exiting"])
    /\ UNCHANGED <<stop, stopping, now>>

\* Mutant: only the mutex's own queue learns that it is poisoned.
BeginExitQueueOnly(t) ==
    /\ ~ stopping /\ state[t] = "Running"
    /\ IF \E m \in Owned(t) : object[m].policy = "FailProcess" THEN StopProcess
       ELSE Leave(t, LAMBDA S, m :
              Grant([SetOwner(S, m, NoThread) EXCEPT !.object[m].poisoned = TRUE], m))

\* begin_exit: a thread that dies with an essential mutex takes the process
\* down, any other mutex it owns is poisoned.
BeginExit(t) ==
    /\ ~ stopping /\ state[t] = "Running"
    /\ IF \E m \in Owned(t) : object[m].policy = "FailProcess" THEN StopProcess
       ELSE Leave(t, Poison)

\* The thread table's dispatch, yield and request_stop, and the clock.
Dispatch(t) ==
    /\ ~ stopping /\ state[t] = "Ready" /\ \A u \in Thread : state[u] # "Running"
    /\ state' = [state EXCEPT ![t] = "Running"]
    /\ UNCHANGED <<object, wait, held, stop, stopping, now>>
Yield(t) ==
    /\ state[t] = "Running"
    /\ state' = [state EXCEPT ![t] = "Ready"]
    /\ UNCHANGED <<object, wait, held, stop, stopping, now>>
RequestStop(t) ==
    /\ ~ stopping /\ t \notin stop /\ state[t] # "Exiting"
    /\ stop' = stop \cup {t}
    /\ UNCHANGED <<object, wait, state, held, stopping, now>>
Tick ==
    /\ now < MaxNow
    /\ now' = now + 1
    /\ UNCHANGED <<object, wait, state, held, stop, stopping>>

Operation(t) ==
    \/ \E kind \in Kinds : Create(t, kind)
    \/ \E o \in Object :
          \/ Destroy(t, o)
          \/ Unlock(t, o)
          \/ \E all \in BOOLEAN : Notify(t, o, all)
          \/ \E n \in 1 .. Cardinality(Thread) : ReleasePermits(t, o, n)
          \/ \E options \in Options :
                \/ Lock(t, o, options)
                \/ AcquirePermit(t, o, options)
                \/ \E m \in Object : ConditionWait(t, o, m, options)
    \/ FinishWait(t)

SyncNext ==
    \/ \E t \in Thread : Operation(t) \/ Observe(t) \/ BeginExit(t)
                         \/ Dispatch(t) \/ Yield(t) \/ RequestStop(t)
    \/ StopProcess \/ Tick

SyncSpec == SyncInit /\ [][SyncNext]_syncVars
-----------------------------------------------------------------------------
Outcomes == {"None", "Acquired", "Notified", "TimedOut", "Stopped", "Poisoned"}

\* Objects, operations and thread states have the shapes of sync.rs.
SyncTypeOK ==
    /\ object \in [Object -> [kind : {"Free", "Mutex", "Condition", "Permit"},
                              owner : Thread \cup {NoThread}, poisoned : BOOLEAN,
                              policy : {"Poison", "FailProcess"}, count : Nat, maximum : Nat,
                              queue : Seq(Thread)]]
    /\ wait \in [Thread -> [source : Object \cup {NoObject}, mutex : Object \cup {NoObject},
                            phase : {"Idle", "Queued", "Reacquiring", "Complete"},
                            outcome : Outcomes, options : Options \cup {Idle.options}]]
    /\ state \in [Thread -> {"Ready", "Running", "Blocked", "Exiting", "Revoked"}]
    /\ held \in [Thread -> Nat]
    /\ stop \subseteq Thread
    /\ stopping \in BOOLEAN /\ now \in 0 .. MaxNow

\* owned_mutexes, which join, exit and detach consult, counts the mutexes a
\* thread owns after every hand-over, poisoning and teardown.
HeldExact == \A t \in Thread : held[t] = Cardinality(Owned(t))

\* The queue a wait's phase puts it in.
QueuedOn(w) ==
    IF w.phase = "Queued" THEN w.source ELSE IF w.phase = "Reacquiring" THEN w.mutex ELSE NoObject

\* The intrusive lists are exact: a thread is in one queue, once, while its
\* operation is pending, in no queue otherwise, and is blocked as long as it
\* is queued; the retained objects are live and of the right kind.
QueueExact ==
    \A t \in Thread :
        /\ \A o \in Object :
              Cardinality({k \in DOMAIN object[o].queue : object[o].queue[k] = t})
                  = IF QueuedOn(wait[t]) = o THEN 1 ELSE 0
        /\ (QueuedOn(wait[t]) # NoObject) <=> (state[t] = "Blocked")

\* destroy refuses while any operation refers to an object, so the objects of
\* a retained wait stay live and keep their kind up to its completion.
ReferencesLive ==
    \A t \in Waiters(Now) :
        /\ object[wait[t].source].kind # "Free"
        /\ wait[t].mutex # NoObject =>
              object[wait[t].source].kind = "Condition" /\ IsMutex(wait[t].mutex)

\* The objects, the operations and the thread table agree at every step.
ObjectsExact == SyncTypeOK /\ HeldExact /\ QueueExact /\ ReferencesLive

\* Nobody waits for what is there: a mutex without owner or a permit with a
\* count has an empty queue, and no operation waits on a poisoned mutex, not
\* even one that is still in its condition phase.
NoLostWakeup ==
    \A o \in Object :
        /\ IsMutex(o) /\ object[o].owner = NoThread => object[o].queue = << >>
        /\ object[o].poisoned =>
              ~ \E t \in Waiters(Now) : References(wait[t], o) /\ wait[t].phase # "Complete"
        /\ object[o].count > 0 => object[o].queue = << >>

\* What a completed wait reports is true when the thread comes to read it: an
\* acquired lock and any finished condition wait (timed out ones included)
\* own the mutex, a poisoned or timed-out lock does not.
OutcomeTrue ==
    \A t \in Waiters(Now) : wait[t].phase = "Complete" =>
        LET m == IF wait[t].mutex # NoObject THEN wait[t].mutex ELSE wait[t].source
        IN  IsMutex(m) =>
              (object[m].owner = t <=> \/ wait[t].outcome = "Acquired"
                                       \/ wait[t].mutex # NoObject /\ wait[t].outcome # "Poisoned")

\* Thread t gets the mutex or a permit o in this step.
Gains(t, o) ==
    \/ object[o].owner # t /\ object'[o].owner = t
    \/ /\ wait[t].phase = "Queued" /\ wait[t].source = o /\ object[o].kind = "Permit"
       /\ wait'[t].outcome = "Acquired"
    \/ object'[o].count < object[o].count /\ state[t] = "Running" /\ ~ stopping'

\* Hand-over is first in first out: nobody gets a mutex or a permit that
\* others wait for ahead of a waiter whose time is not over, neither a caller
\* that arrives later nor one queued behind.
FirstInFirstOut ==
    \A o \in Object, t \in Thread : Gains(t, o) =>
       \A k \in DOMAIN object[o].queue :
           LET u == object[o].queue[k]
           IN  u # t /\ wait'[u] = wait[u]
               => \E j \in 1 .. k - 1 : object[o].queue[j] = t

\* A notification reaches a waiter whose time is not over, if there is one:
\* expired waiters leave with their own cause and do not use it up.
NotificationDelivered ==
    \A c \in Object, t \in Thread :
       Notify(t, c, FALSE) /\ (\E k \in DOMAIN object[c].queue : ~ Expired(object[c].queue[k]))
       => \E u \in ToSet(object[c].queue) : wait'[u].outcome = "Notified"
=============================================================================
