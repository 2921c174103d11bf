-------------------------------- MODULE Ipc --------------------------------
(***************************************************************************)
(* Synchronous calls between protected tasks: the Runtime of               *)
(* crates/runtime/troe-service/src/ipc.rs, driven as ProtectedRuntime      *)
(* (troe-machine, mmu/protected.rs) and the kernel's service supervisor    *)
(* drive it.  One user task runs at a time; a call or a reply hands the    *)
(* processor straight to the other side.                                   *)
(*                                                                         *)
(* A caller has one call at most, so a call is named by its caller; the    *)
(* identity of a call that has ended matches none that follows, and a      *)
(* server that still holds it holds `Ended'.  A server has one endpoint.   *)
(* Deadlines are the time that is left.  A queue slot is zeroed and        *)
(* recycled before the operation that released it returns, so that queued  *)
(* payloads need no state beyond the order of the calls.                   *)
(***************************************************************************)
EXTENDS Integers, Sequences, SequencesExt, FiniteSets

CONSTANTS
    Server,      \* tasks that own an endpoint
    Client,      \* tasks that own none
    Kernel,      \* kernel clients
    Opens,       \* pairs <<caller, server>> that may be granted handles
    Calls,       \* pending calls the table holds
    MaxQueued,   \* limits.queued_calls
    MaxBadges,   \* MAX_BADGES_PER_ENDPOINT
    MaxHandles,  \* bound: handles of one client at one endpoint
    MaxMembers,  \* MAX_CALL_CHAIN_MEMBERS
    MaxLeft,     \* longest deadline
    MaxLate      \* bound: how late a deadline is noticed

Task == Server \cup Client
Actor == Task \cup Kernel

None == 0
Ended == -1
Never == MaxLeft + 1
Statuses == {"Replied", "Failed"}
Events == {"Call", "ClientClosed", "Deadline"}

VARIABLES
    r,       \* the Runtime
    active,  \* the task that runs, None in the kernel
    expects  \* what each actor stopped for: "Reply", "Event" or "Nothing"

ipcVars == <<r, active, expects>>

-----------------------------------------------------------------------------
(* Call chains: a set of sequences of tasks, as CallChain has them.        *)

ChainsOf(chains, t) == {chain \in chains : Contains(chain, t)}

Enters(chains, caller, target) ==
    /\ ChainsOf(chains, target) = {} /\ caller # target
    /\ \A chain \in ChainsOf(chains, caller) : Last(chain) = caller /\ Len(chain) < MaxMembers

Enter(chains, caller, target) ==
    IF ChainsOf(chains, caller) = {} THEN chains \cup {<<caller, target>>}
    ELSE {IF Contains(chain, caller) THEN Append(chain, target) ELSE chain : chain \in chains}

\* unwind by the active member, detach by another one.
Leave(chains, t) ==
    LET mine == ChainsOf(chains, t)
        rest == {Front(chain) : chain \in {c \in mine : Last(c) = t /\ Len(c) > 2}}
    IN  (chains \ mine) \cup rest

-----------------------------------------------------------------------------
(* Parts of the Runtime, from state s to state.                            *)

Pending(s, c) == s.server[c] # None
Delivered(s, c) == Pending(s, c) /\ s.inbound[s.server[c]] = c
Queue(s, e) == SelectSeq(s.order, LAMBDA c : s.server[c] = e /\ ~ Delivered(s, c))
Idle(s, e) == e \in s.waiting /\ s.inbound[e] = None /\ ~ Pending(s, e)

\* Mutant: the chain keeps the server of a call that ended.
EndCallChained(s, c, status) ==
    LET e == s.server[c]
        held == Delivered(s, c)
    IN  [s EXCEPT !.server[c] = None, !.left[c] = 0, !.order = Remove(@, c),
                  !.resume[c] = status,
                  !.inbound[e] = IF held THEN Ended ELSE @]

\* end_call: the caller gets a status, a server that held the call keeps a token of nothing.
EndCall(s, c, status) ==
    LET e == s.server[c]
        held == Delivered(s, c)
    IN  [s EXCEPT !.server[c] = None, !.left[c] = 0, !.order = Remove(@, c),
                  !.resume[c] = status,
                  !.inbound[e] = IF held THEN Ended ELSE @,
                  !.chains = IF held THEN Leave(@, e) ELSE @]

RECURSIVE EndAll(_, _, _)
EndAll(s, callers, status) ==
    IF callers = <<>> THEN s ELSE EndAll(EndCall(s, Head(callers), status), Tail(callers), status)

RECURSIVE Expire(_)

\* Calls that are due end in the order of their deadlines, then of admission.
Expire(s) ==
    LET due == SelectSeq(s.order, LAMBDA c : s.left[c] <= 0)
        first == SelectSeq(due, LAMBDA c : \A d \in ToSet(due) : s.left[c] <= s.left[d])
    IN  IF due = <<>> THEN s ELSE Expire(EndCall(s, Head(first), "Failed"))

\* delivered: the server is given the call of c.
Deliver(s, c, e) ==
    [s EXCEPT !.inbound[e] = c, !.waiting = @ \ {e}, !.resume[e] = "Call",
              !.chains = IF c \in Task THEN Enter(@, c, e) ELSE @]

Event(s, e, event) == [s EXCEPT !.waiting = @ \ {e}, !.resume[e] = event]

\* Whether observe_wait finds something for a waiting server.
Ready(s, e) == s.limit[e] <= 0 \/ s.closed[e] > 0 \/ Queue(s, e) # <<>>

\* Mutant: the newest queued call goes first.
ObserveNewest(s, e) ==
    LET c == Last(Queue(s, e)) IN
    IF ~ Ready(s, e) THEN [s EXCEPT !.waiting = @ \cup {e}]
    ELSE IF s.limit[e] <= 0 THEN Event(s, e, "Deadline")
    ELSE IF s.closed[e] > 0 THEN [Event(s, e, "ClientClosed") EXCEPT !.closed[e] = @ - 1]
    ELSE IF c \in Task /\ ~ Enters(s.chains, c, e) THEN EndCall(s, c, "Failed")
    ELSE Deliver(s, c, e)

\* observe_wait: an elapsed deadline goes first, then a closed client, then
\* the oldest queued call; a call that cannot enter its chain is refused.
Observe(s, e) ==
    LET c == Head(Queue(s, e)) IN
    IF ~ Ready(s, e) THEN [s EXCEPT !.waiting = @ \cup {e}]
    ELSE IF s.limit[e] <= 0 THEN Event(s, e, "Deadline")
    ELSE IF s.closed[e] > 0 THEN [Event(s, e, "ClientClosed") EXCEPT !.closed[e] = @ - 1]
    ELSE IF c \in Task /\ ~ Enters(s.chains, c, e) THEN EndCall(s, c, "Failed")
    ELSE Deliver(s, c, e)

CloseHandle(s, a, e) ==
    [s EXCEPT !.handles[a, e] = @ - 1,
              !.closed[e] = IF s.handles[a, e] = 1 THEN @ + 1 ELSE @]

\* Every handle of owner closes; each of its badges gets a pending closure.
CloseOwner(s, a) ==
    [s EXCEPT !.handles = [p \in Opens |-> IF p[1] = a THEN 0 ELSE @[p]],
              !.closed = [e \in Server |-> IF <<a, e>> \in Opens /\ s.handles[a, e] > 0
                                           THEN @[e] + 1 ELSE @[e]]]

\* The endpoint of e closes, with all handles to it and the pending closures.
CloseEndpoint(s, e) ==
    IF e \notin Server THEN s
    ELSE [s EXCEPT !.handles = [p \in Opens |-> IF p[2] = e THEN 0 ELSE @[p]], !.closed[e] = 0]

\* ProtectedRuntime::terminate on the state after expire.
Terminate(s, a) ==
    LET held == SelectSeq(s.order, LAMBDA c : s.server[c] = a)
        own == SelectSeq(s.order, LAMBDA c : c = a)
        t == CloseOwner(EndAll(EndAll(CloseEndpoint(s, a), held, "Failed"), own, "Failed"), a)
    IN  [t EXCEPT !.live = @ \ {a}, !.waiting = @ \ {a}, !.inbound[a] = None, !.resume[a] = "None"]

\* Whether the calls from e on lead back to caller.
RECURSIVE Leads(_, _, _)
Leads(s, e, caller) == e = caller \/ (Pending(s, e) /\ Leads(s, s.server[e], caller))

-----------------------------------------------------------------------------
(* The driver.                                                             *)

\* The runtime becomes s and a, if it is a user task, runs with its completion.
HandTo(s, a) ==
    /\ active' = IF a \in Task THEN a ELSE None
    /\ r' = IF a \in Task THEN [s EXCEPT !.resume[a] = "None"] ELSE s

\* Actor a stops for what it asked for; another one runs.
Stops(a, for, s, next) ==
    /\ expects' = [b \in Actor |-> IF b = a THEN for
                                   ELSE IF b = next /\ b \in Task THEN "Nothing" ELSE expects[b]]
    /\ HandTo(s, next)

\* A typed result without admission; the caller goes on.
Immediate(a, status) ==
    IF a \in Task THEN UNCHANGED ipcVars
    ELSE Stops(a, "Reply", [r EXCEPT !.resume[a] = status], None)

Direct(e) == Idle(r, e) /\ r.limit[e] > 0 /\ r.closed[e] = 0 /\ Queue(r, e) = <<>>

\* Mutant: only the chains are searched for a cycle.
CyclicInChains(a, e) == a = e \/ ChainsOf(r.chains, a) \cap ChainsOf(r.chains, e) # {}

Cyclic(a, e) == a = e \/ (Pending(r, e) /\ Leads(r, e, a))

Deep(a) == \E chain \in ChainsOf(r.chains, a) : Len(chain) >= MaxMembers
Fits(e) == Len(r.order) < Calls /\ (Direct(e) \/ Len(Queue(r, e)) < MaxQueued)

Runs(a) == IF a \in Task THEN active = a ELSE active = None /\ r.resume[a] = "None"

\* Runtime::call, from a running task or a kernel client.
Call(a, e, left) ==
    /\ Runs(a) /\ ~ Pending(r, a) /\ r.handles[a, e] > 0
    /\ LET s == [r EXCEPT !.server[a] = e, !.left[a] = left, !.order = Append(@, a)]
           refused == left = 0 \/ Deep(a) \/ Cyclic(a, e) \/ ~ Fits(e)
                          \/ (Direct(e) /\ a \in Task /\ ~ Enters(r.chains, a, e))
       IN  \/ refused /\ Immediate(a, "Failed")
           \/ ~ refused /\ Direct(e) /\ Stops(a, "Reply", Deliver(s, a, e), IF a \in Task THEN e ELSE None)
           \/ ~ refused /\ ~ Direct(e) /\ Stops(a, "Reply", s, None)

\* reply_wait with a token: the caller goes on at once, the server waits.
Reply(a, left) ==
    LET c == r.inbound[a]
        s == EndCall(r, c, "Replied") IN
    /\ active = a /\ a \in Server
    /\ c \in Actor /\ r.left[c] > 0
    /\ Stops(a, "Event", [s EXCEPT !.inbound[a] = None, !.limit[a] = left, !.waiting = @ \cup {a}], c)

\* reply_wait without a token: an event that is there is returned at once.
Wait(a, left) ==
    LET s == Observe(Expire([r EXCEPT !.limit[a] = left]), a) IN
    /\ active = a /\ a \in Server
    /\ r.inbound[a] = None
    /\ IF s.resume[a] # "None"
       THEN HandTo(s, a) /\ UNCHANGED expects
       ELSE Stops(a, "Event", s, None)

Yield(a) == active = a /\ Stops(a, "Nothing", r, None)

\* Exit, fault, an invalid reply (a late one among them), or the end of the lease.
Stop(a) == active = a /\ Stops(a, "Nothing", Terminate(Expire(r), a), None)

\* ProtectedRuntime::poll, and run on the actor it returns: a waiting server
\* that has an event, else any actor that can run.
Poll ==
    LET s == Expire(r)
        ready == {e \in Server : Idle(s, e) /\ Ready(s, e)}
        free == {a \in s.live : a \notin s.waiting /\ ~ Pending(s, a)}
        run(t, a) == Stops(None, "Nothing", t, a)
    IN  /\ active = None
        /\ \/ \E e \in ready : IF Observe(s, e).resume[e] # "None"
                               THEN run(Observe(s, e), e) ELSE run(Observe(s, e), None)
           \/ ready = {} /\ \E a \in free : run(s, a)
           \/ ready = {} /\ free = {} /\ run(s, None)

\* supervisor start and install, or launch of a client.
Launch(a) ==
    /\ active = None /\ a \in Task \ r.live
    /\ r' = [r EXCEPT !.live = @ \cup {a}, !.limit[a] = Never,
                      !.waiting = IF a \in Server THEN @ \cup {a} ELSE @]
    /\ expects' = [expects EXCEPT ![a] = IF a \in Server THEN "Event" ELSE "Nothing"]
    /\ UNCHANGED active

Badges(e) == r.closed[e] + Cardinality({p \in Opens : p[2] = e /\ r.handles[p] > 0})

Open(a, e) ==
    /\ active = None /\ {a, e} \subseteq r.live
    /\ r.handles[a, e] < MaxHandles
    /\ r.handles[a, e] > 0 \/ Badges(e) < MaxBadges
    /\ r' = [r EXCEPT !.handles[a, e] = @ + 1]
    /\ UNCHANGED <<active, expects>>

\* kernel_reply, or take_resume.
TakeReply(k) ==
    /\ active = None /\ r.resume[k] # "None"
    /\ r' = [r EXCEPT !.resume[k] = "None"]
    /\ expects' = [expects EXCEPT ![k] = "Nothing"]
    /\ UNCHANGED active

Cancel(k) ==
    /\ active = None /\ Pending(r, k)
    /\ r' = EndCall(r, k, "Failed")
    /\ UNCHANGED <<active, expects>>

\* The last handle of a client takes its call along.
Close(k, e) ==
    /\ active = None /\ r.handles[k, e] > 0
    /\ r' = CloseHandle(IF r.handles[k, e] = 1 /\ r.server[k] = e
                        THEN EndCall(r, k, "Failed") ELSE r, k, e)
    /\ UNCHANGED <<active, expects>>

Tick ==
    /\ \A a \in Actor : Pending(r, a) => r.left[a] > -MaxLate
    /\ r' = [r EXCEPT !.left = [a \in Actor |-> IF Pending(r, a) THEN @[a] - 1 ELSE 0],
                      !.limit = [a \in Task |-> IF @[a] \in {Never, 0} THEN @[a] ELSE @[a] - 1]]
    /\ UNCHANGED <<active, expects>>

-----------------------------------------------------------------------------
IpcInit ==
    /\ r = [live |-> Kernel, waiting |-> {}, order |-> <<>>, chains |-> {},
            limit |-> [a \in Task |-> Never], inbound |-> [a \in Task |-> None],
            server |-> [a \in Actor |-> None], left |-> [a \in Actor |-> 0],
            resume |-> [a \in Actor |-> "None"], handles |-> [p \in Opens |-> 0],
            closed |-> [e \in Server |-> 0]]
    /\ active = None
    /\ expects = [a \in Actor |-> "Nothing"]

IpcNext ==
    \/ \E p \in Opens, left \in 0 .. MaxLeft : Call(p[1], p[2], left)
    \/ \E e \in Server, left \in {1, Never} : Reply(e, left) \/ Wait(e, left)
    \/ \E a \in Task : Yield(a) \/ Launch(a) \/ Stop(a)
    \/ Poll \/ Tick
    \/ \E p \in Opens : Open(p[1], p[2])
    \/ \E k \in Kernel : TakeReply(k) \/ Cancel(k)
    \/ \E p \in Opens : p[1] \in Kernel /\ Close(p[1], p[2])

IpcSpec == IpcInit /\ [][IpcNext]_ipcVars

-----------------------------------------------------------------------------
RECURSIVE Chase(_, _)

\* The actor that a waits for after n calls.
Chase(a, n) == IF n = 0 \/ ~ Pending(r, a) THEN a ELSE Chase(r.server[a], n - 1)

\* No set of callers waits for each other, whether their calls are delivered
\* or queued: from every caller the servers lead to one that waits for none.
NoWaitCycle == \A a \in Actor : ~ Pending(r, Chase(a, Cardinality(Actor)))

\* A chain is a run of delivered calls that still wait for their replies,
\* however calls time out, are cancelled or lose a side in the middle of it.
\* Hence a server that can take a call is never refused by the chain table.
ChainsAreCalls ==
    /\ \A chain \in r.chains : \A k \in 1 .. Len(chain) - 1 :
          r.server[chain[k]] = chain[k + 1] /\ r.inbound[chain[k + 1]] = chain[k]
    /\ \A e \in Server : Idle(r, e) => ChainsOf(r.chains, e) = {}

\* A call belongs to a client whose badge is open at a live server: after the
\* closure event of a badge no call of it reaches the server.
CallsHaveBadges ==
    \A a \in Actor : Pending(r, a) =>
        {a, r.server[a]} \subseteq r.live /\ r.handles[a, r.server[a]] > 0

\* An actor that stopped for a reply or an event waits for it or has exactly
\* that to go on with, whoever ends its call; one that stopped for nothing has
\* nothing.
OneCompletion ==
    \A a \in r.live \ {active} :
        LET waits == IF Pending(r, a) THEN "Reply" ELSE IF a \in r.waiting THEN "Event" ELSE "Nothing"
            has == IF r.resume[a] \in Statuses THEN "Reply"
                   ELSE IF r.resume[a] \in Events THEN "Event" ELSE "Nothing"
        IN  expects[a] \in {waits, has} /\ "Nothing" \in {waits, has}

\* The tables tell the same calls: chains, badges and stopped tasks agree with
\* the pending calls whatever ends a call and wherever in a chain it ends.
CallsAgree == ChainsAreCalls /\ CallsHaveBadges /\ OneCompletion

\* A server takes the oldest of the calls that wait for it, however it and its
\* callers are scheduled.
NoBypass ==
    [][\A e \in Server : Queue(r, e) # <<>> /\ r'.inbound[e] \in Actor /\ r.inbound[e] # r'.inbound[e]
           => r'.inbound[e] = Head(SelectSeq(Queue(r, e), LAMBDA c : r.left[c] > 0))]_ipcVars
=============================================================================
