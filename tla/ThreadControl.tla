--------------------------- MODULE ThreadControl ---------------------------
(***************************************************************************)
(* Join and sleep as owned blocking operations (control.rs).  `waits' are  *)
(* the Waiting values the composition retains: a value is observed until   *)
(* an outcome is selected, then consumed once its caller runs again.  A    *)
(* process stop drops nothing here: a value of a stopped process stays and *)
(* every use of it is refused.  `now' is the boot clock, which never runs  *)
(* backwards, so the refusal of a regressing observation does not occur.   *)
(* `deliveries' counts, per lifetime, the joins that returned its result.  *)
(***************************************************************************)
EXTENDS ThreadTable

CONSTANTS
    Options,     \* wait options asked for: a deadline and whether to observe a stop
    MaxNow       \* bound on the clock, below the deadline of a wait without one

ASSUME OptionsAssumption ==
    Options \subseteq [deadline : Nat, stop : BOOLEAN] /\ MaxNow \in Nat

VARIABLES waits, now, deliveries

controlVars == <<waits, now, deliveries>>
vars == <<tableVars, controlVars>>

\* The early or late end of a wait; a deadline is looked at before a stop.
Due(options, stopped) ==
    IF now >= options.deadline THEN "TimedOut"
    ELSE IF options.stop /\ stopped THEN "Stopped" ELSE "None"

ControlInit ==
    /\ Init
    /\ waits = {}
    /\ now = 0
    /\ deliveries = [s \in Slots |-> 0]

\* admit_control: the caller blocks on its next operation.
Admit(th, caller, claim, options) ==
    /\ Rec(caller).seq < MaxSequence
    /\ thread' = [Blocked(th, caller) EXCEPT ![caller.slot].controlWait = TRUE]
    /\ waits' = waits \cup
         {[caller |-> caller, seq |-> Rec(caller).seq + 1, join |-> claim,
           options |-> options, phase |-> "Pending"]}

\* Mutant: an immediate join leaves the join right behind.
JoinNowUnconsumed(caller, target) ==
    /\ ValidRunning(caller) /\ ValidJoin(caller, target)
    /\ Joinable(target)
    /\ nextJoin < MaxJoin
    /\ nextJoin' = nextJoin + 1
    /\ deliveries' = [deliveries EXCEPT ![target.slot] = @ + 1]
    /\ UNCHANGED <<procs, thread, active, waits, now>>

\* A quiescent completion is claimed and consumed in one step.
JoinNow(caller, target) ==
    /\ ValidRunning(caller) /\ ValidJoin(caller, target)
    /\ Joinable(target)
    /\ nextJoin < MaxJoin
    /\ thread' = [thread EXCEPT ![target.slot].joined = TRUE]
    /\ nextJoin' = nextJoin + 1
    /\ deliveries' = [deliveries EXCEPT ![target.slot] = @ + 1]
    /\ UNCHANGED <<procs, active, waits, now>>

\* The target has no result yet: block with the claim.
JoinWait(caller, target, options) ==
    /\ ValidRunning(caller) /\ ValidJoin(caller, target)
    /\ Due(options, Rec(caller).stop) = "None"
    /\ ~ Joinable(target)
    /\ nextJoin < MaxJoin
    /\ Admit(Claimed(thread, NewClaim(caller, target)), caller, NewClaim(caller, target), options)
    /\ nextJoin' = nextJoin + 1
    /\ UNCHANGED <<procs, active, now, deliveries>>

\* join, for a try (no options) and for a wait that is not due already.
Join(caller, target, options) ==
    \/ Due(options, Rec(caller).stop) = "None" /\ JoinNow(caller, target)
    \/ JoinWait(caller, target, options)

Sleep(caller, options) ==
    /\ ValidRunning(caller)
    /\ Due(options, Rec(caller).stop) = "None"
    /\ Admit(thread, caller, NoClaim, options)
    /\ UNCHANGED <<procs, nextJoin, active, now, deliveries>>

\* Waiting::validate
ValidWait(w) ==
    /\ Accepting(w.caller.process)
    /\ Retained(w.caller)
    /\ Rec(w.caller).controlWait /\ ~ Rec(w.caller).syncWait
    /\ Rec(w.caller).seq = w.seq

Select(w, outcome, th) ==
    /\ thread' = [th EXCEPT ![w.caller.slot].state = "Ready"]
    /\ waits' = (waits \ {w}) \cup {[w EXCEPT !.join = NoClaim, !.phase = outcome]}

\* Mutant: the end of a wait is looked at only after its result.
ObserveResultFirst(w) ==
    /\ ValidWait(w) /\ w.phase = "Pending" /\ Rec(w.caller).state = "Blocked"
    /\ \/ /\ w.join # NoClaim /\ ValidClaim(w.join) /\ Joinable(w.join.target)
          /\ Select(w, "Joined", Joined(thread, w.join))
          /\ deliveries' = [deliveries EXCEPT ![w.join.target.slot] = @ + 1]
       \/ /\ Due(w.options, Rec(w.caller).stop) # "None"
          /\ Select(w, Due(w.options, Rec(w.caller).stop), thread)
          /\ UNCHANGED deliveries
    /\ UNCHANGED <<procs, nextJoin, active, now>>

\* Mutant: an observation looks at the result of a join only.
ObserveResultOnly(w) ==
    /\ ValidWait(w) /\ w.phase = "Pending" /\ Rec(w.caller).state = "Blocked"
    /\ w.join # NoClaim /\ ValidClaim(w.join) /\ Joinable(w.join.target)
    /\ Select(w, "Joined", Joined(thread, w.join))
    /\ deliveries' = [deliveries EXCEPT ![w.join.target.slot] = @ + 1]
    /\ UNCHANGED <<procs, nextJoin, active, now>>

\* Waiting::observe: deadline and stop, cancelling the claim, then the result.
Observe(w) ==
    /\ ValidWait(w) /\ w.phase = "Pending" /\ Rec(w.caller).state = "Blocked"
    /\ LET due == Due(w.options, Rec(w.caller).stop)
       IN  \/ /\ due # "None" /\ w.join = NoClaim
              /\ Select(w, due, thread)
              /\ UNCHANGED deliveries
           \/ /\ due # "None" /\ w.join # NoClaim /\ ValidClaim(w.join)
              /\ Select(w, due, Unclaimed(thread, w.join))
              /\ UNCHANGED deliveries
           \/ /\ due = "None" /\ w.join # NoClaim /\ ValidClaim(w.join)
              /\ Joinable(w.join.target)
              /\ Select(w, "Joined", Joined(thread, w.join))
              /\ deliveries' = [deliveries EXCEPT ![w.join.target.slot] = @ + 1]
    /\ UNCHANGED <<procs, nextJoin, active, now>>

\* Mutant: the consumed wait leaves the caller's interlock set.
FinishInterlocked(w) ==
    /\ ValidWait(w) /\ w.phase # "Pending" /\ Rec(w.caller).state = "Running"
    /\ waits' = waits \ {w}
    /\ UNCHANGED <<tableVars, now, deliveries>>

\* Waiting::finish: the running caller takes its outcome and may operate again.
Finish(w) ==
    /\ ValidWait(w) /\ w.phase # "Pending" /\ Rec(w.caller).state = "Running"
    /\ thread' = [thread EXCEPT ![w.caller.slot].controlWait = FALSE]
    /\ waits' = waits \ {w}
    /\ UNCHANGED <<procs, nextJoin, active, now, deliveries>>

\* Reaping ends the lifetime that deliveries count for.
ReapThread(id) ==
    /\ Reap(id)
    /\ deliveries' = [deliveries EXCEPT ![id.slot] = 0]
    /\ UNCHANGED <<waits, now>>

Tick ==
    /\ now < MaxNow
    /\ now' = now + 1
    /\ UNCHANGED <<tableVars, waits, deliveries>>

Lifecycle ==
    /\ \/ \E p \in Process :
             \/ RegisterProcess(p) \/ StopProcess(p) \/ RemoveProcess(p)
             \/ \E pages \in Charges : PrepareInitial(p, pages)
       \/ \E id \in Ids :
             \/ \E pages \in Charges : PrepareWorker(id, pages)
             \/ Start(id) \/ AbortPrepared(id) \/ Dispatch(id) \/ YieldRunning(id)
             \/ RequestStop(id) \/ BeginExit(id) \/ Detach(id) \/ ReleaseResources(id)
             \/ \E result \in Results : Complete(id, result)
       \/ \E creator, child \in Ids : StartWorker(creator, child) \/ AbortWorker(creator, child)
    /\ UNCHANGED controlVars

ControlNext ==
    \/ Lifecycle
    \/ Tick
    \/ \E id \in Ids : ReapThread(id)
    \/ \E caller, target \in Ids : \E options \in Options : Join(caller, target, options)
    \/ \E caller \in Ids : \E options \in Options : Sleep(caller, options)
    \/ \E w \in waits : Observe(w) \/ Finish(w)

ControlSpec == ControlInit /\ [][ControlNext]_vars

\* Every visit of a resident process observes all its waits before it runs.
ObserveOf(s) == \E w \in waits : w.caller.slot = s /\ Observe(w)
FairControlSpec == ControlSpec /\ \A s \in Slots : WF_vars(ObserveOf(s))
-----------------------------------------------------------------------------
WaitsOf(s) == {w \in waits : w.caller = Id(s) /\ w.seq = thread[s].seq}

(***************************************************************************)
(* The interlock and the retained operation go together: a thread marked   *)
(* control_wait has exactly one Waiting value of its current operation.    *)
(* While that is pending the thread is blocked and the claim it carries is *)
(* the thread's own, held by both records, so that observe never fails     *)
(* half-way on it; once an outcome is selected no claim is left, and the   *)
(* thread cannot block again before it consumes the outcome.               *)
(***************************************************************************)
InterlockOwned ==
    \A s \in Slots : thread[s].state # "Vacant" /\ thread[s].controlWait =>
        \E w \in WaitsOf(s) :
            /\ WaitsOf(s) = {w}
            /\ thread[s].outgoing = w.join
            /\ IF w.phase = "Pending"
               THEN thread[s].state = "Blocked" /\ (w.join # NoClaim => ValidClaim(w.join))
               ELSE thread[s].state \in {"Ready", "Running"}

(***************************************************************************)
(* A thread's result is returned at most once, and exactly when the thread *)
(* counts as joined: never twice, never lost to a join that timed out.     *)
(***************************************************************************)
DeliveredOnce ==
    \A s \in Slots : thread[s].state # "Vacant" =>
        deliveries[s] = IF thread[s].joined THEN 1 ELSE 0

(***************************************************************************)
(* An observation selects the deadline, then the stop, and only then the   *)
(* target's result; a join that ended by deadline or stop gives its right  *)
(* back and consumes nothing.                                              *)
(***************************************************************************)
ExpiredWins ==
    [][\A w \in waits : \A v \in waits' :
        /\ w.caller = v.caller /\ w.seq = v.seq
        /\ w.phase = "Pending" /\ v.phase # "Pending"
        => IF Due(w.options, Rec(w.caller).stop) = "None" THEN v.phase = "Joined"
           ELSE /\ v.phase = Due(w.options, Rec(w.caller).stop)
                /\ w.join # NoClaim =>
                     /\ thread'[w.join.target.slot].incoming = NoClaim
                     /\ deliveries' = deliveries]_vars

(***************************************************************************)
(* A blocked join returns: once its target has completed and its resources *)
(* are back, the caller's claim does not last.                             *)
(***************************************************************************)
JoinReturns ==
    \A s \in Slots :
        (thread[s].outgoing # NoClaim /\ Joinable(thread[s].outgoing.target))
            ~> (thread[s].outgoing = NoClaim)

(***************************************************************************)
(* A wait whose deadline has passed ends: the thread does not stay blocked *)
(* on that operation.                                                      *)
(***************************************************************************)
DeadlineEnds ==
    \A s \in Slots :
        (\E w \in WaitsOf(s) : w.phase = "Pending" /\ now >= w.options.deadline)
            ~> ~ (\E w \in WaitsOf(s) : w.phase = "Pending" /\ now >= w.options.deadline
                                        /\ thread[s].state = "Blocked")

\* Both: whatever other waits do, a wait that can end does end.
WaitsEnd == JoinReturns /\ DeadlineEnds
=============================================================================
