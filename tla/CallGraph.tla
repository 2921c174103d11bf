----------------------------- MODULE CallGraph -----------------------------
(***************************************************************************)
(* What the synchronous call table promises, without slots or depths: a    *)
(* set of calls in progress, each a pair <<caller, callee>>.  A task       *)
(* waits on at most one callee and serves at most one caller, and a call   *)
(* is never admitted towards a task that already takes part in one.        *)
(***************************************************************************)
CONSTANT Task

VARIABLE calls

Engaged(t) == \E p \in calls : t \in {p[1], p[2]}
Blocked(t) == \E p \in calls : p[1] = t

Init == calls = {}

\* A call from a task that is not blocked to a task that takes part nowhere.
Call(c, t) ==
    /\ c # t
    /\ ~ Blocked(c)
    /\ ~ Engaged(t)
    /\ calls' = calls \cup {<<c, t>>}

\* The reply of a callee that has no call of its own outstanding.
Return(m) ==
    /\ ~ Blocked(m)
    /\ \E p \in calls : p[2] = m /\ calls' = calls \ {p}

\* The set S is closed under the calls in progress.
Closed(S) == \A p \in calls : p[1] \in S <=> p[2] \in S

\* A killed task takes the calls connected to its own with it.
Kill(m) ==
    /\ Engaged(m)
    /\ \E S \in SUBSET Task :
          /\ m \in S
          /\ Closed(S)
          /\ \A R \in SUBSET S : m \in R /\ Closed(R) => R = S
          /\ calls' = {p \in calls : p[1] \notin S}

Next == \E c \in Task : Return(c) \/ Kill(c) \/ \E t \in Task : Call(c, t)

Spec == Init /\ [][Next]_calls
=============================================================================
