---------------------------- MODULE MCThreadSync ----------------------------
(***************************************************************************)
(* Two components of troe-task, each on a small instance of its own: the   *)
(* synchronisation objects of a process, and the table of call chains.     *)
(* `part' names the one whose steps the behaviour follows; the other one   *)
(* stays in its initial state.                                             *)
(***************************************************************************)
EXTENDS ThreadSync, CallChain, TLC

VARIABLE part

\* Mutexes of both death policies, conditions, and permits that start empty.
Mixed == {Mutex("Poison"), Mutex("FailProcess"), Condition, Permit(0, 2)}

\* A deadline beyond MaxNow is no deadline.
Timed == {[deadline |-> 1, stop |-> FALSE], [deadline |-> MaxNow + 1, stop |-> TRUE]}

SyncChainInit == part \in {"sync", "chain"} /\ SyncInit /\ Init

SyncChainSpec ==
    /\ SyncChainInit
    /\ [][\/ part = "sync" /\ SyncNext /\ UNCHANGED <<part, vars>>
          \/ part = "chain" /\ Next /\ UNCHANGED <<part, syncVars>>]_<<part, syncVars, vars>>

Symmetry == Permutations(Thread) \cup Permutations(Object)
-----------------------------------------------------------------------------
\* Whatever is handed over reaches the waiter that is first entitled to it
\* (FirstInFirstOut and NotificationDelivered of ThreadSync).
HandedOver == [][part = "sync" => FirstInFirstOut /\ NotificationDelivered]_syncVars
=============================================================================
