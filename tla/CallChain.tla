----------------------------- MODULE CallChain -----------------------------
(***************************************************************************)
(* The bounded table of synchronous call chains of troe-task.  A chain is  *)
(* the sequence of its members, initiator first; a free record is the      *)
(* empty sequence.  `live' is the counter that lets chain_of skip the scan *)
(* of an idle table, and `reply' is the result of the last operation.      *)
(***************************************************************************)
EXTENDS Integers, Sequences, FiniteSets

CONSTANTS
    Task,       \* task identities
    Capacity,   \* chain records reserved by CallChainTable::new
    MaxMembers  \* MAX_CALL_CHAIN_MEMBERS

ASSUME CapacityAssumption == Capacity \in Nat \ {0}
ASSUME MaxMembersAssumption == MaxMembers \in Nat /\ MaxMembers >= 2

VARIABLES
    chains,     \* slot -> members of its chain, << >> when the slot is free
    live,       \* stats.live
    reply       \* what the last operation returned

vars == <<chains, live, reply>>

Slots == 0 .. Capacity - 1
NoSlot == Capacity
Errors == {"Deadlock", "Busy", "Exhausted", "NotActive"}

Members(s) == {chains[s][k] : k \in DOMAIN chains[s]}
Holding(t) == {s \in Slots : t \in Members(s)}
FirstOf(S) == CHOOSE s \in S : \A r \in S : s <= r

\* The record that holds a task; the counter is consulted before the scan.
ChainOf(t) == IF live = 0 \/ Holding(t) = {} THEN NoSlot ELSE FirstOf(Holding(t))

Active(s) == chains[s][Len(chains[s])]

Init ==
    /\ chains = [s \in Slots |-> << >>]
    /\ live = 0
    /\ reply = "None"

Reject(error) ==
    /\ reply' = error
    /\ UNCHANGED <<chains, live>>

\* A member of a chain calls onward: only the active member may.
Extend(s, caller, target) ==
    \/ Active(s) # caller /\ Reject("Busy")
    \/ Active(s) = caller /\ Len(chains[s]) >= MaxMembers /\ Reject("Exhausted")
    \/ /\ Active(s) = caller
       /\ Len(chains[s]) < MaxMembers
       /\ chains' = [chains EXCEPT ![s] = Append(@, target)]
       /\ reply' = "Entered"
       /\ UNCHANGED live

Free == {s \in Slots : chains[s] = << >>}

\* A task outside every chain starts one of two members in the first free slot.
Begin(caller, target) ==
    \/ Free = {} /\ Reject("Exhausted")
    \/ \E s \in Free :
          /\ \A r \in Free : s <= r
          /\ chains' = [chains EXCEPT ![s] = <<caller, target>>]
          /\ live' = live + 1
          /\ reply' = "Entered"

\* Mutant: a call onward does not look for its target in the table.
EnterUnchecked(caller, target) ==
    LET from == ChainOf(caller)
        to == ChainOf(target)
    IN  \/ caller = target /\ Reject("Deadlock")
        \/ caller # target /\ from # NoSlot /\ Extend(from, caller, target)
        \/ caller # target /\ from = NoSlot /\ to # NoSlot /\ Reject("Busy")
        \/ caller # target /\ from = NoSlot /\ to = NoSlot /\ Begin(caller, target)

Enter(caller, target) ==
    LET from == ChainOf(caller)
        to == ChainOf(target)
    IN  \/ caller = target /\ Reject("Deadlock")
        \/ caller # target /\ to # NoSlot /\ to = from /\ Reject("Deadlock")
        \/ caller # target /\ to # NoSlot /\ to # from /\ Reject("Busy")
        \/ caller # target /\ to = NoSlot /\ from # NoSlot /\ Extend(from, caller, target)
        \/ caller # target /\ to = NoSlot /\ from = NoSlot /\ Begin(caller, target)

\* The reply of the active member; a chain left with its initiator alone is
\* released.
Unwind(member) ==
    LET s == ChainOf(member)
        rest == Len(chains[s]) - 1
    IN  \/ s = NoSlot /\ Reject("NotActive")
        \/ s # NoSlot /\ Active(s) # member /\ Reject("NotActive")
        \/ /\ s # NoSlot
           /\ Active(s) = member
           /\ IF rest <= 1
              THEN /\ chains' = [chains EXCEPT ![s] = << >>]
                   /\ live' = live - 1
              ELSE /\ chains' = [chains EXCEPT ![s] = SubSeq(@, 1, rest)]
                   /\ UNCHANGED live
           /\ reply' = "Unwound"

\* Mutant: only the killed task leaves; its callees stay engaged.
DetachOne(member) ==
    LET s == ChainOf(member)
    IN  \/ s = NoSlot /\ Reject("NotActive")
        \/ /\ s # NoSlot
           /\ chains' = [chains EXCEPT ![s] = SelectSeq(@, LAMBDA t : t # member)]
           /\ reply' = "Detached"
           /\ UNCHANGED live

\* detach, and abandon with it: the whole chain of a killed task goes at once.
Detach(member) ==
    LET s == ChainOf(member)
    IN  \/ s = NoSlot /\ Reject("NotActive")
        \/ /\ s # NoSlot
           /\ chains' = [chains EXCEPT ![s] = << >>]
           /\ live' = live - 1
           /\ reply' = "Detached"

Next ==
    \/ \E caller, target \in Task : Enter(caller, target)
    \/ \E member \in Task : Unwind(member)
    \/ \E member \in Task : Detach(member)

Spec == Init /\ [][Next]_vars
-----------------------------------------------------------------------------
TypeOK ==
    /\ chains \in [Slots -> Seq(Task)]
    /\ live \in Nat
    /\ reply \in Errors \cup {"None", "Entered", "Unwound", "Detached"}

(***************************************************************************)
(* No task takes part twice: not in two chains, nor twice in one.  This is *)
(* what makes a server non-reentrant and a call cycle impossible.          *)
(***************************************************************************)
NotReentrant ==
    \A s, r \in Slots : \A j \in DOMAIN chains[s], k \in DOMAIN chains[r] :
        chains[s][j] = chains[r][k] => s = r /\ j = k

(***************************************************************************)
(* The counter that lets chain_of skip its scan is exact: if it ever ran   *)
(* ahead or behind, an engaged task would be taken for a free one.         *)
(***************************************************************************)
LiveExact == live = Cardinality({s \in Slots : chains[s] # << >>})

\* A retained chain has a caller and a callee, and stays within its bound.
Bounded == \A s \in Slots : Len(chains[s]) \in {0} \cup 2 .. MaxMembers

\* The calls in progress, as pairs of neighbours.
CallsOf(s) == {<<chains[s][k], chains[s][k + 1]>> : k \in 1 .. Len(chains[s]) - 1}
Calls == UNION {CallsOf(s) : s \in Slots}

Graph == INSTANCE CallGraph WITH calls <- Calls

(***************************************************************************)
(* The table implements the call graph: every admitted call joins a task   *)
(* that waits for nobody to a task that takes part nowhere, every reply    *)
(* ends exactly the running call, and a kill ends exactly the calls that   *)
(* are connected to it.                                                    *)
(***************************************************************************)
ImplementsCallGraph == Graph!Spec
=============================================================================
