--------------------------- MODULE MCThreadCalls ---------------------------
(***************************************************************************)
(* What the kernel holds for threads and their calls, on three small       *)
(* instances: the thread table, the suspended calls of a native process,   *)
(* and the pending-call and wait tables in any use.  `part' names the one  *)
(* whose steps the behaviour follows; the variables of the others stay as  *)
(* they are.                                                               *)
(***************************************************************************)
EXTENDS ThreadTable, ThreadCalls, TLC

RetainedInit == part \in {"table", "native", "any"} /\ Init /\ UseInit

CallsSpec ==
    /\ RetainedInit
    /\ [][\/ part = "table" /\ Next /\ UNCHANGED <<nativeVars, harnessVars>>
          \/ UseNext /\ UNCHANGED tableVars]_<<tableVars, nativeVars, harnessVars>>

Symmetry == Permutations(Thread)
=============================================================================
