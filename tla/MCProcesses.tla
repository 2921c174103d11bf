---------------------------- MODULE MCProcesses ----------------------------
(***************************************************************************)
(* Processes and what they wait for, each on a small instance of its own:  *)
(* the supervised services, a family of processes with its pipes, and the  *)
(* suspended calls of a native process.  `part' names the one whose steps  *)
(* the behaviour follows, and fairness is asked of that one only; the      *)
(* others stay in their initial state.                                     *)
(***************************************************************************)
EXTENDS MCSupervision, Children, NativeIo

VARIABLE part

ProcessesNext ==
    \/ part = "services" /\ SupervisionNext /\ UNCHANGED <<part, familyVars, nativeVars>>
    \/ part = "family" /\ FamilyNext /\ UNCHANGED <<part, supervisionVars, nativeVars>>
    \/ part = "native" /\ IoNext /\ UNCHANGED <<part, supervisionVars, familyVars>>

\* The shell goes on from wherever it is not made to wait; a round steps the next
\* process of a family; every visit of a native process polls once.
Progress ==
    \/ part = "services" /\ ~ At({"Fatal"}) /\ Moves /\ UNCHANGED <<walk, nativeVars>>
    \/ part = "family" /\ Turns /\ UNCHANGED <<shell, nativeVars>>
    \/ part = "native" /\ Poll /\ UNCHANGED <<shell, walk>>

\* A job the shell waits for ends; the server ends every request.
Answered ==
    \/ part = "services" /\ \E i \in SessionJobs : WaitDone(i) /\ UNCHANGED nativeVars
    \/ part = "native" /\ \E c \in clients : ServerFate(c) /\ UNCHANGED supervisionVars

\* The clock runs.
Clock ==
    \/ part = "services" /\ Second /\ UNCHANGED nativeVars
    \/ part = "native" /\ Tick /\ UNCHANGED supervisionVars

\* The fairness of the components (Supervision, Children, NativeIo).  Only one of
\* them ever takes steps, so that a condition on each is one on their disjunction.
ProcessesFairness ==
    /\ WF_<<shell, walk, nativeVars>>(Progress)
    /\ WF_<<supervisionVars, nativeVars>>(Answered)
    /\ WF_<<supervisionVars, nativeVars>>(Clock)

ProcessesInit ==
    /\ part \in {"services", "family", "native"}
    /\ SupervisionInit /\ FamilyInit /\ IoInit

ProcessesSpec ==
    /\ ProcessesInit
    /\ [][ProcessesNext]_<<part, supervisionVars, familyVars, nativeVars>>
    /\ ProcessesFairness
=============================================================================
