----------------------------- MODULE MCMessages -----------------------------
(***************************************************************************)
(* Tasks and the two ways they exchange messages, each on a small instance *)
(* of its own: the task table of one processor, synchronous calls between  *)
(* the protected processes of one machine, and a TCP connection between    *)
(* two machines.  `part' names the one whose steps the behaviour follows;  *)
(* the others stay in their initial states.                                *)
(***************************************************************************)
EXTENDS Scheduler, Ipc, Tcp

VARIABLE part

\* A kernel task, two isolated tasks in slots of their own, and one isolated task
\* whose address space is the slot of another.
MCResources == {<<1, NoSlot>>, <<2, 2>>, <<3, 2>>, <<4, 4>>}

\* Two servers that may call each other, a client task and a kernel client.
MCOpens == {<<3, 1>>, <<1, 2>>, <<2, 1>>, <<4, 2>>}

\* The client's first sequence number is the last before the wrap; those of the
\* passive opens are apart.
MCIsn == <<31, 8, 16>>

MCBytes == [client |-> 2, server |-> 0]

MessagesInit == part \in {"tasks", "ipc", "tcp"} /\ Init /\ IpcInit /\ TcpInit

MessagesSpec ==
    /\ MessagesInit
    /\ [][\/ part = "tasks" /\ Next /\ UNCHANGED <<part, ipcVars, tcpVars>>
          \/ part = "ipc" /\ IpcNext /\ UNCHANGED <<part, vars, tcpVars>>
          \/ part = "tcp" /\ TcpNext /\ UNCHANGED <<part, vars, ipcVars>>]_<<part, vars, ipcVars, tcpVars>>
=============================================================================
