------------------------- MODULE ThreadTableProofs -------------------------
(***************************************************************************)
(* The thread table keeps every relation between threads honourable, for   *)
(* every number of processes, slots, generations and claims.  NoDangling   *)
(* is inductive once it is known that a retained record belongs to a       *)
(* process and a generation of its own, and that a claim never crosses     *)
(* processes: stop_process cuts the claims of one process only.            *)
(***************************************************************************)
EXTENDS ThreadSchedule, TLAPS

\* The leaves are first-order; those that need arithmetic or records cite SMT.
USE ZenonT(30)

\* A retained record has a process and a generation; claims stay in a process.
Lifetimes ==
    \A s \in Slots : thread[s].state # "Vacant" =>
        /\ thread[s].gen # 0 /\ thread[s].process \in Process
        /\ thread[s].outgoing # NoClaim => thread[s].outgoing.target.process = thread[s].process

TInv == TypeOK /\ NoDangling /\ Lifetimes

-----------------------------------------------------------------------------
(***************************************************************************)
(* Most operations take records through legal moves, and drop claims at    *)
(* both ends or keep them.                                                 *)
(***************************************************************************)
Executable == {"Ready", "Running", "Blocked"}

SameLife(s) ==
    /\ thread'[s].gen = thread[s].gen
    /\ thread'[s].process = thread[s].process
    /\ thread'[s].creator = thread[s].creator

Childless(s) == \A r \in Slots : thread'[r].state = "Prepared" => thread'[r].creator # Id(s)

Moves(s) ==
    \/ thread'[s].state = thread[s].state
    \/ thread[s].state \in Executable /\ thread'[s].state \in Executable
    \/ thread[s].state = "Prepared" /\ thread'[s].state = "Ready" /\ Accepting(thread[s].process)
    \/ thread[s].state = "Exiting" /\ thread'[s].state = "Completed"
    \/ /\ thread[s].state = "Running" /\ thread'[s].state = "Exiting"
       /\ thread'[s].outgoing = NoClaim /\ Childless(s)
    \/ /\ thread[s].state # "Vacant" /\ thread'[s].state = "Revoked"
       /\ thread'[s].outgoing = NoClaim /\ thread'[s].incoming = NoClaim /\ Childless(s)

Drops(s) ==
    /\ thread'[s].outgoing \in {thread[s].outgoing, NoClaim}
    /\ thread'[s].incoming \in {thread[s].incoming, NoClaim}
    /\ thread[s].outgoing # NoClaim =>
          ((thread'[s].outgoing = NoClaim)
              <=> (thread'[thread[s].outgoing.target.slot].incoming = NoClaim))
    /\ thread'[s].incoming # NoClaim =>
          thread'[s].detached = thread[s].detached /\ thread'[s].joined = thread[s].joined

Legal(s) == SameLife(s) /\ Moves(s) /\ Drops(s)

\* One record's part of JoinPaired.
Paired(s, out, in) ==
    /\ out # NoClaim =>
         /\ out.caller = Id(s)
         /\ thread[s].state \in {"Running", "Ready", "Blocked"}
         /\ Retained(out.target) /\ Rec(out.target).incoming = out
    /\ in # NoClaim =>
         /\ in.target = Id(s) /\ in.caller # in.target
         /\ Retained(in.caller) /\ Rec(in.caller).outgoing = in
         /\ ~ thread[s].detached /\ ~ thread[s].joined
         /\ thread[s].state \notin {"Prepared", "Revoked", "Vacant"}

LEMMA Fields ==
  ASSUME TypeOK, NEW s \in Slots
  PROVE  /\ thread[s] \in Record
         /\ thread[s].gen \in 0 .. MaxGeneration
         /\ thread[s].state \in Live \cup Terminal \cup {"Vacant"}
         /\ thread[s].creator \in ThreadId \cup {NoThread}
         /\ thread[s].incoming \in Claims(ThreadId)
         /\ thread[s].outgoing \in Claims(ThreadId)
  BY DEF TypeOK, Record

\* The ends of a claim name thread slots.
LEMMA ClaimSlots ==
  ASSUME NEW c \in Claims(ThreadId), c # NoClaim
  PROVE  /\ c.caller \in ThreadId /\ c.target \in ThreadId
         /\ c.caller.slot \in Slots /\ c.target.slot \in Slots
  BY DEF Claims, ThreadId

\* Retained names the record of the slot.
LEMMA RetainedIs ==
  ASSUME NEW id \in ThreadId, Retained(id)
  PROVE  /\ id.slot \in Slots /\ thread[id.slot].state # "Vacant"
         /\ thread[id.slot].gen = id.gen /\ thread[id.slot].process = id.process
         /\ Id(id.slot) = id
  BY SMTT(20) DEF Retained, Id, ThreadId

LEMMA StepsKeepTInv ==
  ASSUME TInv, TypeOK', \A s \in Slots : Legal(s),
         \A p \in Process : procs'[p].slot = procs[p].slot,
         \A p \in Process : procs'[p].stopping =>
             /\ active'.process # p
             /\ procs[p].stopping \/ \A s \in Owned(p) :
                   /\ thread'[s].state = "Revoked"
                   /\ thread'[s].incoming = NoClaim /\ thread'[s].outgoing = NoClaim
  PROVE  TInv'
  <1> USE DEF TInv, NoDangling
  <1>1. \A s \in Slots :
          /\ (thread'[s].state = "Vacant") <=> (thread[s].state = "Vacant")
          /\ thread'[s].state = "Prepared" => thread[s].state = "Prepared"
          /\ Id(s)' = Id(s)
    BY DEF Legal, Moves, SameLife, Id, Executable
  <1>2. \A id \in ThreadId : Retained(id) => Retained(id)'
    BY <1>1 DEF Retained, ThreadId
  <1>3. Lifetimes'
    BY <1>1, SMTT(20) DEF Lifetimes, Legal, SameLife, Drops
  <1>4. JoinPaired'
    <2> SUFFICES ASSUME NEW s \in Slots
                 PROVE  Paired(s, thread[s].outgoing, thread[s].incoming)'
      BY DEF JoinPaired, Paired
    <2> SUFFICES ASSUME NEW out, NEW in, out = thread'[s].outgoing, in = thread'[s].incoming
                 PROVE  Paired(s, out, in)'
      BY DEF Paired, Retained, Rec, Id
    <2>1. out \in Claims(ThreadId) /\ in \in Claims(ThreadId)
      BY DEF TypeOK, Record
    <2>2. Paired(s, thread[s].outgoing, thread[s].incoming)
      BY DEF JoinPaired, Paired
    <2>3. Legal(s)
      OBVIOUS
    <2>4. ASSUME out # NoClaim
          PROVE  /\ out.caller = Id(s)' /\ thread'[s].state \in Executable
                 /\ Retained(out.target)' /\ Rec(out.target)'.incoming = out
      <3>1. thread[s].outgoing = out
        BY <2>3, <2>4 DEF Legal, Drops
      <3>2. out.target \in ThreadId /\ out.target.slot \in Slots
        BY <2>1, <2>4, ClaimSlots
      <3>3. /\ out.caller = Id(s) /\ thread[s].state \in Executable
            /\ Retained(out.target) /\ thread[out.target.slot].incoming = out
        BY <2>2, <2>4, <3>1 DEF Paired, Rec, Executable
      <3>4. thread'[s].state \in Executable
        BY <2>3, <2>4, <3>3 DEF Legal, Moves, Executable
      <3>5. thread'[out.target.slot].incoming = out
        BY <2>3, <2>4, <3>1, <3>2, <3>3 DEF Legal, Drops
      <3> QED BY <1>1, <1>2, <3>2, <3>3, <3>4, <3>5 DEF Rec
    <2>5. ASSUME in # NoClaim
          PROVE  /\ in.target = Id(s)' /\ in.caller # in.target
                 /\ Retained(in.caller)' /\ Rec(in.caller)'.outgoing = in
                 /\ ~ thread'[s].detached /\ ~ thread'[s].joined
                 /\ thread'[s].state \notin {"Prepared", "Revoked", "Vacant"}
      <3>1. thread[s].incoming = in
        BY <2>3, <2>5 DEF Legal, Drops
      <3>2. in.caller \in ThreadId /\ in.caller.slot \in Slots
        BY <2>1, <2>5, ClaimSlots
      <3>3. /\ in.target = Id(s) /\ in.caller # in.target
            /\ Retained(in.caller) /\ thread[in.caller.slot].outgoing = in
            /\ ~ thread[s].detached /\ ~ thread[s].joined
            /\ thread[s].state \notin {"Prepared", "Revoked", "Vacant"}
        BY <2>2, <2>5, <3>1 DEF Paired, Rec
      <3>4. thread'[s].state \notin {"Prepared", "Revoked", "Vacant"}
        BY <2>3, <2>5, <3>3 DEF Legal, Moves, Executable
      <3>5. in.target.slot = s
        BY <3>3, SMTT(20) DEF Id
      <3>6. thread'[in.caller.slot].outgoing = in
        BY <2>5, <3>1, <3>2, <3>3, <3>5 DEF Legal, Drops
      <3>7. ~ thread'[s].detached /\ ~ thread'[s].joined
        BY <2>3, <2>5, <3>3 DEF Legal, Drops
      <3> QED BY <1>1, <1>2, <3>2, <3>3, <3>4, <3>6, <3>7 DEF Rec
    <2> QED BY <2>4, <2>5 DEF Paired, Executable
  <1>5. NoOrphans'
    <2> SUFFICES ASSUME NEW s \in Slots, NEW c, c = thread'[s].creator,
                        thread'[s].state = "Prepared", c # NoThread
                 PROVE  /\ Retained(c)' /\ c.process = thread'[s].process
                        /\ Rec(c)'.state \in Executable
      BY SMTT(20) DEF NoOrphans, Retained, Rec, Id, Executable
    <2>1. thread[s].state = "Prepared" /\ thread[s].creator = c /\ thread'[s].process = thread[s].process
      BY <1>1 DEF Legal, SameLife
    <2>2. Retained(c) /\ c.process = thread[s].process /\ thread[c.slot].state \in Executable
      BY <2>1, SMTT(20) DEF NoOrphans, Rec, Executable
    <2>3. c \in ThreadId /\ c.slot \in Slots /\ Id(c.slot) = c
      BY <2>1, <2>2, Fields DEF ThreadId, Retained
    <2>4. ~Childless(c.slot)
      BY <2>3 DEF Childless
    <2>5. thread'[c.slot].state \in Executable
      BY <2>2, <2>3, <2>4 DEF Legal, Moves, Executable
    <2> QED BY <1>2, <2>1, <2>2, <2>3, <2>5 DEF Rec
  <1>6. StopIsFinal'
    <2> SUFFICES ASSUME NEW p \in Process, procs'[p].stopping, NEW s \in Slots,
                        thread'[s].state # "Vacant", thread'[s].process = p
                 PROVE  /\ thread'[s].state = "Revoked"
                        /\ thread'[s].incoming = NoClaim /\ thread'[s].outgoing = NoClaim
      BY DEF StopIsFinal, Owned
    <2>1. s \in Owned(p)
      BY <1>1 DEF Owned, Legal, SameLife
    <2>2. CASE procs[p].stopping
      <3>1. thread[s].state = "Revoked" /\ thread[s].incoming = NoClaim /\ thread[s].outgoing = NoClaim
        BY <2>1, <2>2 DEF StopIsFinal
      <3> QED BY <3>1 DEF Legal, Moves, Drops, Executable
    <2> QED BY <2>1, <2>2
  <1>7. SlotsStable'
    BY <1>1, SMTT(20) DEF SlotsStable, Lifetimes, Registered, Legal, SameLife
  <1> QED BY <1>3, <1>4, <1>5, <1>6, <1>7

-----------------------------------------------------------------------------
(***************************************************************************)
(* Operations that change one record and keep its claims.                  *)
(***************************************************************************)
States == Live \cup Terminal \cup {"Vacant"}

\* Two values of one lifetime with the same claims and rights.
SameRights(r, q) ==
    /\ r.gen = q.gen /\ r.process = q.process /\ r.creator = q.creator
    /\ r.incoming = q.incoming /\ r.outgoing = q.outgoing
    /\ r.incoming # NoClaim => r.detached = q.detached /\ r.joined = q.joined

ProcsKept ==
    /\ procs' \in [Process -> [slot : ProcessSlots \cup {NoSlot}, stopping : BOOLEAN,
                               initial : BOOLEAN, removed : BOOLEAN]]
    /\ \A p \in Process : procs'[p].slot = procs[p].slot /\ procs'[p].stopping = procs[p].stopping

LEMMA Unprepared ==
  ASSUME TInv, NEW s \in Slots, thread[s].state = "Prepared"
  PROVE  /\ thread[s].incoming = NoClaim /\ thread[s].outgoing = NoClaim
         /\ \A r \in Slots : thread[r].state = "Prepared" => thread[r].creator # Id(s)
  <1>1. thread[s].incoming = NoClaim /\ thread[s].outgoing = NoClaim
    BY DEF TInv, NoDangling, JoinPaired
  <1>2. ASSUME NEW r \in Slots, thread[r].state = "Prepared", thread[r].creator = Id(s)
        PROVE  FALSE
    <2>1. Id(s) # NoThread
      BY DEF TInv, Lifetimes, Id, NoThread
    <2>2. Rec(Id(s)).state \in {"Ready", "Running", "Blocked"}
      BY <1>2, <2>1 DEF TInv, NoDangling, NoOrphans
    <2> QED BY <2>2 DEF Rec, Id
  <1> QED BY <1>1, <1>2

LEMMA OneRecordKeepsTInv ==
  ASSUME TInv, NEW k \in Slots, NEW r \in Record, thread' = [thread EXCEPT ![k] = r],
         SameRights(r, thread[k]),
         \/ r.state = thread[k].state
         \/ thread[k].state \in Executable /\ r.state \in Executable
         \/ thread[k].state = "Prepared" /\ r.state = "Ready" /\ Accepting(thread[k].process)
         \/ thread[k].state = "Exiting" /\ r.state = "Completed"
         \/ thread[k].state = "Prepared" /\ r.state = "Revoked",
         ProcsKept, nextJoin' \in 1 .. MaxJoin + 1, UNCHANGED active
  PROVE  TInv'
  <1>1. thread'[k] = r /\ \A s \in Slots \ {k} : thread'[s] = thread[s]
    BY DEF TInv, TypeOK
  <1>2. TypeOK'
    BY DEF TInv, TypeOK, ProcsKept
  <1>3. ASSUME NEW s \in Slots PROVE Legal(s)
    <2>1. CASE s # k
      <3>1. thread'[s] = thread[s]
        BY <1>1, <2>1
      <3>2. ASSUME thread[s].outgoing # NoClaim
            PROVE  thread'[thread[s].outgoing.target.slot].incoming # NoClaim
        <4>1. /\ thread[s].outgoing.target.slot \in Slots
              /\ thread[thread[s].outgoing.target.slot].incoming # NoClaim
          <5>1. thread[s].outgoing.target.slot \in Slots
            BY <3>2, Fields, ClaimSlots DEF TInv
          <5> QED BY <3>2, <5>1 DEF TInv, NoDangling, JoinPaired, Rec
        <4> QED BY <1>1, <4>1 DEF SameRights
      <3> QED BY <3>1, <3>2 DEF Legal, SameLife, Moves, Drops
    <2>2. CASE s = k
      <3>1. Drops(k)
        <4>1. ASSUME thread[k].outgoing # NoClaim
              PROVE  thread'[thread[k].outgoing.target.slot].incoming # NoClaim
          <5>1. /\ thread[k].outgoing.target.slot \in Slots
            BY <4>1, Fields, ClaimSlots DEF TInv
          <5>2. thread[thread[k].outgoing.target.slot].incoming # NoClaim
            BY <4>1, <5>1 DEF TInv, NoDangling, JoinPaired, Rec
          <5> QED BY <1>1, <5>1, <5>2 DEF SameRights
        <4> QED BY <1>1, <4>1 DEF Drops, SameRights
      <3>2. Moves(k)
        <4>1. CASE thread[k].state = "Prepared" /\ r.state = "Revoked"
          <5>1. /\ thread[k].incoming = NoClaim /\ thread[k].outgoing = NoClaim
                /\ \A x \in Slots : thread[x].state = "Prepared" => thread[x].creator # Id(k)
            BY <4>1, Unprepared
          <5>2. Childless(k)
            BY <1>1, <4>1, <5>1 DEF Childless
          <5> QED BY <1>1, <4>1, <5>1, <5>2 DEF Moves, SameRights
        <4> QED BY <1>1, <4>1 DEF Moves
      <3> QED BY <1>1, <2>2, <3>1, <3>2 DEF Legal, SameLife, SameRights
    <2> QED BY <2>1, <2>2
  <1>4. \A p \in Process : procs'[p].slot = procs[p].slot
    BY DEF ProcsKept
  <1>5. \A p \in Process : procs'[p].stopping => active'.process # p /\ procs[p].stopping
    BY DEF ProcsKept, TInv, NoDangling, StopIsFinal
  <1> QED BY <1>2, <1>3, <1>4, <1>5, StepsKeepTInv

LEMMA IdsAreThreads ==
  ASSUME TInv, NEW id \in Ids
  PROVE  /\ id \in ThreadId /\ id.slot \in Slots /\ Retained(id) /\ id.process \in Process
         /\ thread[id.slot] \in Record /\ thread[id.slot].process = id.process
  <1>1. PICK s \in Slots : thread[s].state # "Vacant" /\ id = Id(s)
    BY DEF Ids
  <1>2. /\ thread[s].process \in Process /\ thread[s].gen \in 1 .. MaxGeneration
        /\ thread[s] \in Record
    BY <1>1, Fields, CapacityAssumption, SMTT(20) DEF TInv, Lifetimes
  <1>3. id.slot = s /\ id.process = thread[s].process
    BY <1>1 DEF Id
  <1>4. id \in ThreadId
    BY <1>1, <1>2 DEF Id, ThreadId
  <1> QED BY <1>1, <1>2, <1>3, <1>4, SMTT(20) DEF Retained

LEMMA QuietKeepsTInv ==
  ASSUME TInv, UNCHANGED procs
  PROVE  ProcsKept
  BY DEF TInv, TypeOK, ProcsKept

\* The change of a record's state alone.
LEMMA TransitionKeepsTInv ==
  ASSUME TInv, NEW id, id.slot \in Slots, NEW from \in States, NEW to \in States,
         Transition(id, from, to),
         \/ from \in Executable /\ to \in Executable
         \/ from = "Prepared" /\ to = "Ready" /\ Accepting(thread[id.slot].process)
         \/ from = "Prepared" /\ to = "Revoked",
         ProcsKept, UNCHANGED <<nextJoin, active>>
  PROVE  TInv'
  <1> DEFINE q == thread[id.slot]
             new == [q EXCEPT !.state = to]
  <1>1. q \in Record
    BY Fields DEF TInv
  <1>2. new \in Record /\ SameRights(new, q) /\ new.state = to
    BY <1>1, SMTT(20) DEF Record, SameRights, States
  <1>3. thread' = [thread EXCEPT ![id.slot] = new] /\ q.state = from
    BY DEF Transition, Rec
  <1>4. nextJoin' \in 1 .. MaxJoin + 1
    BY DEF TInv, TypeOK
  <1> HIDE DEF new
  <1> QED BY <1>1, <1>2, <1>3, <1>4, OneRecordKeepsTInv

LEMMA StartKeepsTInv ==
  ASSUME TInv, NEW id \in Ids, Start(id)
  PROVE  TInv'
  <1>1. id.slot \in Slots /\ thread[id.slot].process = id.process
    BY IdsAreThreads
  <1>2. ProcsKept
    BY QuietKeepsTInv DEF Start
  <1> QED BY <1>1, <1>2, TransitionKeepsTInv DEF Start, States, Live

LEMMA AbortPreparedKeepsTInv ==
  ASSUME TInv, NEW id \in Ids, AbortPrepared(id)
  PROVE  TInv'
  <1>1. id.slot \in Slots /\ id.process \in Process
    BY IdsAreThreads
  <1>2. ProcsKept
    <2> DEFINE P == [slot : ProcessSlots \cup {NoSlot}, stopping : BOOLEAN,
                     initial : BOOLEAN, removed : BOOLEAN]
    <2>1. procs \in [Process -> P]
      BY DEF TInv, TypeOK
    <2>2. CASE procs' = procs
      BY <2>1, <2>2 DEF ProcsKept
    <2>3. CASE procs' = [procs EXCEPT ![id.process].initial = FALSE]
      BY <1>1, <2>1, <2>3 DEF ProcsKept
    <2> QED BY <2>2, <2>3 DEF AbortPrepared
  <1> QED BY <1>1, <1>2, TransitionKeepsTInv DEF AbortPrepared, States, Live, Terminal

LEMMA DispatchKeepsTInv ==
  ASSUME TInv, NEW id \in Ids, Dispatch(id)
  PROVE  TInv'
  <1>1. id.slot \in Slots
    BY IdsAreThreads
  <1>2. ProcsKept
    BY QuietKeepsTInv DEF Dispatch
  <1> QED BY <1>1, <1>2, TransitionKeepsTInv DEF Dispatch, States, Live, Executable

LEMMA YieldKeepsTInv ==
  ASSUME TInv, NEW id \in Ids, YieldRunning(id)
  PROVE  TInv'
  <1>1. id.slot \in Slots
    BY IdsAreThreads
  <1>2. ProcsKept
    BY QuietKeepsTInv DEF YieldRunning
  <1> QED BY <1>1, <1>2, TransitionKeepsTInv DEF YieldRunning, States, Live, Executable

LEMMA BlockKeepsTInv ==
  ASSUME TInv, NEW id \in Ids, Block(id)
  PROVE  TInv'
  <1> DEFINE q == thread[id.slot]
             new == [q EXCEPT !.seq = @ + 1, !.state = "Blocked"]
  <1>1. q \in Record /\ id.slot \in Slots
    BY IdsAreThreads
  <1>5. q.seq + 1 \in 0 .. MaxSequence
    <2>1. q.seq \in 0 .. MaxSequence /\ q.seq < MaxSequence
      BY <1>1 DEF Record, Block, Rec
    <2> QED BY <2>1, CapacityAssumption, SMTT(20)
  <1>2. new \in Record /\ SameRights(new, q) /\ new.state = "Blocked"
    BY <1>1, <1>5 DEF Record, SameRights, Live
  <1>3. thread' = [thread EXCEPT ![id.slot] = new] /\ q.state = "Running"
    BY DEF Block, Blocked, RunningFree, Rec
  <1>4. nextJoin' \in 1 .. MaxJoin + 1 /\ ProcsKept /\ UNCHANGED active
    BY QuietKeepsTInv DEF Block, TInv, TypeOK
  <1> HIDE DEF new
  <1> QED BY <1>1, <1>2, <1>3, <1>4, OneRecordKeepsTInv DEF Executable

LEMMA WakeKeepsTInv ==
  ASSUME TInv, NEW id \in Ids, NEW seq, Wake(id, seq)
  PROVE  TInv'
  <1>1. id.slot \in Slots
    BY IdsAreThreads
  <1>2. ProcsKept /\ Transition(id, "Blocked", "Ready")
    BY QuietKeepsTInv DEF Wake, Transition
  <1> QED BY <1>1, <1>2, TransitionKeepsTInv DEF Wake, States, Live, Executable

\* A record that only gains a mark.
LEMMA MarkKeepsTInv ==
  ASSUME TInv, NEW id \in Ids,
         RequestStop(id) \/ Detach(id) \/ ReleaseResources(id)
  PROVE  TInv'
  <1> DEFINE q == thread[id.slot]
  <1>1. q \in Record /\ id.slot \in Slots
    BY IdsAreThreads
  <1>2. nextJoin' \in 1 .. MaxJoin + 1 /\ ProcsKept /\ UNCHANGED active
    BY QuietKeepsTInv DEF RequestStop, Detach, ReleaseResources, TInv, TypeOK
  <1>3. CASE RequestStop(id)
    <2> DEFINE new == [q EXCEPT !.stop = TRUE]
    <2>1. new \in Record /\ SameRights(new, q) /\ new.state = q.state
      BY <1>1 DEF Record, SameRights
    <2>2. thread' = [thread EXCEPT ![id.slot] = new]
      BY <1>3 DEF RequestStop
    <2> HIDE DEF new
    <2> QED BY <1>1, <1>2, <2>1, <2>2, OneRecordKeepsTInv
  <1>4. CASE Detach(id)
    <2> DEFINE new == [q EXCEPT !.detached = TRUE]
    <2>1. new \in Record /\ SameRights(new, q) /\ new.state = q.state
      BY <1>1, <1>4 DEF Record, SameRights, Detach, Rec
    <2>2. thread' = [thread EXCEPT ![id.slot] = new]
      BY <1>4 DEF Detach
    <2> HIDE DEF new
    <2> QED BY <1>1, <1>2, <2>1, <2>2, OneRecordKeepsTInv
  <1>5. CASE ReleaseResources(id)
    <2> DEFINE new == [q EXCEPT !.released = TRUE]
    <2>1. new \in Record /\ SameRights(new, q) /\ new.state = q.state
      BY <1>1 DEF Record, SameRights
    <2>2. thread' = [thread EXCEPT ![id.slot] = new]
      BY <1>5 DEF ReleaseResources
    <2> HIDE DEF new
    <2> QED BY <1>1, <1>2, <2>1, <2>2, OneRecordKeepsTInv
  <1> QED BY <1>3, <1>4, <1>5

LEMMA CompleteKeepsTInv ==
  ASSUME TInv, NEW id \in Ids, NEW result \in Results, Complete(id, result)
  PROVE  TInv'
  <1> DEFINE q == thread[id.slot]
             new == [q EXCEPT !.state = "Completed", !.result = result]
  <1>1. q \in Record /\ id.slot \in Slots
    BY IdsAreThreads
  <1>2. new \in Record /\ SameRights(new, q) /\ new.state = "Completed"
    BY <1>1 DEF Record, SameRights, Terminal
  <1>3. thread' = [thread EXCEPT ![id.slot] = new] /\ q.state = "Exiting"
    BY DEF Complete, Rec
  <1>4. nextJoin' \in 1 .. MaxJoin + 1 /\ ProcsKept /\ UNCHANGED active
    BY QuietKeepsTInv DEF Complete, TInv, TypeOK
  <1> HIDE DEF new
  <1> QED BY <1>1, <1>2, <1>3, <1>4, OneRecordKeepsTInv

-----------------------------------------------------------------------------
(***************************************************************************)
(* Operations that drop a claim, at both of its ends.                      *)
(***************************************************************************)
\* Two values of a record that differ at most in their claims.
SameButClaims(r, q) ==
    /\ r.gen = q.gen /\ r.state = q.state /\ r.process = q.process /\ r.creator = q.creator
    /\ r.stop = q.stop /\ r.detached = q.detached /\ r.released = q.released
    /\ r.seq = q.seq /\ r.joined = q.joined /\ r.syncWait = q.syncWait
    /\ r.controlWait = q.controlWait /\ r.mutexes = q.mutexes

\* Both ends of a claim change, and nothing else.
Ends(th, new, a, b, c) ==
    /\ new \in [Slots -> Record]
    /\ \A s \in Slots : SameButClaims(new[s], th[s])
    /\ new[a].outgoing = c /\ \A s \in Slots \ {a} : new[s].outgoing = th[s].outgoing
    /\ new[b].incoming = c /\ \A s \in Slots \ {b} : new[s].incoming = th[s].incoming
    /\ \A s \in Slots \ {a, b} : new[s] = th[s]

LEMMA EndsSet ==
  ASSUME NEW th \in [Slots -> Record], NEW a \in Slots, NEW b \in Slots, a # b,
         NEW c \in Claims(ThreadId)
  PROVE  Ends(th, [th EXCEPT ![a].outgoing = c, ![b].incoming = c], a, b, c)
  <1> DEFINE ra == [th[a] EXCEPT !.outgoing = c]
             rb == [th[b] EXCEPT !.incoming = c]
             new == [th EXCEPT ![a].outgoing = c, ![b].incoming = c]
  <1>1. th[a] \in Record /\ th[b] \in Record
    OBVIOUS
  <1>2. /\ ra \in Record /\ SameButClaims(ra, th[a]) /\ ra.outgoing = c /\ ra.incoming = th[a].incoming
    BY <1>1 DEF Record, SameButClaims
  <1>3. /\ rb \in Record /\ SameButClaims(rb, th[b]) /\ rb.incoming = c /\ rb.outgoing = th[b].outgoing
    BY <1>1, SMTT(20) DEF Record, SameButClaims
  <1>4. new = [[th EXCEPT ![a] = ra] EXCEPT ![b] = rb]
    OBVIOUS
  <1> HIDE DEF ra, rb, new
  <1>5. new[a] = ra /\ new[b] = rb /\ new \in [Slots -> Record] /\ \A s \in Slots \ {a, b} : new[s] = th[s]
    BY <1>2, <1>3, <1>4
  <1>6. \A s \in Slots : SameButClaims(new[s], th[s])
    <2>1. \A q : SameButClaims(q, q)
      BY DEF SameButClaims
    <2> QED BY <1>2, <1>3, <1>5, <2>1
  <1>7. Ends(th, new, a, b, c)
    BY <1>2, <1>3, <1>5, <1>6 DEF Ends
  <1> QED BY <1>7 DEF new

\* A claim is held by two different records, each of its ends' slot.
LEMMA ClaimEnds ==
  ASSUME TInv, NEW c, ValidClaim(c),
         (\E s \in Slots : c = thread[s].outgoing) \/ c \in Claims(ThreadId)
  PROVE  /\ c \in Claims(ThreadId) /\ c # NoClaim
         /\ c.caller \in ThreadId /\ c.target \in ThreadId
         /\ c.caller.slot \in Slots /\ c.target.slot \in Slots /\ c.caller.slot # c.target.slot
         /\ c.caller = Id(c.caller.slot) /\ c.target = Id(c.target.slot)
         /\ thread[c.caller.slot].outgoing = c /\ thread[c.target.slot].incoming = c
         /\ c.caller # c.target
  <1>1. c \in Claims(ThreadId)
    BY Fields DEF TInv
  <1>2. c # NoClaim
    <2> SUFFICES ASSUME c = NoClaim PROVE FALSE
      OBVIOUS
    <2>1. Retained(NoThread) /\ NoThread.slot = 0 /\ NoThread.gen = 0
      BY DEF ValidClaim, NoClaim, NoThread
    <2>2. 0 \in Slots
      BY CapacityAssumption, SMTT(20) DEF Slots
    <2>3. thread[0].state # "Vacant" /\ thread[0].gen = 0
      BY <2>1, SMTT(20) DEF Retained, Id
    <2> QED BY <2>2, <2>3 DEF TInv, Lifetimes
  <1>3. c.caller \in ThreadId /\ c.target \in ThreadId /\ c.caller.slot \in Slots /\ c.target.slot \in Slots
    BY <1>1, <1>2, ClaimSlots
  <1>4. /\ c.caller = Id(c.caller.slot) /\ c.target = Id(c.target.slot)
        /\ thread[c.caller.slot].outgoing = c /\ thread[c.target.slot].incoming = c
    BY DEF ValidClaim, Retained, Rec
  <1>5. c.caller # c.target
    BY <1>2, <1>3, <1>4 DEF TInv, NoDangling, JoinPaired
  <1> QED BY <1>1, <1>2, <1>3, <1>4, <1>5

LEMMA NoneDropped ==
  ASSUME TInv, \A s \in Slots : thread'[s].outgoing = thread[s].outgoing
                                /\ thread'[s].incoming = thread[s].incoming
                                /\ thread'[s].detached = thread[s].detached
                                /\ thread'[s].joined = thread[s].joined
  PROVE  \A s \in Slots : Drops(s)
  <1> SUFFICES ASSUME NEW s \in Slots PROVE Drops(s)
    OBVIOUS
  <1>1. ASSUME thread[s].outgoing # NoClaim
        PROVE  /\ thread[s].outgoing.target.slot \in Slots
               /\ thread[thread[s].outgoing.target.slot].incoming # NoClaim
    <2>1. thread[s].outgoing.target.slot \in Slots
      BY <1>1, Fields, ClaimSlots DEF TInv
    <2> QED BY <1>1, <2>1 DEF TInv, NoDangling, JoinPaired, Rec
  <1> QED BY <1>1 DEF Drops

LEMMA OneDropped ==
  ASSUME TInv, NEW a \in Slots, NEW b \in Slots,
         thread[a].outgoing # NoClaim, thread[a].outgoing.target = Id(b),
         thread'[a].outgoing = NoClaim,
         \A s \in Slots \ {a} : thread'[s].outgoing = thread[s].outgoing,
         thread'[b].incoming = NoClaim,
         \A s \in Slots \ {b} : /\ thread'[s].incoming = thread[s].incoming
                                /\ thread'[s].detached = thread[s].detached
                                /\ thread'[s].joined = thread[s].joined
  PROVE  \A s \in Slots : Drops(s)
  <1> SUFFICES ASSUME NEW s \in Slots PROVE Drops(s)
    OBVIOUS
  <1>1. ASSUME NEW x \in Slots, thread[x].outgoing # NoClaim
        PROVE  /\ thread[x].outgoing.target.slot \in Slots
               /\ thread[thread[x].outgoing.target.slot].incoming = thread[x].outgoing
               /\ thread[x].outgoing.caller = Id(x)
    <2>1. thread[x].outgoing.target.slot \in Slots
      BY <1>1, Fields, ClaimSlots DEF TInv
    <2> QED BY <1>1, <2>1 DEF TInv, NoDangling, JoinPaired, Rec
  <1>2. ASSUME s # a, thread[s].outgoing # NoClaim
        PROVE  thread'[thread[s].outgoing.target.slot].incoming # NoClaim
    <2>1. thread[s].outgoing.target.slot # b
      <3>1. \A x \in Slots : Id(x).slot = x
        BY DEF Id
      <3>2. thread[b].incoming = thread[a].outgoing
        BY <1>1, <3>1, SMTT(20)
      <3>3. thread[a].outgoing.caller # thread[s].outgoing.caller
        BY <1>1, <1>2, <3>1, SMTT(20)
      <3> QED BY <1>1, <1>2, <3>2, <3>3, SMTT(20)
    <2> QED BY <1>1, <1>2, <2>1, SMTT(20)
  <1>3. thread[a].outgoing.target.slot = b
    BY SMTT(20) DEF Id
  <1> QED BY <1>2, <1>3 DEF Drops

LEMMA NoClaimIsClaim == NoClaim \in Claims(ThreadId)
  BY DEF Claims

LEMMA UnclaimedEnds ==
  ASSUME NEW th \in [Slots -> Record], NEW c, c.caller.slot \in Slots, c.target.slot \in Slots,
         c.caller.slot # c.target.slot
  PROVE  Ends(th, Unclaimed(th, c), c.caller.slot, c.target.slot, NoClaim)
  BY EndsSet, NoClaimIsClaim DEF Unclaimed

LEMMA ClaimedEnds ==
  ASSUME NEW th \in [Slots -> Record], NEW c \in Claims(ThreadId), c.caller.slot \in Slots,
         c.target.slot \in Slots, c.caller.slot # c.target.slot
  PROVE  Ends(th, Claimed(th, c), c.caller.slot, c.target.slot, c)
  BY EndsSet DEF Claimed

\* The premises of StepsKeepTInv on processes when they are left alone.
LEMMA QuietProcesses ==
  ASSUME TInv, UNCHANGED <<procs, nextJoin, active>>, thread' \in [Slots -> Record],
         \A s \in Slots : Legal(s)
  PROVE  TInv'
  <1>1. TypeOK'
    BY DEF TInv, TypeOK
  <1>2. \A p \in Process : procs'[p].slot = procs[p].slot
    OBVIOUS
  <1>3. \A p \in Process : procs'[p].stopping => active'.process # p /\ procs[p].stopping
    BY DEF TInv, NoDangling, StopIsFinal
  <1> QED BY <1>1, <1>2, <1>3, StepsKeepTInv

LEMMA CancelJoinKeepsTInv ==
  ASSUME TInv, NEW c \in Claims(ThreadId), CancelJoin(c)
  PROVE  TInv'
  <1> DEFINE a == c.caller.slot
             b == c.target.slot
  <1>1. ValidClaim(c) /\ thread' = Unclaimed(thread, c) /\ UNCHANGED <<procs, nextJoin, active>>
    BY DEF CancelJoin
  <1>2. /\ c # NoClaim /\ a \in Slots /\ b \in Slots /\ a # b
        /\ c.target = Id(b) /\ thread[a].outgoing = c
    BY <1>1, ClaimEnds
  <1>3. thread \in [Slots -> Record]
    BY DEF TInv, TypeOK
  <1>4. Ends(thread, thread', a, b, NoClaim)
    BY <1>1, <1>2, <1>3, UnclaimedEnds
  <1> HIDE DEF a, b
  <1>5. \A s \in Slots : Drops(s)
    BY <1>2, <1>4, OneDropped, SMTT(20) DEF Ends, SameButClaims
  <1>6. \A s \in Slots : SameLife(s) /\ Moves(s)
    BY <1>4 DEF Ends, SameButClaims, SameLife, Moves
  <1>7. thread' \in [Slots -> Record]
    BY <1>4 DEF Ends
  <1> QED BY <1>1, <1>5, <1>6, <1>7, QuietProcesses DEF Legal

LEMMA JoinResultKeepsTInv ==
  ASSUME TInv, NEW c \in Claims(ThreadId), ValidClaim(c),
         thread' = Joined(thread, c), UNCHANGED <<procs, nextJoin, active>>
  PROVE  TInv'
  <1> DEFINE a == c.caller.slot
             b == c.target.slot
             un == Unclaimed(thread, c)
             new == [un[b] EXCEPT !.joined = TRUE]
  <1>2. /\ c # NoClaim /\ a \in Slots /\ b \in Slots /\ a # b
        /\ c.target = Id(b) /\ thread[a].outgoing = c
    BY ClaimEnds
  <1>3. thread \in [Slots -> Record]
    BY DEF TInv, TypeOK
  <1>4. Ends(thread, un, a, b, NoClaim)
    BY <1>2, <1>3, UnclaimedEnds
  <1>5. thread' = [un EXCEPT ![b] = new]
    BY DEF Joined
  <1> HIDE DEF a, b, un
  <1>6. un \in [Slots -> Record] /\ un[b] \in Record
    BY <1>2, <1>4 DEF Ends
  <1>7. /\ new \in Record /\ new.gen = un[b].gen /\ new.process = un[b].process
        /\ new.creator = un[b].creator /\ new.state = un[b].state
        /\ new.incoming = un[b].incoming /\ new.outgoing = un[b].outgoing
    BY <1>6 DEF Record
  <1> HIDE DEF new
  <1>8. thread'[b] = new /\ \A s \in Slots \ {b} : thread'[s] = un[s]
    BY <1>2, <1>5, <1>6
  <1>9. /\ thread'[a].outgoing = NoClaim /\ thread'[b].incoming = NoClaim
        /\ \A s \in Slots \ {a} : thread'[s].outgoing = thread[s].outgoing
    BY <1>2, <1>4, <1>7, <1>8, SMTT(20) DEF Ends
  <1>10. \A s \in Slots \ {b} : /\ thread'[s].incoming = thread[s].incoming
                                /\ thread'[s].detached = thread[s].detached
                                /\ thread'[s].joined = thread[s].joined
    BY <1>4, <1>8, SMTT(20) DEF Ends, SameButClaims
  <1>11. \A s \in Slots : Drops(s)
    BY <1>2, <1>9, <1>10, OneDropped
  <1>12. \A s \in Slots : SameLife(s) /\ Moves(s)
    BY <1>2, <1>4, <1>7, <1>8, SMTT(20) DEF Ends, SameButClaims, SameLife, Moves
  <1>13. thread' \in [Slots -> Record]
    BY <1>5, <1>6, <1>7
  <1> QED BY <1>11, <1>12, <1>13, QuietProcesses DEF Legal

-----------------------------------------------------------------------------
(***************************************************************************)
(* begin_exit and stop_process, which revoke records on the way.           *)
(***************************************************************************)
Restated(r, st) == [r EXCEPT !.state = st]

SameButState(r, q) ==
    /\ r.gen = q.gen /\ r.process = q.process /\ r.creator = q.creator
    /\ r.incoming = q.incoming /\ r.outgoing = q.outgoing
    /\ r.stop = q.stop /\ r.detached = q.detached /\ r.released = q.released
    /\ r.seq = q.seq /\ r.joined = q.joined /\ r.syncWait = q.syncWait
    /\ r.controlWait = q.controlWait /\ r.mutexes = q.mutexes

LEMMA RestatedIs ==
  ASSUME NEW r \in Record, NEW st \in States
  PROVE  Restated(r, st) \in Record /\ Restated(r, st).state = st /\ SameButState(Restated(r, st), r)
  BY SMTT(20) DEF Restated, Record, SameButState, States

\* One record changed, and the others not.
Only(k) == \A s \in Slots \ {k} : thread'[s] = thread[s]

\* A transition changes the state of its record alone.
LEMMA TransitionIs ==
  ASSUME TInv, NEW id, id.slot \in Slots, NEW from, NEW to \in States, Transition(id, from, to)
  PROVE  /\ Only(id.slot) /\ thread[id.slot].state = from /\ thread'[id.slot].state = to
         /\ SameButState(thread'[id.slot], thread[id.slot])
  <1> DEFINE q == thread[id.slot]
  <1>1. q \in Record /\ thread \in [Slots -> Record]
    BY DEF TInv, TypeOK
  <1>2. thread' = [thread EXCEPT ![id.slot] = Restated(q, to)] /\ q.state = from
    BY DEF Transition, Rec, Restated
  <1>3. Restated(q, to).state = to /\ SameButState(Restated(q, to), q)
    BY <1>1, RestatedIs
  <1> QED BY <1>1, <1>2, <1>3 DEF Only

\* The claim a leaving thread holds is dropped at both ends, or there is none.
Freed(k) == IF thread[k].outgoing = NoClaim THEN thread ELSE Unclaimed(thread, thread[k].outgoing)

LEMMA FreedIs ==
  ASSUME TInv, NEW k \in Slots
  PROVE  /\ Freed(k) \in [Slots -> Record]
         /\ \A s \in Slots : SameButClaims(Freed(k)[s], thread[s])
         /\ Freed(k)[k].outgoing = NoClaim
         /\ \A s \in Slots \ {k} : Freed(k)[s].outgoing = thread[s].outgoing
         /\ thread[k].outgoing = NoClaim => Freed(k) = thread
         /\ thread[k].outgoing # NoClaim =>
              LET b == thread[k].outgoing.target.slot
              IN  /\ b \in Slots /\ thread[k].outgoing.target = Id(b)
                  /\ Freed(k)[b].incoming = NoClaim
                  /\ \A s \in Slots \ {b} : Freed(k)[s].incoming = thread[s].incoming
  <1>1. thread \in [Slots -> Record]
    BY DEF TInv, TypeOK
  <1>2. CASE thread[k].outgoing = NoClaim
    BY <1>1, <1>2 DEF Freed, SameButClaims
  <1>3. CASE thread[k].outgoing # NoClaim
    <2> DEFINE c == thread[k].outgoing
    <2>1. c \in Claims(ThreadId) /\ c # NoClaim
      BY <1>3, Fields DEF TInv
    <2>2. /\ c.caller = Id(k) /\ Retained(c.target) /\ Rec(c.target).incoming = c
          /\ thread[k].state # "Vacant"
      BY <1>3 DEF TInv, NoDangling, JoinPaired
    <2>3. ValidClaim(c) /\ c.caller.slot = k
      BY <2>2, SMTT(20) DEF ValidClaim, Retained, Rec, Id
    <2>4. Ends(thread, Unclaimed(thread, c), k, c.target.slot, NoClaim) /\ c.target.slot \in Slots
          /\ c.target = Id(c.target.slot)
      BY <1>1, <2>1, <2>3, ClaimEnds, UnclaimedEnds, SMTT(20)
    <2> QED BY <1>3, <2>4 DEF Freed, Ends
  <1> QED BY <1>2, <1>3

LEMMA ExitedIs ==
  ASSUME TInv, NEW id \in Ids, thread[id.slot].state = "Running"
  PROVE  LET new == Exited(thread, id)
         IN  /\ new \in [Slots -> Record]
             /\ new[id.slot].state = "Exiting"
             /\ \A s \in Slots \ {id.slot} :
                   new[s].state = IF ChildOf(id, s) THEN "Revoked" ELSE thread[s].state
             /\ \A s \in Slots : SameButState(new[s], Freed(id.slot)[s])
  <1> DEFINE k == id.slot
             mid == Freed(k)
             upd == [mid EXCEPT ![k] = Restated(mid[k], "Exiting")]
  <1>1. k \in Slots
    BY IdsAreThreads
  <1>2. mid \in [Slots -> Record] /\ \A s \in Slots : mid[s].state = thread[s].state
    BY <1>1, FreedIs DEF SameButClaims
  <1>3. Exited(thread, id) =
          [s \in Slots |-> IF ChildOf(id, s) THEN Restated(upd[s], "Revoked") ELSE upd[s]]
    BY DEF Exited, RevokeChildren, Restated, Freed
  <1> HIDE DEF mid
  <1>4. /\ Restated(mid[k], "Exiting") \in Record /\ Restated(mid[k], "Exiting").state = "Exiting"
        /\ SameButState(Restated(mid[k], "Exiting"), mid[k])
    BY <1>1, <1>2, RestatedIs DEF States, Live
  <1>5. /\ upd \in [Slots -> Record] /\ upd[k].state = "Exiting" /\ SameButState(upd[k], mid[k])
        /\ \A s \in Slots \ {k} : upd[s] = mid[s]
    BY <1>1, <1>2, <1>4
  <1> HIDE DEF upd
  <1>6. \A s \in Slots : /\ Restated(upd[s], "Revoked") \in Record
                         /\ Restated(upd[s], "Revoked").state = "Revoked"
                         /\ SameButState(Restated(upd[s], "Revoked"), upd[s])
    BY <1>5, RestatedIs DEF States, Terminal
  <1>7. ~ ChildOf(id, k)
    BY DEF ChildOf
  <1>8. \A s \in Slots : SameButState(upd[s], mid[s])
    BY <1>5 DEF SameButState
  <1>9. \A r, q, t : SameButState(r, q) /\ SameButState(q, t) => SameButState(r, t)
    BY SMTT(20) DEF SameButState
  <1> QED BY <1>1, <1>2, <1>3, <1>5, <1>6, <1>7, <1>8, <1>9, SMTT(20) DEF mid

LEMMA BeginExitKeepsTInv ==
  ASSUME TInv, NEW id \in Ids, BeginExit(id)
  PROVE  TInv'
  <1> DEFINE k == id.slot
             mid == Freed(k)
  <1>1. k \in Slots /\ Retained(id) /\ Id(k) = id /\ thread[k].state = "Running"
    BY IdsAreThreads DEF BeginExit, RunningFree, Retained, Rec
  <1>2. thread' = Exited(thread, id) /\ UNCHANGED <<procs, nextJoin, active>>
    BY DEF BeginExit
  <1>3. /\ thread' \in [Slots -> Record] /\ thread'[k].state = "Exiting"
        /\ \A s \in Slots \ {k} : thread'[s].state = IF ChildOf(id, s) THEN "Revoked" ELSE thread[s].state
        /\ \A s \in Slots : SameButState(thread'[s], mid[s])
    BY <1>1, <1>2, ExitedIs
  <1>4. /\ \A s \in Slots : SameButClaims(mid[s], thread[s])
        /\ mid[k].outgoing = NoClaim
        /\ \A s \in Slots \ {k} : mid[s].outgoing = thread[s].outgoing
    BY <1>1, FreedIs
  <1>5. \A s \in Slots : Drops(s)
    <2>1. CASE thread[k].outgoing = NoClaim
      <3>1. mid = thread
        BY <1>1, <2>1, FreedIs
      <3> QED BY <1>3, <3>1, NoneDropped DEF SameButState
    <2>2. CASE thread[k].outgoing # NoClaim
      <3> DEFINE b == thread[k].outgoing.target.slot
      <3>1. /\ b \in Slots /\ thread[k].outgoing.target = Id(b) /\ mid[b].incoming = NoClaim
            /\ \A s \in Slots \ {b} : mid[s].incoming = thread[s].incoming
        BY <1>1, <2>2, FreedIs
      <3> HIDE DEF mid, k, b
      <3>2. /\ thread'[k].outgoing = NoClaim /\ thread'[b].incoming = NoClaim
            /\ \A s \in Slots \ {k} : thread'[s].outgoing = thread[s].outgoing
            /\ \A s \in Slots \ {b} : /\ thread'[s].incoming = thread[s].incoming
                                      /\ thread'[s].detached = thread[s].detached
                                      /\ thread'[s].joined = thread[s].joined
        BY <1>1, <1>3, <1>4, <3>1, SMTT(20) DEF SameButState, SameButClaims
      <3> QED BY <1>1, <2>2, <3>1, <3>2, OneDropped
    <2> QED BY <2>1, <2>2
  <1> HIDE DEF mid
  <1>6. \A s \in Slots : SameLife(s)
    BY <1>3, <1>4, SMTT(20) DEF SameLife, SameButState, SameButClaims
  <1>7. Childless(k)
    <2> SUFFICES ASSUME NEW r \in Slots, thread'[r].state = "Prepared", thread'[r].creator = id
                 PROVE  FALSE
      BY <1>1 DEF Childless
    <2>1. thread[r].state = "Prepared" /\ ~ ChildOf(id, r) /\ thread[r].creator = id
      BY <1>1, <1>3, <1>6 DEF SameLife
    <2> QED BY <2>1 DEF ChildOf
  <1>8. ASSUME NEW s \in Slots PROVE Moves(s)
    <2>1. CASE s = k
      BY <1>1, <1>3, <1>4, <1>7, <2>1 DEF Moves, SameButState
    <2>2. CASE s # k /\ ChildOf(id, s)
      <3>1. /\ thread[s].incoming = NoClaim /\ thread[s].outgoing = NoClaim
            /\ \A r \in Slots : thread[r].state = "Prepared" => thread[r].creator # Id(s)
        BY <2>2, Unprepared DEF ChildOf
      <3>2. Childless(s)
        <4>1. \A r \in Slots : thread'[r].state = "Prepared" =>
                 thread[r].state = "Prepared" /\ thread'[r].creator = thread[r].creator
          BY <1>3, <1>6 DEF SameLife
        <4> QED BY <3>1, <4>1 DEF Childless
      <3>3. thread'[s].outgoing = NoClaim /\ thread'[s].incoming = NoClaim
        BY <1>5, <3>1 DEF Drops
      <3> QED BY <1>3, <2>2, <3>2, <3>3 DEF Moves, ChildOf
    <2>3. CASE s # k /\ ~ ChildOf(id, s)
      BY <1>3, <2>3 DEF Moves
    <2> QED BY <2>1, <2>2, <2>3
  <1> QED BY <1>2, <1>3, <1>5, <1>6, <1>8, QuietProcesses DEF Legal

Halted(r) ==
    [r EXCEPT !.state = "Revoked", !.stop = TRUE, !.controlWait = FALSE,
              !.incoming = NoClaim, !.outgoing = NoClaim]

LEMMA HaltedIs ==
  ASSUME NEW r \in Record
  PROVE  /\ Halted(r) \in Record
         /\ Halted(r).state = "Revoked" /\ Halted(r).controlWait = FALSE
         /\ Halted(r).incoming = NoClaim /\ Halted(r).outgoing = NoClaim
         /\ Halted(r).gen = r.gen /\ Halted(r).process = r.process /\ Halted(r).creator = r.creator
         /\ Halted(r).joined = r.joined /\ Halted(r).detached = r.detached /\ Halted(r).seq = r.seq
  BY NoClaimIsClaim DEF Halted, Record, Terminal

LEMMA StoppedIs ==
  ASSUME TInv, NEW p \in Process
  PROVE  /\ Stopped(thread, p) \in [Slots -> Record]
         /\ \A s \in Slots : Stopped(thread, p)[s] =
                IF s \in Owned(p) THEN Halted(thread[s]) ELSE thread[s]
  <1>1. \A s \in Slots : thread[s] \in Record /\ Halted(thread[s]) \in Record
    BY Fields, HaltedIs DEF TInv
  <1>2. Stopped(thread, p) = [s \in Slots |-> IF s \in Owned(p) THEN Halted(thread[s]) ELSE thread[s]]
    BY DEF Stopped, Halted, Owned
  <1> QED BY <1>1, <1>2

LEMMA StopProcessKeepsTInv ==
  ASSUME TInv, NEW p \in Process, StopProcess(p)
  PROVE  TInv'
  <1>1. thread' = Stopped(thread, p)
    BY DEF StopProcess
  <1>2. /\ thread' \in [Slots -> Record]
        /\ \A s \in Slots : thread'[s] = IF s \in Owned(p) THEN Halted(thread[s]) ELSE thread[s]
    BY <1>1, StoppedIs
  <1>3. \A s \in Slots : thread[s] \in Record
    BY Fields DEF TInv
  <1>11. ASSUME NEW s \in Owned(p)
         PROVE  /\ s \in Slots /\ thread[s].state # "Vacant" /\ thread'[s].state = "Revoked"
                /\ thread'[s].incoming = NoClaim /\ thread'[s].outgoing = NoClaim
    <2>1. s \in Slots /\ thread[s].state # "Vacant"
      BY DEF Owned
    <2>2. thread'[s] = Halted(thread[s]) /\ thread[s] \in Record
      BY <1>2, <1>3, <2>1
    <2>3. Halted(thread[s]).state = "Revoked" /\ Halted(thread[s]).incoming = NoClaim
          /\ Halted(thread[s]).outgoing = NoClaim
      BY <2>2, HaltedIs
    <2> QED BY <2>1, <2>2, <2>3
  <1>4. /\ procs' \in [Process -> [slot : ProcessSlots \cup {NoSlot}, stopping : BOOLEAN,
                                   initial : BOOLEAN, removed : BOOLEAN]]
        /\ \A q \in Process : /\ procs'[q].slot = procs[q].slot
                              /\ q # p => procs'[q].stopping = procs[q].stopping
    BY DEF StopProcess, TInv, TypeOK
  <1>5. active' \in [process : Process, seq : Nat] \cup {NoTurn} /\ active'.process # p
        /\ active' \in {active, NoTurn}
    BY ProcessAssumption DEF StopProcess, TInv, TypeOK, NoTurn
  <1>6. TypeOK'
    BY <1>2, <1>4, <1>5 DEF TInv, TypeOK, StopProcess
  <1>7. ASSUME NEW s \in Slots PROVE SameLife(s)
    BY <1>2, <1>3, HaltedIs DEF SameLife
  <1>8. ASSUME NEW s \in Slots PROVE Moves(s)
    <2>1. CASE s \notin Owned(p)
      BY <1>2, <2>1 DEF Moves
    <2>2. CASE s \in Owned(p)
      <3>1. /\ thread[s].state # "Vacant" /\ thread'[s].state = "Revoked"
            /\ thread'[s].outgoing = NoClaim /\ thread'[s].incoming = NoClaim
        BY <1>11, <2>2
      <3>2. Childless(s)
        <4> SUFFICES ASSUME NEW r \in Slots, thread'[r].state = "Prepared", thread'[r].creator = Id(s)
                     PROVE  FALSE
          BY DEF Childless
        <4>1. r \notin Owned(p) /\ thread'[r] = thread[r]
          BY <1>2, <1>11
        <4>2. Id(s) # NoThread /\ Id(s).process = p
          BY <2>2, ProcessAssumption DEF Owned, Id, NoThread
        <4>3. thread[r].process = p
          BY <4>1, <4>2 DEF TInv, NoDangling, NoOrphans
        <4> QED BY <4>1, <4>3 DEF Owned
      <3> QED BY <3>1, <3>2 DEF Moves
    <2> QED BY <2>1, <2>2
  <1>9. ASSUME NEW s \in Slots PROVE Drops(s)
    <2>1. ASSUME thread[s].outgoing # NoClaim
          PROVE  LET b == thread[s].outgoing.target.slot
                 IN  b \in Slots /\ (s \in Owned(p) <=> b \in Owned(p)) /\ thread[b].incoming # NoClaim
      <3> DEFINE t == thread[s].outgoing.target
      <3>1. t \in ThreadId /\ t.slot \in Slots
        BY <2>1, Fields, ClaimSlots DEF TInv
      <3>2. Retained(t) /\ thread[t.slot].incoming # NoClaim /\ thread[s].state # "Vacant"
        BY <2>1 DEF TInv, NoDangling, JoinPaired, Rec
      <3>3. t.process = thread[s].process
        BY <2>1, <3>2 DEF TInv, Lifetimes
      <3>4. thread[t.slot].state # "Vacant" /\ thread[t.slot].process = t.process
        BY <3>1, <3>2, RetainedIs
      <3> QED BY <3>1, <3>2, <3>3, <3>4 DEF Owned
    <2>2. CASE s \in Owned(p)
      <3>1. thread'[s].outgoing = NoClaim /\ thread'[s].incoming = NoClaim
        BY <1>11, <2>2
      <3>2. thread[s].outgoing # NoClaim => thread'[thread[s].outgoing.target.slot].incoming = NoClaim
        BY <1>11, <2>1, <2>2
      <3> QED BY <3>1, <3>2 DEF Drops
    <2>3. CASE s \notin Owned(p)
      <3>1. thread'[s] = thread[s]
        BY <1>2, <2>3
      <3>2. thread[s].outgoing # NoClaim => thread'[thread[s].outgoing.target.slot].incoming # NoClaim
        BY <1>2, <2>1, <2>3
      <3> QED BY <3>1, <3>2 DEF Drops
    <2> QED BY <2>2, <2>3
  <1>10. ASSUME NEW q \in Process, procs'[q].stopping
         PROVE  /\ active'.process # q
                /\ procs[q].stopping \/ \A s \in Owned(q) :
                     /\ thread'[s].state = "Revoked"
                     /\ thread'[s].incoming = NoClaim /\ thread'[s].outgoing = NoClaim
    <2>1. CASE q = p
      BY <1>5, <1>11, <2>1
    <2>2. CASE q # p
      BY <1>4, <1>5, <1>10, <2>2, ProcessAssumption, SMTT(20) DEF TInv, NoDangling, StopIsFinal, NoTurn
    <2> QED BY <2>1, <2>2
  <1> QED BY <1>4, <1>6, <1>7, <1>8, <1>9, <1>10, StepsKeepTInv DEF Legal

-----------------------------------------------------------------------------
(***************************************************************************)
(* A claim is made: the only step that adds to a record's claims.          *)
(***************************************************************************)
LEMMA NewClaimIs ==
  ASSUME TInv, NEW caller \in Ids, NEW target \in Ids, ValidJoin(caller, target), nextJoin < MaxJoin
  PROVE  /\ NewClaim(caller, target) \in Claims(ThreadId) /\ NewClaim(caller, target) # NoClaim
         /\ NewClaim(caller, target).caller = caller /\ NewClaim(caller, target).target = target
         /\ caller.slot \in Slots /\ target.slot \in Slots /\ caller.slot # target.slot
         /\ Id(caller.slot) = caller /\ Id(target.slot) = target
         /\ nextJoin + 1 \in 1 .. MaxJoin + 1
  <1>1. /\ caller \in ThreadId /\ target \in ThreadId /\ caller.slot \in Slots /\ target.slot \in Slots
        /\ Id(caller.slot) = caller /\ Id(target.slot) = target /\ caller.process \in Process
    BY IdsAreThreads DEF Retained
  <1>2. nextJoin \in 1 .. MaxJoin /\ nextJoin + 1 \in 1 .. MaxJoin + 1
    BY CapacityAssumption, SMTT(20) DEF TInv, TypeOK
  <1>3. caller.slot # target.slot
    BY <1>1 DEF ValidJoin
  <1>4. caller # NoThread
    BY <1>1, ProcessAssumption, SMTT(20) DEF NoThread
  <1> QED BY <1>1, <1>2, <1>3, <1>4 DEF NewClaim, Claims, NoClaim

LEMMA ClaimKeepsTInv ==
  ASSUME TInv, NEW caller \in Ids, NEW target \in Ids, ValidJoin(caller, target), nextJoin < MaxJoin,
         NEW c, c = NewClaim(caller, target), NEW a, a = caller.slot, NEW b, b = target.slot,
         thread' \in [Slots -> Record],
         \A s \in Slots : /\ SameLife(s)
                          /\ thread'[s].detached = thread[s].detached
                          /\ thread'[s].joined = thread[s].joined,
         \A s \in Slots \ {a} : thread'[s].state = thread[s].state
                                /\ thread'[s].outgoing = thread[s].outgoing,
         thread'[a].state \in Executable, thread'[a].outgoing = c,
         \A s \in Slots \ {b} : thread'[s].incoming = thread[s].incoming,
         thread'[b].incoming = c,
         UNCHANGED <<procs, active>>, nextJoin' = nextJoin + 1
  PROVE  TInv'
  <1>1. /\ c \in Claims(ThreadId) /\ c # NoClaim /\ c.caller = caller /\ c.target = target
        /\ a \in Slots /\ b \in Slots /\ a # b /\ Id(a) = caller /\ Id(b) = target
        /\ nextJoin' \in 1 .. MaxJoin + 1 /\ caller # target
    BY NewClaimIs, SMTT(20)
  <1>2. TypeOK'
    BY <1>1 DEF TInv, TypeOK
  <1>3. /\ thread[a].state = "Running" /\ thread[a].outgoing = NoClaim
        /\ thread[b].state \notin {"Prepared", "Revoked", "Vacant"} /\ thread[b].incoming = NoClaim
        /\ ~ thread[b].detached /\ ~ thread[b].joined /\ thread[a].process = thread[b].process
    BY <1>1, SMTT(20) DEF ValidJoin, RunningFree, Retained, Rec, Id
  <1>4. \A s \in Slots : /\ (thread'[s].state = "Vacant") <=> (thread[s].state = "Vacant")
                         /\ (thread'[s].state = "Prepared") <=> (thread[s].state = "Prepared")
                         /\ thread[s].state \in Executable => thread'[s].state \in Executable
                         /\ Id(s)' = Id(s)
    BY <1>3 DEF SameLife, Id, Executable
  <1>5. \A id \in ThreadId : Retained(id) => Retained(id)'
    BY <1>4 DEF Retained, ThreadId
  <1>6. caller \in ThreadId /\ target \in ThreadId /\ Retained(caller) /\ Retained(target)
    BY IdsAreThreads
  <1>7. JoinPaired'
    <2> SUFFICES ASSUME NEW s \in Slots
                 PROVE  Paired(s, thread[s].outgoing, thread[s].incoming)'
      BY DEF JoinPaired, Paired
    <2> SUFFICES ASSUME NEW out, NEW in, out = thread'[s].outgoing, in = thread'[s].incoming
                 PROVE  Paired(s, out, in)'
      BY DEF Paired, Retained, Rec, Id
    <2>2. Paired(s, thread[s].outgoing, thread[s].incoming)
      BY DEF TInv, NoDangling, JoinPaired, Paired
    <2>3. /\ thread[s].outgoing # NoClaim =>
               thread[s].outgoing.target \in ThreadId /\ thread[s].outgoing.target.slot \in Slots
          /\ thread[s].incoming # NoClaim =>
               thread[s].incoming.caller \in ThreadId /\ thread[s].incoming.caller.slot \in Slots
      BY Fields, ClaimSlots DEF TInv
    <2>4. ASSUME out # NoClaim
          PROVE  /\ out.caller = Id(s)' /\ thread'[s].state \in Executable
                 /\ Retained(out.target)' /\ Rec(out.target)'.incoming = out
      <3>1. CASE s = a
        <4>1. out = c /\ c.caller = Id(s)' /\ thread'[s].state \in Executable
          BY <1>1, <1>4, <3>1
        <4>2. Retained(target)' /\ Rec(target)'.incoming = c
          BY <1>5, <1>6 DEF Rec
        <4> QED BY <1>1, <4>1, <4>2
      <3>2. CASE s # a
        <4>1. out = thread[s].outgoing
          BY <3>2
        <4>2. /\ out.caller = Id(s) /\ thread[s].state \in Executable
              /\ Retained(out.target) /\ thread[out.target.slot].incoming = out
              /\ out.target \in ThreadId /\ out.target.slot \in Slots
          BY <2>2, <2>3, <2>4, <4>1 DEF Paired, Rec, Executable
        <4>3. out.target.slot # b
          BY <1>3, <2>4, <4>2
        <4> QED BY <1>4, <1>5, <4>2, <4>3 DEF Rec
      <3> QED BY <3>1, <3>2
    <2>5. ASSUME in # NoClaim
          PROVE  /\ in.target = Id(s)' /\ in.caller # in.target
                 /\ Retained(in.caller)' /\ Rec(in.caller)'.outgoing = in
                 /\ ~ thread'[s].detached /\ ~ thread'[s].joined
                 /\ thread'[s].state \notin {"Prepared", "Revoked", "Vacant"}
      <3>1. CASE s = b
        <4>1. in = c /\ c.target = Id(s)' /\ thread'[s].state = thread[s].state
          BY <1>1, <1>4, <3>1
        <4>2. Retained(caller)' /\ Rec(caller)'.outgoing = c
          BY <1>5, <1>6 DEF Rec
        <4> QED BY <1>1, <1>3, <3>1, <4>1, <4>2
      <3>2. CASE s # b
        <4>1. in = thread[s].incoming
          BY <3>2
        <4>2. /\ in.target = Id(s) /\ in.caller # in.target
              /\ Retained(in.caller) /\ thread[in.caller.slot].outgoing = in
              /\ ~ thread[s].detached /\ ~ thread[s].joined
              /\ thread[s].state \notin {"Prepared", "Revoked", "Vacant"}
              /\ in.caller \in ThreadId /\ in.caller.slot \in Slots
          BY <2>2, <2>3, <2>5, <4>1 DEF Paired, Rec
        <4>3. in.caller.slot # a
          BY <1>3, <2>5, <4>2
        <4>4. thread'[s].state \notin {"Prepared", "Revoked", "Vacant"}
          BY <1>3, <1>4, <4>2 DEF Executable
        <4> QED BY <1>4, <1>5, <4>2, <4>3, <4>4 DEF Rec
      <3> QED BY <3>1, <3>2
    <2> QED BY <2>4, <2>5 DEF Paired, Executable
  <1>8. NoOrphans'
    <2> SUFFICES ASSUME NEW s \in Slots, NEW d, d = thread'[s].creator,
                        thread'[s].state = "Prepared", d # NoThread
                 PROVE  /\ Retained(d)' /\ d.process = thread'[s].process
                        /\ Rec(d)'.state \in Executable
      BY DEF NoOrphans, Retained, Rec, Id, Executable
    <2>1. thread[s].state = "Prepared" /\ thread[s].creator = d /\ thread'[s].process = thread[s].process
      BY <1>4 DEF SameLife
    <2>2. Retained(d) /\ d.process = thread[s].process /\ thread[d.slot].state \in Executable
      BY <2>1 DEF TInv, NoDangling, NoOrphans, Rec, Executable
    <2>3. d \in ThreadId /\ d.slot \in Slots
      BY <2>1, Fields DEF TInv, ThreadId
    <2> QED BY <1>4, <1>5, <2>1, <2>2, <2>3 DEF Rec
  <1>9. StopIsFinal'
    <2> SUFFICES ASSUME NEW p \in Process, procs[p].stopping
                 PROVE  /\ active.process # p
                        /\ \A s \in Slots : thread'[s].state # "Vacant" /\ thread'[s].process = p =>
                             /\ thread'[s].state = "Revoked"
                             /\ thread'[s].incoming = NoClaim /\ thread'[s].outgoing = NoClaim
      BY DEF StopIsFinal, Owned
    <2>1. /\ active.process # p
          /\ \A s \in Slots : thread[s].state # "Vacant" /\ thread[s].process = p =>
               /\ thread[s].state = "Revoked"
               /\ thread[s].incoming = NoClaim /\ thread[s].outgoing = NoClaim
      BY DEF TInv, NoDangling, StopIsFinal, Owned
    <2>2. thread[a].process # p /\ thread[b].process # p
      BY <1>1, <1>3, <2>1
    <2> QED BY <1>1, <1>4, <2>1, <2>2, SMTT(20) DEF SameLife
  <1>10. SlotsStable'
    BY <1>4 DEF TInv, NoDangling, SlotsStable, Registered, SameLife
  <1>11. Lifetimes'
    <2>1. c.target.process = thread[a].process
      BY <1>1, <1>3, SMTT(20) DEF Id
    <2> QED BY <1>1, <1>4, <2>1, SMTT(20) DEF TInv, Lifetimes, SameLife
  <1> QED BY <1>2, <1>7, <1>8, <1>9, <1>10, <1>11 DEF TInv, NoDangling

LEMMA ClaimJoinKeepsTInv ==
  ASSUME TInv, NEW caller \in Ids, NEW target \in Ids, ClaimJoin(caller, target)
  PROVE  TInv'
  <1> DEFINE c == NewClaim(caller, target)
  <1>1. /\ ValidJoin(caller, target) /\ nextJoin < MaxJoin /\ thread' = Claimed(thread, c)
        /\ nextJoin' = nextJoin + 1 /\ UNCHANGED <<procs, active>>
    BY DEF ClaimJoin
  <1>2. /\ c \in Claims(ThreadId) /\ c.caller = caller /\ c.target = target
        /\ caller.slot \in Slots /\ target.slot \in Slots /\ caller.slot # target.slot
    BY <1>1, NewClaimIs
  <1>3. thread \in [Slots -> Record]
    BY DEF TInv, TypeOK
  <1> HIDE DEF c
  <1>4. Ends(thread, thread', caller.slot, target.slot, c)
    BY <1>1, <1>2, <1>3, ClaimedEnds
  <1>5. thread[caller.slot].state = "Running"
    BY <1>1 DEF ValidJoin, RunningFree, Rec
  <1>6. /\ thread' \in [Slots -> Record]
        /\ \A s \in Slots : /\ SameLife(s)
                           /\ thread'[s].detached = thread[s].detached
                           /\ thread'[s].joined = thread[s].joined
    BY <1>4 DEF Ends, SameButClaims, SameLife
  <1>7. /\ \A s \in Slots \ {caller.slot} : /\ thread'[s].state = thread[s].state
                                          /\ thread'[s].outgoing = thread[s].outgoing
        /\ thread'[caller.slot].state \in Executable /\ thread'[caller.slot].outgoing = c
    BY <1>2, <1>4, <1>5 DEF Ends, SameButClaims, Executable
  <1>8. /\ \A s \in Slots \ {target.slot} : thread'[s].incoming = thread[s].incoming
        /\ thread'[target.slot].incoming = c
    BY <1>2, <1>4 DEF Ends, SameButClaims
  <1>9. c = NewClaim(caller, target)
    BY DEF c
  <1> QED BY <1>1, <1>6, <1>7, <1>8, <1>9, ClaimKeepsTInv, SMTT(20)

-----------------------------------------------------------------------------
(***************************************************************************)
(* A slot gets or loses its lifetime.                                      *)
(***************************************************************************)
\* The record of a new lifetime, or of none.
Begins(r, k) ==
    \/ r.state = "Vacant"
    \/ /\ r.state = "Prepared" /\ r.gen # 0 /\ r.process \in Process /\ Accepting(r.process)
       /\ r.creator # NoThread => /\ r.creator \in Ids /\ r.creator.process = r.process
                                  /\ thread[r.creator.slot].state \in Executable

LEMMA SlotKeepsTInv ==
  ASSUME TInv, NEW k \in Slots, NEW r \in Record, thread' = [thread EXCEPT ![k] = r],
         thread[k].incoming = NoClaim, thread[k].outgoing = NoClaim,
         thread[k].state \notin Executable,
         r.incoming = NoClaim, r.outgoing = NoClaim, Begins(r, k),
         ProcsKept, UNCHANGED <<nextJoin, active>>
  PROVE  TInv'
  <1>1. thread'[k] = r /\ \A s \in Slots \ {k} : thread'[s] = thread[s]
    BY DEF TInv, TypeOK
  <1>2. TypeOK'
    BY DEF TInv, TypeOK, ProcsKept
  <1>3. \A s \in Slots \ {k} : Id(s)' = Id(s)
    BY <1>1 DEF Id
  <1>4. \A id \in ThreadId : Retained(id) /\ id.slot # k => Retained(id)' /\ Rec(id)' = Rec(id)
    BY <1>1, <1>3 DEF Retained, Rec, ThreadId
  <1>5. JoinPaired'
    <2> SUFFICES ASSUME NEW s \in Slots
                 PROVE  Paired(s, thread[s].outgoing, thread[s].incoming)'
      BY DEF JoinPaired, Paired
    <2> SUFFICES ASSUME NEW out, NEW in, out = thread'[s].outgoing, in = thread'[s].incoming
                 PROVE  Paired(s, out, in)'
      BY DEF Paired, Retained, Rec, Id
    <2>1. CASE s = k
      BY <1>1, <2>1 DEF Paired
    <2>2. CASE s # k
      <3>1. out = thread[s].outgoing /\ in = thread[s].incoming /\ thread'[s] = thread[s]
        BY <1>1, <2>2
      <3>2. Paired(s, out, in)
        BY <3>1 DEF TInv, NoDangling, JoinPaired, Paired
      <3>3. /\ out # NoClaim => out.target \in ThreadId /\ out.target.slot \in Slots
            /\ in # NoClaim => in.caller \in ThreadId /\ in.caller.slot \in Slots
        BY <3>1, Fields, ClaimSlots DEF TInv
      <3>4. /\ out # NoClaim => out.target.slot # k
            /\ in # NoClaim => in.caller.slot # k
        BY <3>2 DEF Paired, Rec
      <3>5. /\ out # NoClaim => Retained(out.target)' /\ Rec(out.target)'.incoming = out
            /\ in # NoClaim => Retained(in.caller)' /\ Rec(in.caller)'.outgoing = in
        BY <1>4, <3>2, <3>3, <3>4 DEF Paired
      <3> QED BY <1>3, <2>2, <3>1, <3>2, <3>5 DEF Paired
    <2> QED BY <2>1, <2>2
  <1>6. NoOrphans'
    <2> SUFFICES ASSUME NEW s \in Slots, NEW d, d = thread'[s].creator,
                        thread'[s].state = "Prepared", d # NoThread
                 PROVE  /\ Retained(d)' /\ d.process = thread'[s].process
                        /\ Rec(d)'.state \in Executable
      BY DEF NoOrphans, Retained, Rec, Id, Executable
    <2>1. /\ Retained(d) /\ d.process = thread'[s].process /\ thread[d.slot].state \in Executable
          /\ d \in ThreadId
      <3>1. CASE s = k
        <4>1. d \in Ids /\ d.process = r.process /\ thread[d.slot].state \in Executable
          BY <1>1, <3>1 DEF Begins
        <4> QED BY <1>1, <3>1, <4>1, IdsAreThreads
      <3>2. CASE s # k
        <4>1. thread'[s] = thread[s]
          BY <1>1, <3>2
        <4> QED BY <4>1, Fields DEF TInv, NoDangling, NoOrphans, Rec, Executable
      <3> QED BY <3>1, <3>2
    <2> QED BY <1>4, <2>1 DEF Rec
  <1>7. StopIsFinal'
    <2> SUFFICES ASSUME NEW p \in Process, procs'[p].stopping
                 PROVE  /\ active.process # p
                        /\ \A s \in Slots : thread'[s].state # "Vacant" /\ thread'[s].process = p =>
                             /\ thread'[s].state = "Revoked"
                             /\ thread'[s].incoming = NoClaim /\ thread'[s].outgoing = NoClaim
      BY DEF StopIsFinal, Owned
    <2>1. /\ procs[p].stopping /\ active.process # p
          /\ \A s \in Slots : thread[s].state # "Vacant" /\ thread[s].process = p =>
               /\ thread[s].state = "Revoked"
               /\ thread[s].incoming = NoClaim /\ thread[s].outgoing = NoClaim
      BY DEF TInv, NoDangling, StopIsFinal, Owned, ProcsKept
    <2>2. r.state = "Vacant" \/ r.process # p
      BY <2>1 DEF Begins, Accepting
    <2> QED BY <1>1, <2>1, <2>2, SMTT(20)
  <1>8. SlotsStable'
    BY <1>1, SMTT(20) DEF TInv, NoDangling, SlotsStable, Registered, Begins, Accepting, ProcsKept, Lifetimes
  <1>9. Lifetimes'
    BY <1>1 DEF TInv, Lifetimes, Begins
  <1> QED BY <1>2, <1>5, <1>6, <1>7, <1>8, <1>9 DEF TInv, NoDangling

\* A vacant slot holds no claim.
LEMMA VacantUnclaimed ==
  ASSUME TInv, NEW s \in Slots, thread[s].state = "Vacant"
  PROVE  thread[s].incoming = NoClaim /\ thread[s].outgoing = NoClaim
  BY DEF TInv, NoDangling, JoinPaired

LEMMA EmptyIs ==
  ASSUME NEW g \in 0 .. MaxGeneration
  PROVE  Empty(g) \in Record /\ Empty(g).state = "Vacant" /\ Empty(g).gen = g
         /\ Empty(g).incoming = NoClaim /\ Empty(g).outgoing = NoClaim
         /\ Empty(g).controlWait = FALSE /\ Empty(g).joined = FALSE
  <1>1. 0 \in 0 .. MaxSequence /\ 0 \in Nat
    BY CapacityAssumption, SMTT(20)
  <1> QED BY <1>1, NoClaimIsClaim DEF Empty, Record

\* The record `prepare' stores.
Prepared(g, p, creator, pages) ==
    [Empty(g) EXCEPT !.state = "Prepared", !.process = p, !.creator = creator,
                     !.pages = pages, !.detached = (creator = NoThread)]

IsPrepared(r, g, p, creator) ==
    /\ r \in Record /\ r.state = "Prepared" /\ r.gen = g /\ r.process = p
    /\ r.creator = creator /\ r.incoming = NoClaim /\ r.outgoing = NoClaim
    /\ r.controlWait = FALSE /\ r.joined = FALSE

LEMMA PreparedIs ==
  ASSUME NEW g \in 1 .. MaxGeneration, NEW p \in Process, NEW creator \in ThreadId \cup {NoThread},
         NEW pages \in Charges
  PROVE  IsPrepared(Prepared(g, p, creator, pages), g, p, creator)
  <1> DEFINE e == Empty(g)
             new(d) == [e EXCEPT !.state = "Prepared", !.process = p, !.creator = creator,
                                 !.pages = pages, !.detached = d]
  <1>1. g \in 0 .. MaxGeneration
    BY CapacityAssumption, SMTT(20)
  <1>2. /\ e \in Record /\ e.gen = g /\ e.incoming = NoClaim /\ e.outgoing = NoClaim
        /\ e.controlWait = FALSE /\ e.joined = FALSE
    BY <1>1, EmptyIs
  <1>3. Prepared(g, p, creator, pages) = IF creator = NoThread THEN new(TRUE) ELSE new(FALSE)
    BY DEF Prepared
  <1> HIDE DEF e
  <1>4. IsPrepared(new(TRUE), g, p, creator) /\ IsPrepared(new(FALSE), g, p, creator)
    BY <1>2 DEF Record, Live, IsPrepared
  <1> HIDE DEF new
  <1> QED BY <1>3, <1>4

LEMMA PrepareKeepsTInv ==
  ASSUME TInv, NEW p \in Process, NEW creator, NEW pages \in Charges,
         \/ creator = NoThread
         \/ /\ creator \in Ids /\ creator.process = p
            /\ thread[creator.slot].state \in Executable,
         Prepare(p, creator, pages), ProcsKept, UNCHANGED <<nextJoin, active>>
  PROVE  TInv'
  <1>1. PICK s \in FreeSlots : thread' = [thread EXCEPT ![s] = Prepared(thread[s].gen + 1, p, creator, pages)]
    BY DEF Prepare, Prepared
  <1>2. s \in Slots /\ thread[s].state = "Vacant" /\ thread[s].gen < MaxGeneration
    BY DEF FreeSlots
  <1>3. thread[s].gen + 1 \in 1 .. MaxGeneration
    BY <1>2, Fields, CapacityAssumption, SMTT(20) DEF TInv
  <1>4. creator \in ThreadId \cup {NoThread}
    BY IdsAreThreads
  <1> DEFINE g == thread[s].gen + 1
             r == Prepared(g, p, creator, pages)
  <1>6. thread' = [thread EXCEPT ![s] = r] /\ g \in 1 .. MaxGeneration
    BY <1>1, <1>3
  <1> HIDE DEF g
  <1>5. /\ r \in Record /\ r.state = "Prepared" /\ r.gen = g /\ r.process = p
        /\ r.creator = creator /\ r.incoming = NoClaim /\ r.outgoing = NoClaim
    <2>1. g \in 1 .. MaxGeneration
      BY <1>6
    <2>2. IsPrepared(r, g, p, creator)
      BY <1>4, <2>1, PreparedIs
    <2> QED BY <2>2 DEF IsPrepared
  <1> HIDE DEF r
  <1>7. r.gen # 0
    BY <1>5, <1>6, SMTT(20)
  <1>8. Begins(r, s)
    BY <1>5, <1>7 DEF Begins, Prepare
  <1>9. thread[s].incoming = NoClaim /\ thread[s].outgoing = NoClaim /\ thread[s].state \notin Executable
    BY <1>2, VacantUnclaimed DEF Executable
  <1> QED BY <1>2, <1>5, <1>6, <1>8, <1>9, SlotKeepsTInv

LEMMA PrepareInitialKeepsTInv ==
  ASSUME TInv, NEW p \in Process, NEW pages \in Charges, PrepareInitial(p, pages)
  PROVE  TInv'
  <1>1. ProcsKept
    BY DEF PrepareInitial, TInv, TypeOK, ProcsKept
  <1> QED BY <1>1, PrepareKeepsTInv DEF PrepareInitial

LEMMA PrepareWorkerKeepsTInv ==
  ASSUME TInv, NEW id \in Ids, NEW pages \in Charges, PrepareWorker(id, pages)
  PROVE  TInv'
  <1>1. ProcsKept /\ id.process \in Process
    BY QuietKeepsTInv, IdsAreThreads DEF PrepareWorker
  <1>2. thread[id.slot].state \in Executable
    BY DEF PrepareWorker, RunningFree, Rec, Executable
  <1> QED BY <1>1, <1>2, PrepareKeepsTInv DEF PrepareWorker

LEMMA ReapKeepsTInv ==
  ASSUME TInv, NEW id \in Ids, Reap(id)
  PROVE  TInv'
  <1> DEFINE k == id.slot
             r == Empty(thread[k].gen)
  <1>1. k \in Slots /\ thread[k].gen \in 0 .. MaxGeneration
    BY IdsAreThreads, Fields DEF TInv
  <1>2. /\ r \in Record /\ r.state = "Vacant" /\ r.incoming = NoClaim /\ r.outgoing = NoClaim
    BY <1>1, EmptyIs
  <1>3. thread' = [thread EXCEPT ![k] = r]
    BY DEF Reap, Rec
  <1>4. /\ thread[k].incoming = NoClaim /\ thread[k].outgoing = NoClaim
        /\ thread[k].state \notin Executable /\ UNCHANGED <<nextJoin, active>> /\ ProcsKept
    BY QuietKeepsTInv DEF Reap, Reapable, Rec, Executable
  <1> HIDE DEF r, k
  <1> QED BY <1>1, <1>2, <1>3, <1>4, SlotKeepsTInv DEF Begins

LEMMA ThreadsKept ==
  ASSUME TInv, UNCHANGED thread
  PROVE  JoinPaired' /\ NoOrphans' /\ Lifetimes'
  BY DEF TInv, NoDangling, JoinPaired, NoOrphans, Lifetimes, Retained, Rec, Id

LEMMA RegisterKeepsTInv ==
  ASSUME TInv, NEW p \in Process, RegisterProcess(p)
  PROVE  TInv'
  <1>1. PICK i \in FreeProcessSlots : procs' = [procs EXCEPT ![p].slot = i]
    BY DEF RegisterProcess
  <1>2. i \in ProcessSlots /\ \A q \in Process : procs[q].slot # i
    BY DEF FreeProcessSlots
  <1>3. i # NoSlot
    BY <1>2, CapacityAssumption, SMTT(20) DEF ProcessSlots, NoSlot
  <1>4. /\ procs' \in [Process -> [slot : ProcessSlots \cup {NoSlot}, stopping : BOOLEAN,
                                   initial : BOOLEAN, removed : BOOLEAN]]
        /\ procs'[p].slot = i /\ procs'[p].stopping = procs[p].stopping
        /\ \A q \in Process \ {p} : procs'[q] = procs[q]
    BY <1>1, <1>2 DEF TInv, TypeOK
  <1>5. UNCHANGED <<thread, nextJoin, active>>
    BY DEF RegisterProcess
  <1>6. TypeOK'
    BY <1>4, <1>5 DEF TInv, TypeOK
  <1>7. StopIsFinal'
    BY <1>4, <1>5, SMTT(20) DEF TInv, NoDangling, StopIsFinal, Owned
  <1>8. SlotsStable'
    BY <1>2, <1>3, <1>4, <1>5, SMTT(20) DEF TInv, NoDangling, SlotsStable, Registered, Lifetimes
  <1> QED BY <1>5, <1>6, <1>7, <1>8, ThreadsKept DEF TInv, NoDangling

LEMMA RemoveKeepsTInv ==
  ASSUME TInv, NEW p \in Process, RemoveProcess(p)
  PROVE  TInv'
  <1>4. /\ procs' \in [Process -> [slot : ProcessSlots \cup {NoSlot}, stopping : BOOLEAN,
                                   initial : BOOLEAN, removed : BOOLEAN]]
        /\ procs'[p].slot = NoSlot /\ procs'[p].stopping = procs[p].stopping
        /\ \A q \in Process \ {p} : procs'[q] = procs[q]
    BY DEF RemoveProcess, TInv, TypeOK
  <1>5. UNCHANGED <<thread, nextJoin, active>> /\ Owned(p) = {}
    BY DEF RemoveProcess
  <1>6. TypeOK'
    BY <1>4, <1>5 DEF TInv, TypeOK
  <1>7. StopIsFinal'
    BY <1>4, <1>5, SMTT(20) DEF TInv, NoDangling, StopIsFinal, Owned
  <1>8. SlotsStable'
    <2>1. \A s \in Slots : thread[s].state # "Vacant" => thread[s].process # p
      BY <1>5 DEF Owned
    <2> QED BY <1>4, <1>5, <2>1, SMTT(20) DEF TInv, NoDangling, SlotsStable, Registered, Lifetimes
  <1> QED BY <1>5, <1>6, <1>7, <1>8, ThreadsKept DEF TInv, NoDangling

-----------------------------------------------------------------------------
LEMMA InitTInv == Init => TInv
  <1> SUFFICES ASSUME Init PROVE TInv
    OBVIOUS
  <1>1. 0 \in 0 .. MaxGeneration /\ 1 \in 1 .. MaxJoin + 1
    BY CapacityAssumption, SMTT(20)
  <1>2. /\ Empty(0) \in Record /\ Empty(0).state = "Vacant"
        /\ Empty(0).incoming = NoClaim /\ Empty(0).outgoing = NoClaim
    BY <1>1, EmptyIs
  <1>3. thread \in [Slots -> Record] /\ \A s \in Slots : thread[s] = Empty(0)
    BY <1>2 DEF Init
  <1>4. \A p \in Process : procs[p].slot = NoSlot /\ procs[p].stopping = FALSE
    BY DEF Init
  <1>5. procs \in [Process -> [slot : ProcessSlots \cup {NoSlot}, stopping : BOOLEAN,
                               initial : BOOLEAN, removed : BOOLEAN]]
    BY DEF Init
  <1>6. TypeOK
    BY <1>1, <1>3, <1>5 DEF TypeOK, Init
  <1>7. JoinPaired /\ NoOrphans /\ Lifetimes
    BY <1>2, <1>3 DEF JoinPaired, NoOrphans, Lifetimes
  <1>8. StopIsFinal /\ SlotsStable
    BY <1>2, <1>3, <1>4 DEF StopIsFinal, SlotsStable, Registered
  <1> QED BY <1>6, <1>7, <1>8 DEF TInv, NoDangling

\* A claim named by a slot is a claim.
LEMMA OutgoingIsClaim ==
  ASSUME TInv, NEW s \in Slots
  PROVE  thread[s].outgoing \in Claims(ThreadId)
  BY Fields DEF TInv

\* Every step of the table keeps its relations.
LEMMA StepTInv == TInv /\ [Next]_tableVars => TInv'
  <1> SUFFICES ASSUME TInv, [Next]_tableVars PROVE TInv'
    OBVIOUS
  <1>1. CASE \E p \in Process : RegisterProcess(p) \/ StopProcess(p) \/ RemoveProcess(p)
    BY <1>1, RegisterKeepsTInv, StopProcessKeepsTInv, RemoveKeepsTInv
  <1>2. CASE \E p \in Process : \E pages \in Charges : PrepareInitial(p, pages)
    BY <1>2, PrepareInitialKeepsTInv
  <1>3. CASE \E id \in Ids : \E pages \in Charges : PrepareWorker(id, pages)
    BY <1>3, PrepareWorkerKeepsTInv
  <1>4. CASE \E id \in Ids : Start(id) \/ AbortPrepared(id)
    BY <1>4, StartKeepsTInv, AbortPreparedKeepsTInv
  <1>5. CASE \E id \in Ids : Dispatch(id) \/ YieldRunning(id) \/ Block(id)
    BY <1>5, DispatchKeepsTInv, YieldKeepsTInv, BlockKeepsTInv
  <1>6. CASE \E id \in Ids : \E seq \in 1 .. MaxSequence : Wake(id, seq)
    BY <1>6, WakeKeepsTInv
  <1>7. CASE \E id \in Ids : BeginExit(id) \/ Reap(id)
    BY <1>7, BeginExitKeepsTInv, ReapKeepsTInv
  <1>8. CASE \E id \in Ids : \E result \in Results : Complete(id, result)
    BY <1>8, CompleteKeepsTInv
  <1>9. CASE \E id \in Ids : Detach(id) \/ ReleaseResources(id)
    BY <1>9, MarkKeepsTInv
  <1>10. CASE \E caller, target \in Ids : StartWorker(caller, target) \/ AbortWorker(caller, target)
    BY <1>10, StartKeepsTInv, AbortPreparedKeepsTInv DEF StartWorker, AbortWorker
  <1>11. CASE \E caller, target \in Ids : ClaimJoin(caller, target)
    BY <1>11, ClaimJoinKeepsTInv
  <1>12. CASE \E s \in Slots : JoinResult(thread[s].outgoing) \/ CancelJoin(thread[s].outgoing)
    <2>1. PICK s \in Slots : JoinResult(thread[s].outgoing) \/ CancelJoin(thread[s].outgoing)
      BY <1>12
    <2>2. thread[s].outgoing \in Claims(ThreadId)
      BY OutgoingIsClaim
    <2> QED BY <2>1, <2>2, JoinResultKeepsTInv, CancelJoinKeepsTInv DEF JoinResult
  <1>13. CASE UNCHANGED tableVars
    <2>1. TypeOK' /\ StopIsFinal' /\ SlotsStable'
      BY <1>13 DEF tableVars, TInv, NoDangling, TypeOK, StopIsFinal, SlotsStable, Owned, Registered
    <2> QED BY <1>13, <2>1, ThreadsKept DEF tableVars, TInv, NoDangling
  <1> QED BY <1>1, <1>2, <1>3, <1>4, <1>5, <1>6, <1>7, <1>8, <1>9, <1>10, <1>11, <1>12, <1>13 DEF Next

(***************************************************************************)
(* Through every sequence of table operations, whatever the identities     *)
(* they are called with: claims are held on both sides, an unstarted       *)
(* worker has a creator that can start or abort it, a stopped process      *)
(* keeps nothing that can run or be joined, and records keep the slot of   *)
(* their process.                                                          *)
(***************************************************************************)
THEOREM RelationsHonoured == Spec => []NoDangling
  <1>1. TInv => NoDangling
    BY DEF TInv
  <1> QED BY <1>1, InitTInv, StepTInv, PTL DEF Spec

-----------------------------------------------------------------------------
(***************************************************************************)
(* Process-first dispatch holds its turn and rotates fairly, for every     *)
(* number of processes, threads and turns.  A count of selections that     *)
(* preferred somebody else is bounded because it and the distance the      *)
(* cursor still has to go never add up to more than the slots there are.   *)
(***************************************************************************)
Turn == [process : Process, seq : Nat, left : 0 .. Milliseconds, steps : 0 .. Steps, failed : BOOLEAN]

ScheduleType ==
    /\ processCursor \in ProcessSlots
    /\ threadCursor \in [Process -> Slots]
    /\ turnSeq \in Nat
    /\ turns \subseteq Turn
    /\ skipped \in [Process -> Nat]
    /\ passed \in [Slots -> Nat]

\* The Dispatch value t is the turn the table waits for.
Current(t) == active = [process |-> t.process, seq |-> t.seq]

TurnInv ==
    /\ active # NoTurn => \E t \in turns : Current(t)
    /\ \A t \in turns : t.seq <= turnSeq
    /\ \A t, u \in turns : t.seq = u.seq => t = u
    /\ \A t \in turns : Current(t) \/ procs[t.process].stopping
    /\ \A s \in Slots : thread[s].state = "Running" =>
          active # NoTurn /\ active.process = thread[s].process

\* How far the cursor has to go to p's slot, or to thread slot s.
ProcessAway(p) == Distance(procs[p].slot, processCursor, ProcessCapacity)
ThreadAway(s) == Distance(s, threadCursor[thread[s].process], ThreadCapacity)

ProcessInv ==
    \A p \in Process :
        IF Registered(p) THEN skipped[p] + ProcessAway(p) <= ProcessCapacity - 1 ELSE skipped[p] = 0

ThreadInv ==
    \A s \in Slots :
        IF thread[s].state = "Ready" THEN passed[s] + ThreadAway(s) <= ThreadCapacity - 1
        ELSE passed[s] = 0

SInv == TInv /\ ScheduleType /\ TurnInv /\ ProcessInv /\ ThreadInv

-----------------------------------------------------------------------------
(***************************************************************************)
(* The ring of slots.                                                      *)
(***************************************************************************)
LEMMA DistanceIs ==
  ASSUME NEW n \in Nat \ {0}, NEW i \in 0 .. n - 1, NEW c \in 0 .. n - 1
  PROVE  /\ Distance(i, c, n) = IF i >= c THEN i - c ELSE i + n - c
         /\ Distance(i, c, n) \in 0 .. n - 1
  BY SMTT(20) DEF Distance

LEMMA NextSlot ==
  ASSUME NEW n \in Nat \ {0}, NEW i \in 0 .. n - 1
  PROVE  (i + 1) % n = (IF i + 1 = n THEN 0 ELSE i + 1) /\ (i + 1) % n \in 0 .. n - 1
  BY SMTT(20)

\* Whoever is not the nearest comes closer by what the cursor passes.
LEMMA Approaches ==
  ASSUME NEW n \in Nat \ {0}, NEW i \in 0 .. n - 1, NEW j \in 0 .. n - 1, i # j, NEW c \in 0 .. n - 1,
         Distance(i, c, n) <= Distance(j, c, n)
  PROVE  Distance(j, (i + 1) % n, n) + 1 <= Distance(j, c, n)
  <1> DEFINE d == (i + 1) % n
  <1>1. d = (IF i + 1 = n THEN 0 ELSE i + 1) /\ d \in 0 .. n - 1
    BY NextSlot
  <1> HIDE DEF d
  <1>2. Distance(j, d, n) = IF j >= d THEN j - d ELSE j + n - d
    BY <1>1, DistanceIs
  <1>3. /\ Distance(i, c, n) = IF i >= c THEN i - c ELSE i + n - c
        /\ Distance(j, c, n) = IF j >= c THEN j - c ELSE j + n - c
    BY DistanceIs, SMTT(20)
  <1>4. Distance(j, d, n) + 1 <= Distance(j, c, n)
    BY <1>1, <1>2, <1>3, SMTT(20)
  <1> QED BY <1>4 DEF d

-----------------------------------------------------------------------------
(***************************************************************************)
(* What the table does between selections.                                 *)
(***************************************************************************)
\* Nothing starts to run, and a thread in the rotation keeps its process.
Rests(s) ==
    /\ thread'[s].state \in {"Ready", "Running"} => thread'[s].process = thread[s].process
    /\ thread'[s].state = "Running" => thread[s].state = "Running"

\* Processes keep their slots, and a stop is not taken back.
ProcessesRest ==
    \A p \in Process : /\ procs'[p].slot = procs[p].slot
                       /\ procs[p].stopping => procs'[p].stopping

\* The turn goes on, or its process was stopped and runs nothing.
TurnRests ==
    \/ UNCHANGED active
    \/ /\ active # NoTurn /\ active' = NoTurn /\ procs'[active.process].stopping
       /\ \A s \in Slots : thread'[s].state = "Running" => thread'[s].process # active.process

LEMMA OnlyRests ==
  ASSUME NEW k \in Slots, Only(k), Rests(k)
  PROVE  \A s \in Slots : Rests(s)
  BY DEF Only, Rests

LEMMA TransitionRests ==
  ASSUME TInv, NEW id, id.slot \in Slots, NEW from, NEW to \in States, Transition(id, from, to),
         to # "Running"
  PROVE  \A s \in Slots : Rests(s)
  <1>1. Only(id.slot) /\ thread'[id.slot].state = to /\ SameButState(thread'[id.slot], thread[id.slot])
    BY TransitionIs
  <1>2. Rests(id.slot)
    BY <1>1 DEF Rests, SameButState
  <1> QED BY <1>1, <1>2, OnlyRests

LEMMA PrepareRests ==
  ASSUME TInv, NEW p \in Process, NEW creator \in ThreadId \cup {NoThread}, NEW pages \in Charges,
         Prepare(p, creator, pages)
  PROVE  \A s \in Slots : Rests(s)
  <1>1. PICK s \in FreeSlots : thread' = [thread EXCEPT ![s] = Prepared(thread[s].gen + 1, p, creator, pages)]
    BY DEF Prepare, Prepared
  <1>2. s \in Slots /\ thread[s].gen < MaxGeneration
    BY DEF FreeSlots
  <1> DEFINE g == thread[s].gen + 1
             r == Prepared(g, p, creator, pages)
  <1>3. thread' = [thread EXCEPT ![s] = r] /\ g \in 1 .. MaxGeneration
    BY <1>1, <1>2, Fields, CapacityAssumption, SMTT(20) DEF TInv
  <1> HIDE DEF g
  <1>4. g \in 1 .. MaxGeneration
    BY <1>3
  <1>5. IsPrepared(r, g, p, creator)
    BY <1>4, PreparedIs
  <1> HIDE DEF r
  <1>6. thread'[s] = r /\ Only(s) /\ r.state = "Prepared"
    BY <1>2, <1>3, <1>5 DEF TInv, TypeOK, Only, IsPrepared
  <1>7. Rests(s)
    BY <1>6 DEF Rests
  <1> QED BY <1>2, <1>6, <1>7, OnlyRests

LEMMA BlockRests ==
  ASSUME TInv, NEW id \in Ids, Block(id)
  PROVE  \A s \in Slots : Rests(s)
  <1> DEFINE k == id.slot
             q == thread[k]
             new == [q EXCEPT !.seq = @ + 1, !.state = "Blocked"]
  <1>1. q \in Record /\ k \in Slots
    BY IdsAreThreads
  <1>2. thread' = [thread EXCEPT ![k] = new]
    BY DEF Block, Blocked
  <1>3. new.state = "Blocked"
    BY <1>1 DEF Record
  <1> HIDE DEF new
  <1>4. thread'[k] = new /\ Only(k)
    BY <1>1, <1>2 DEF TInv, TypeOK, Only
  <1>5. Rests(k)
    BY <1>3, <1>4 DEF Rests
  <1> QED BY <1>1, <1>4, <1>5, OnlyRests

LEMMA BeginExitRests ==
  ASSUME TInv, NEW id \in Ids, BeginExit(id)
  PROVE  \A s \in Slots : Rests(s)
  <1> DEFINE k == id.slot
             mid == Freed(k)
  <1>1. k \in Slots /\ thread[k].state = "Running"
    BY IdsAreThreads DEF BeginExit, RunningFree, Rec
  <1>2. thread' = Exited(thread, id)
    BY DEF BeginExit
  <1>3. /\ thread'[k].state = "Exiting"
        /\ \A s \in Slots \ {k} : thread'[s].state = IF ChildOf(id, s) THEN "Revoked" ELSE thread[s].state
        /\ \A s \in Slots : SameButState(thread'[s], mid[s])
    BY <1>1, <1>2, ExitedIs
  <1>4. \A s \in Slots : SameButClaims(mid[s], thread[s])
    BY <1>1, FreedIs
  <1>5. \A s \in Slots : thread'[s].process = thread[s].process
    BY <1>3, <1>4 DEF SameButState, SameButClaims
  <1> HIDE DEF k, mid
  <1> QED BY <1>3, <1>5 DEF Rests

LEMMA StopRests ==
  ASSUME TInv, NEW p \in Process, StopProcess(p)
  PROVE  ProcessesRest /\ TurnRests /\ \A s \in Slots : Rests(s)
  <1>1. thread' = Stopped(thread, p)
    BY DEF StopProcess
  <1>2. \A s \in Slots : thread'[s] = IF s \in Owned(p) THEN Halted(thread[s]) ELSE thread[s]
    BY <1>1, StoppedIs
  <1>3. ASSUME NEW s \in Slots
        PROVE  Rests(s) /\ (thread'[s].state = "Running" => thread'[s].process # p)
    <2>1. CASE s \in Owned(p)
      <3>1. thread'[s] = Halted(thread[s]) /\ thread[s] \in Record
        BY <1>2, <2>1, Fields DEF TInv
      <3>2. Halted(thread[s]).state = "Revoked"
        BY <3>1, HaltedIs
      <3> QED BY <3>1, <3>2 DEF Rests
    <2>2. CASE s \notin Owned(p)
      BY <1>2, <2>2 DEF Rests, Owned
    <2> QED BY <2>1, <2>2
  <1>4. procs'[p].stopping /\ ProcessesRest
    BY DEF StopProcess, TInv, TypeOK, ProcessesRest
  <1>5. TurnRests
    <2>1. CASE active.process = p
      BY <1>3, <1>4, <2>1, ProcessAssumption DEF StopProcess, TurnRests, NoTurn
    <2>2. CASE active.process # p
      BY <2>2 DEF StopProcess, TurnRests
    <2> QED BY <2>1, <2>2
  <1> QED BY <1>3, <1>4, <1>5

LEMMA LifecycleRests ==
  ASSUME TInv, BetweenTurns
  PROVE  TInv' /\ ProcessesRest /\ TurnRests /\ \A s \in Slots : Rests(s)
  <1>0. ASSUME ProcsKept, UNCHANGED active PROVE ProcessesRest /\ TurnRests
    BY <1>0 DEF ProcsKept, ProcessesRest, TurnRests
  <1>1. CASE \E p \in Process : StopProcess(p)
    BY <1>1, StopRests, StopProcessKeepsTInv
  <1>2. CASE \E p \in Process : \E pages \in Charges : PrepareInitial(p, pages)
    <2>1. PICK p \in Process, pages \in Charges : PrepareInitial(p, pages)
      BY <1>2
    <2>2. ProcsKept /\ UNCHANGED active
      BY <2>1 DEF PrepareInitial, TInv, TypeOK, ProcsKept
    <2>3. Prepare(p, NoThread, pages) /\ NoThread \in ThreadId \cup {NoThread}
      BY <2>1 DEF PrepareInitial
    <2> QED BY <1>0, <2>1, <2>2, <2>3, PrepareRests, PrepareInitialKeepsTInv
  <1>3. CASE \E id \in Ids : \E pages \in Charges : PrepareWorker(id, pages)
    <2>1. PICK id \in Ids, pages \in Charges : PrepareWorker(id, pages)
      BY <1>3
    <2>2. ProcsKept /\ UNCHANGED active
      BY <2>1, QuietKeepsTInv DEF PrepareWorker
    <2>3. Prepare(id.process, id, pages) /\ id \in ThreadId \cup {NoThread} /\ id.process \in Process
      BY <2>1, IdsAreThreads DEF PrepareWorker
    <2> QED BY <1>0, <2>1, <2>2, <2>3, PrepareRests, PrepareWorkerKeepsTInv
  <1>4. ASSUME NEW id \in Ids, Start(id) \/ YieldRunning(id) \/ \E seq \in 1 .. MaxSequence : Wake(id, seq)
        PROVE  TInv' /\ ProcessesRest /\ TurnRests /\ \A s \in Slots : Rests(s)
    <2>1. ProcsKept /\ UNCHANGED active /\ id.slot \in Slots
      BY <1>4, QuietKeepsTInv, IdsAreThreads DEF Start, YieldRunning, Wake
    <2>2. \E from \in States : Transition(id, from, "Ready")
      BY <1>4 DEF Start, YieldRunning, Wake, Transition, States, Live
    <2>3. TInv'
      BY <1>4, StartKeepsTInv, YieldKeepsTInv, WakeKeepsTInv
    <2>4. "Ready" \in States
      BY DEF States, Live
    <2> QED BY <1>0, <2>1, <2>2, <2>3, <2>4, TransitionRests
  <1>5. ASSUME NEW id \in Ids, Block(id) \/ BeginExit(id)
        PROVE  TInv' /\ ProcessesRest /\ TurnRests /\ \A s \in Slots : Rests(s)
    <2>1. ProcsKept /\ UNCHANGED active
      BY <1>5, QuietKeepsTInv DEF Block, BeginExit
    <2> QED BY <1>0, <1>5, <2>1, BlockRests, BeginExitRests, BlockKeepsTInv, BeginExitKeepsTInv
  <1> QED BY <1>1, <1>2, <1>3, <1>4, <1>5 DEF BetweenTurns

LEMMA LifecycleKeeps ==
  ASSUME SInv, BetweenTurns
  PROVE  SInv'
  <1>0. TInv /\ ScheduleType /\ TurnInv /\ ProcessInv /\ ThreadInv
    BY DEF SInv
  <1>1. TInv' /\ ProcessesRest /\ TurnRests /\ \A s \in Slots : Rests(s)
    BY <1>0, LifecycleRests
  <1>2. /\ passed' = [s \in Slots |-> IF thread'[s].state = "Ready" THEN passed[s] ELSE 0]
        /\ UNCHANGED <<processCursor, threadCursor, turnSeq, turns, skipped>>
    BY DEF BetweenTurns
  <1>3. ScheduleType'
    BY <1>0, <1>2 DEF ScheduleType
  <1>4. TurnInv'
    <2>1. active' # NoTurn => \E t \in turns' : Current(t)'
      BY <1>0, <1>1, <1>2 DEF TurnInv, TurnRests, Current
    <2>2. /\ \A t \in turns' : t.seq <= turnSeq'
          /\ \A t, u \in turns' : t.seq = u.seq => t = u
      BY <1>0, <1>2 DEF TurnInv
    <2>3. ASSUME NEW t \in turns PROVE Current(t)' \/ procs'[t.process].stopping
      <3>1. t.process \in Process
        BY <1>0 DEF ScheduleType, Turn
      <3>2. CASE procs[t.process].stopping
        BY <1>1, <3>1, <3>2 DEF ProcessesRest
      <3>3. CASE Current(t)
        BY <1>1, <3>1, <3>3 DEF TurnRests, Current
      <3> QED BY <1>0, <3>2, <3>3 DEF TurnInv
    <2>4. ASSUME NEW s \in Slots, thread'[s].state = "Running"
          PROVE  active' # NoTurn /\ active'.process = thread'[s].process
      BY <1>0, <1>1, <2>4 DEF TurnInv, TurnRests, Rests
    <2> QED BY <1>2, <2>1, <2>2, <2>3, <2>4 DEF TurnInv
  <1>5. ProcessInv'
    BY <1>0, <1>1, <1>2 DEF ProcessInv, ProcessesRest, ProcessAway, Registered
  <1>6. ThreadInv'
    <2>1. ASSUME NEW s \in Slots, thread'[s].state = "Ready"
          PROVE  passed'[s] + ThreadAway(s)' <= ThreadCapacity - 1
      <3>1. passed'[s] = passed[s] /\ thread'[s].process = thread[s].process
        BY <1>1, <1>2, <2>1 DEF Rests
      <3>2. thread'[s].process \in Process
        BY <1>1, <2>1 DEF TInv, Lifetimes
      <3>3. ThreadAway(s)' = ThreadAway(s)
        BY <1>2, <3>1 DEF ThreadAway
      <3>4. CASE thread[s].state = "Ready"
        BY <1>0, <3>1, <3>3, <3>4 DEF ThreadInv
      <3>5. CASE thread[s].state # "Ready"
        <4>1. passed'[s] = 0
          BY <1>0, <3>1, <3>5 DEF ThreadInv
        <4>2. Distance(s, threadCursor[thread[s].process], ThreadCapacity) \in 0 .. ThreadCapacity - 1
          BY <1>0, <3>1, <3>2, DistanceIs, CapacityAssumption DEF ScheduleType, Slots
        <4> QED BY <3>3, <4>1, <4>2, CapacityAssumption, SMTT(20) DEF ThreadAway
      <3> QED BY <3>4, <3>5
    <2>2. ASSUME NEW s \in Slots, thread'[s].state # "Ready" PROVE passed'[s] = 0
      BY <1>2, <2>2
    <2> QED BY <2>1, <2>2 DEF ThreadInv
  <1> QED BY <1>1, <1>3, <1>4, <1>5, <1>6 DEF SInv

-----------------------------------------------------------------------------
(***************************************************************************)
(* Turns.                                                                  *)
(***************************************************************************)
\* The choice of whose turn it is: only the turn of the table changes.
LEMMA TurnKeepsTInv ==
  ASSUME TInv, UNCHANGED <<procs, thread, nextJoin>>,
         active' \in [process : Process, seq : Nat] \cup {NoTurn},
         active' = NoTurn \/ ~ procs[active'.process].stopping
  PROVE  TInv'
  <1>1. TypeOK'
    BY DEF TInv, TypeOK
  <1>2. StopIsFinal'
    BY ProcessAssumption, SMTT(20) DEF TInv, NoDangling, StopIsFinal, Owned, NoTurn
  <1>3. SlotsStable'
    BY DEF TInv, NoDangling, SlotsStable, Registered
  <1> QED BY <1>1, <1>2, <1>3, ThreadsKept DEF TInv, NoDangling

\* A turn that was observed, charged or spoilt is still the same turn.
LEMMA ReplaceKeepsTurns ==
  ASSUME ScheduleType, TurnInv, NEW t \in turns, NEW u \in Turn, u.process = t.process, u.seq = t.seq,
         Replace(t, u), UNCHANGED <<procs, active, turnSeq>>,
         \A s \in Slots : thread'[s].state = "Running" =>
             active # NoTurn /\ active.process = thread'[s].process
  PROVE  turns' \subseteq Turn /\ TurnInv'
  <1>1. turns' = (turns \ {t}) \cup {u}
    BY DEF Replace
  <1>2. turns' \subseteq Turn
    BY <1>1 DEF ScheduleType
  <1>3. active' # NoTurn => \E v \in turns' : Current(v)'
    BY <1>1, SMTT(20) DEF TurnInv, Current
  <1>4. \A v \in turns' : v.seq <= turnSeq'
    BY <1>1 DEF TurnInv
  <1>5. \A v, w \in turns' : v.seq = w.seq => v = w
    BY <1>1, SMTT(20) DEF TurnInv
  <1>6. \A v \in turns' : Current(v)' \/ procs'[v.process].stopping
    BY <1>1 DEF TurnInv, Current
  <1> QED BY <1>2, <1>3, <1>4, <1>5, <1>6 DEF TurnInv

\* charge_dispatch_step and an observation of the counter that went back.
LEMMA ReplaceKeeps ==
  ASSUME SInv, NEW t \in turns, NEW u \in Turn, u.process = t.process, u.seq = t.seq, Replace(t, u),
         UNCHANGED <<tableVars, processCursor, threadCursor, turnSeq, skipped, passed>>
  PROVE  SInv'
  <1>0. TInv /\ ScheduleType /\ TurnInv /\ ProcessInv /\ ThreadInv
    BY DEF SInv
  <1>1. UNCHANGED <<procs, thread, nextJoin, active>>
    BY DEF tableVars
  <1>2. TInv'
    BY <1>0, <1>1, TurnKeepsTInv DEF TInv, TypeOK, NoDangling, StopIsFinal
  <1>3. turns' \subseteq Turn /\ TurnInv'
    BY <1>0, <1>1, ReplaceKeepsTurns DEF TurnInv
  <1>4. ScheduleType'
    BY <1>0, <1>3 DEF ScheduleType
  <1>5. ProcessInv'
    BY <1>0, <1>1 DEF ProcessInv, ProcessAway, Registered
  <1>6. ThreadInv'
    BY <1>0, <1>1 DEF ThreadInv, ThreadAway
  <1> QED BY <1>2, <1>3, <1>4, <1>5, <1>6 DEF SInv

LEMMA LaterIs ==
  ASSUME NEW t \in Turn, NEW u \in Later(t)
  PROVE  u \in Turn /\ u.process = t.process /\ u.seq = t.seq
  BY BudgetAssumption, SMTT(20) DEF Later, Turn

LEMMA ChargeKeeps ==
  ASSUME SInv, NEW t \in turns, ChargeDispatchStep(t)
  PROVE  SInv'
  <1>1. t \in Turn
    BY DEF SInv, ScheduleType
  <1>2. PICK u \in Later(t) : Replace(t, IF Remaining(u) = 0 THEN u ELSE [u EXCEPT !.steps = @ - 1])
    BY DEF ChargeDispatchStep
  <1>3. u \in Turn /\ u.process = t.process /\ u.seq = t.seq
    BY <1>1, LaterIs
  <1> DEFINE v == IF Remaining(u) = 0 THEN u ELSE [u EXCEPT !.steps = @ - 1]
  <1>4. v \in Turn /\ v.process = t.process /\ v.seq = t.seq
    BY <1>3, BudgetAssumption, SMTT(20) DEF Remaining, Turn
  <1>5. Replace(t, v)
    BY <1>2
  <1> HIDE DEF v
  <1> QED BY <1>4, <1>5, ReplaceKeeps DEF ChargeDispatchStep

LEMMA RegressKeeps ==
  ASSUME SInv, NEW t \in turns, ClockRegressed(t)
  PROVE  SInv'
  <1> DEFINE v == [t EXCEPT !.failed = TRUE]
  <1>1. v \in Turn /\ v.process = t.process /\ v.seq = t.seq
    BY DEF SInv, ScheduleType, Turn
  <1>2. Replace(t, v)
    BY DEF ClockRegressed
  <1> HIDE DEF v
  <1> QED BY <1>1, <1>2, ReplaceKeeps DEF ClockRegressed

LEMMA FinishKeeps ==
  ASSUME SInv, NEW t \in turns, FinishDispatch(t)
  PROVE  SInv'
  <1>0. TInv /\ ScheduleType /\ TurnInv /\ ProcessInv /\ ThreadInv
    BY DEF SInv
  <1>1. /\ Current(t) /\ ~ AnyRunning /\ active' = NoTurn /\ turns' = turns \ {t}
        /\ UNCHANGED <<procs, thread, nextJoin, processCursor, threadCursor, turnSeq, skipped, passed>>
    BY DEF FinishDispatch, ValidTurn, Current
  <1>2. TInv'
    BY <1>0, <1>1, TurnKeepsTInv
  <1>3. ScheduleType'
    BY <1>0, <1>1 DEF ScheduleType
  <1>4. TurnInv'
    <2>1. ASSUME NEW u \in turns \ {t} PROVE procs[u.process].stopping
      BY <1>0, <1>1, <2>1 DEF TurnInv, Current
    <2> QED BY <1>0, <1>1, <2>1 DEF TurnInv, AnyRunning
  <1>5. ProcessInv'
    BY <1>0, <1>1 DEF ProcessInv, ProcessAway, Registered
  <1>6. ThreadInv'
    BY <1>0, <1>1 DEF ThreadInv, ThreadAway
  <1> QED BY <1>2, <1>3, <1>4, <1>5, <1>6 DEF SInv

-----------------------------------------------------------------------------
(***************************************************************************)
(* Selections.                                                             *)
(***************************************************************************)
LEMMA BeginKeeps ==
  ASSUME SInv, BeginDispatch
  PROVE  SInv'
  <1>0. TInv /\ ScheduleType /\ TurnInv /\ ProcessInv /\ ThreadInv
    BY DEF SInv
  <1>1. PICK p \in Eligible :
          /\ Nearest(p, processCursor)
          /\ active' = [process |-> p, seq |-> turnSeq + 1]
          /\ turns' = turns \cup {[process |-> p, seq |-> turnSeq + 1, left |-> Milliseconds,
                                   steps |-> Steps, failed |-> FALSE]}
          /\ processCursor' = (procs[p].slot + 1) % ProcessCapacity
          /\ skipped' = [q \in Process |-> IF q \in Eligible \ {p} THEN skipped[q] + 1 ELSE 0]
    BY DEF BeginDispatch
  <1>2. /\ active = NoTurn /\ ~ AnyRunning /\ turnSeq' = turnSeq + 1
        /\ UNCHANGED <<procs, thread, nextJoin, threadCursor, passed>>
    BY DEF BeginDispatch
  <1>3. p \in Process /\ Registered(p) /\ ~ procs[p].stopping /\ turnSeq \in Nat
    BY <1>0 DEF Eligible, Accepting, ScheduleType
  <1>4. \A q \in Process : Registered(q) => procs[q].slot \in 0 .. ProcessCapacity - 1
    BY <1>0 DEF TInv, TypeOK, Registered, ProcessSlots
  <1>5. ProcessCapacity \in Nat \ {0} /\ processCursor \in 0 .. ProcessCapacity - 1
    BY <1>0, CapacityAssumption DEF ScheduleType, ProcessSlots
  <1>6. TInv'
    BY <1>0, <1>1, <1>2, <1>3, TurnKeepsTInv, SMTT(20)
  <1>7. PICK new \in Turn : new.process = p /\ new.seq = turnSeq + 1 /\ turns' = turns \cup {new}
    <2> DEFINE n == [process |-> p, seq |-> turnSeq + 1, left |-> Milliseconds,
                     steps |-> Steps, failed |-> FALSE]
    <2>1. n \in Turn /\ n.process = p /\ n.seq = turnSeq + 1 /\ turns' = turns \cup {n}
      BY <1>1, <1>3, BudgetAssumption, SMTT(20) DEF Turn
    <2> HIDE DEF n
    <2> QED BY <2>1
  <1>8. ScheduleType'
    <2>1. processCursor' \in ProcessSlots
      BY <1>1, <1>3, <1>4, <1>5, NextSlot DEF ProcessSlots
    <2>2. skipped' \in [Process -> Nat]
      BY <1>0, <1>1, SMTT(20) DEF ScheduleType
    <2> QED BY <1>0, <1>2, <1>7, <2>1, <2>2, SMTT(20) DEF ScheduleType
  <1>9. TurnInv'
    <2>1. ASSUME NEW t \in turns PROVE procs[t.process].stopping /\ t.seq \in Nat /\ t.seq <= turnSeq
      <3>1. t.process \in Process /\ t.seq \in Nat
        BY <1>0 DEF ScheduleType, Turn
      <3>2. ~ Current(t)
        BY <1>2, <3>1, ProcessAssumption DEF Current, NoTurn
      <3> QED BY <1>0, <3>1, <3>2 DEF TurnInv
    <2>2. Current(new)'
      BY <1>1, <1>7 DEF Current
    <2>3. \A t \in turns' : t.seq <= turnSeq'
      BY <1>2, <1>3, <1>7, <2>1, SMTT(20)
    <2>4. \A t, u \in turns' : t.seq = u.seq => t = u
      BY <1>0, <1>3, <1>7, <2>1, SMTT(20) DEF TurnInv
    <2>5. \A t \in turns' : Current(t)' \/ procs'[t.process].stopping
      BY <1>2, <1>7, <2>1, <2>2
    <2>6. \E t \in turns' : Current(t)'
      BY <1>7, <2>2
    <2>7. \A s \in Slots : thread'[s].state # "Running"
      BY <1>2 DEF AnyRunning
    <2> QED BY <2>3, <2>4, <2>5, <2>6, <2>7 DEF TurnInv
  <1>10. ProcessInv'
    <2>1. ASSUME NEW q \in Process, Registered(q)
          PROVE  skipped'[q] + ProcessAway(q)' <= ProcessCapacity - 1
      <3>1. ProcessAway(q)' = Distance(procs[q].slot, processCursor', ProcessCapacity)
        BY <1>2 DEF ProcessAway
      <3>2. CASE q \in Eligible \ {p}
        <4>1. skipped'[q] = skipped[q] + 1 /\ skipped[q] \in Nat
          BY <1>0, <1>1, <3>2 DEF ScheduleType
        <4>2. skipped[q] + ProcessAway(q) <= ProcessCapacity - 1
          BY <1>0, <2>1 DEF ProcessInv
        <4>3. procs[p].slot # procs[q].slot
          BY <1>0, <1>3, <3>2 DEF TInv, NoDangling, SlotsStable
        <4>4. Distance(procs[p].slot, processCursor, ProcessCapacity)
              <= Distance(procs[q].slot, processCursor, ProcessCapacity)
          BY <1>1, <3>2 DEF Nearest
        <4>5. procs[p].slot \in 0 .. ProcessCapacity - 1 /\ procs[q].slot \in 0 .. ProcessCapacity - 1
          BY <1>3, <1>4, <2>1
        <4>6. Distance(procs[q].slot, processCursor', ProcessCapacity) + 1
              <= Distance(procs[q].slot, processCursor, ProcessCapacity)
          BY <1>1, <1>5, <4>3, <4>4, <4>5, Approaches
        <4>7. /\ Distance(procs[q].slot, processCursor', ProcessCapacity) \in Int
              /\ Distance(procs[q].slot, processCursor, ProcessCapacity) \in Int
          <5>1. processCursor' \in 0 .. ProcessCapacity - 1
            BY <1>8 DEF ScheduleType, ProcessSlots
          <5>2. Distance(procs[q].slot, processCursor', ProcessCapacity) \in 0 .. ProcessCapacity - 1
            BY <1>5, <4>5, <5>1, DistanceIs
          <5>3. Distance(procs[q].slot, processCursor, ProcessCapacity) \in 0 .. ProcessCapacity - 1
            BY <1>5, <4>5, DistanceIs
          <5> QED BY <5>2, <5>3, SMTT(20)
        <4> QED BY <1>5, <3>1, <4>1, <4>2, <4>6, <4>7, SMTT(20) DEF ProcessAway
      <3>3. CASE q \notin Eligible \ {p}
        <4>1. skipped'[q] = 0
          BY <1>1, <3>3
        <4>2. Distance(procs[q].slot, processCursor', ProcessCapacity) \in 0 .. ProcessCapacity - 1
          BY <1>4, <1>5, <1>8, <2>1, DistanceIs DEF ScheduleType, ProcessSlots
        <4> QED BY <1>5, <3>1, <4>1, <4>2, SMTT(20)
      <3> QED BY <3>2, <3>3
    <2>2. ASSUME NEW q \in Process, ~ Registered(q) PROVE skipped'[q] = 0
      BY <1>1, <2>2 DEF Eligible, Accepting
    <2> QED BY <1>2, <2>1, <2>2 DEF ProcessInv, Registered
  <1>11. ThreadInv'
    BY <1>0, <1>2 DEF ThreadInv, ThreadAway
  <1> QED BY <1>6, <1>8, <1>9, <1>10, <1>11 DEF SInv

LEMMA SiblingKeeps ==
  ASSUME SInv, NEW t \in turns, DispatchSibling(t)
  PROVE  SInv'
  <1>0. TInv /\ ScheduleType /\ TurnInv /\ ProcessInv /\ ThreadInv
    BY DEF SInv
  <1> DEFINE p == t.process
  <1>1. PICK s \in Ready(p) :
          /\ \A r \in Ready(p) : Distance(s, threadCursor[p], ThreadCapacity)
                                 <= Distance(r, threadCursor[p], ThreadCapacity)
          /\ Dispatch(Id(s))
          /\ threadCursor' = [threadCursor EXCEPT ![p] = (s + 1) % ThreadCapacity]
          /\ passed' = [r \in Slots |-> IF r = s THEN 0 ELSE
                           IF r \in Ready(p) THEN passed[r] + 1 ELSE passed[r]]
    BY DEF DispatchSibling
  <1>2. Current(t) /\ ~ AnyRunning /\ UNCHANGED <<processCursor, turnSeq, skipped>>
    BY DEF DispatchSibling, ValidTurn, Current
  <1>3. PICK u \in Later(t) : Replace(t, u)
    BY DEF DispatchSibling
  <1>4. t \in Turn /\ p \in Process
    BY <1>0 DEF ScheduleType, Turn
  <1>5. u \in Turn /\ u.process = t.process /\ u.seq = t.seq
    BY <1>4, LaterIs
  <1>6. s \in Slots /\ thread[s].state = "Ready" /\ thread[s].process = p /\ Id(s) \in Ids
    BY DEF Ready, Owned, Ids
  <1>7. UNCHANGED <<procs, nextJoin, active>> /\ Transition(Id(s), "Ready", "Running")
    BY <1>1 DEF Dispatch
  <1>8. TInv'
    BY <1>0, <1>1, <1>6, DispatchKeepsTInv
  <1>9. Only(s) /\ thread'[s].state = "Running" /\ thread'[s].process = p
    <2>1. Id(s).slot = s /\ "Running" \in States
      BY DEF Id, States, Live
    <2>2. /\ Only(s) /\ thread'[s].state = "Running"
          /\ SameButState(thread'[s], thread[s])
      BY <1>0, <1>6, <1>7, <2>1, TransitionIs
    <2> QED BY <1>6, <2>2 DEF SameButState
  <1>10. turns' \subseteq Turn /\ TurnInv'
    <2>1. \A r \in Slots : thread'[r].state = "Running" =>
             active # NoTurn /\ active.process = thread'[r].process
      BY <1>2, <1>4, <1>9, ProcessAssumption DEF Only, AnyRunning, Current, NoTurn
    <2> QED BY <1>0, <1>2, <1>3, <1>5, <1>7, <2>1, ReplaceKeepsTurns
  <1>11. ThreadCapacity \in Nat \ {0} /\ \A q \in Process : threadCursor[q] \in 0 .. ThreadCapacity - 1
    BY <1>0, CapacityAssumption DEF ScheduleType, Slots
  <1>12. (s + 1) % ThreadCapacity \in Slots
    BY <1>6, <1>11, NextSlot DEF Slots
  <1>13. ScheduleType'
    <2>1. threadCursor' \in [Process -> Slots]
      BY <1>0, <1>1, <1>12 DEF ScheduleType
    <2>2. passed' \in [Slots -> Nat]
      BY <1>0, <1>1, SMTT(20) DEF ScheduleType
    <2> QED BY <1>0, <1>2, <1>10, <2>1, <2>2 DEF ScheduleType
  <1>14. ProcessInv'
    BY <1>0, <1>2, <1>7 DEF ProcessInv, ProcessAway, Registered
  <1>15. ThreadInv'
    <2>1. ASSUME NEW r \in Slots, r # s, thread[r].state = "Ready"
          PROVE  passed'[r] + ThreadAway(r)' <= ThreadCapacity - 1
      <3>1. thread'[r] = thread[r] /\ thread[r].process \in Process
        BY <1>0, <1>9, <2>1 DEF Only, TInv, Lifetimes
      <3>2. passed[r] + ThreadAway(r) <= ThreadCapacity - 1 /\ passed[r] \in Nat
        BY <1>0, <2>1 DEF ThreadInv, ScheduleType
      <3>3. CASE thread[r].process = p
        <4>1. r \in Ready(p)
          BY <2>1, <3>3 DEF Ready, Owned
        <4>2. passed'[r] = passed[r] + 1
          BY <1>1, <2>1, <4>1
        <4>3. threadCursor'[p] = (s + 1) % ThreadCapacity
          BY <1>0, <1>1, <1>4 DEF ScheduleType
        <4>4. s \in 0 .. ThreadCapacity - 1 /\ r \in 0 .. ThreadCapacity - 1
              /\ threadCursor[p] \in 0 .. ThreadCapacity - 1
          BY <1>4, <1>6, <1>11, <2>1 DEF Slots
        <4>5. Distance(s, threadCursor[p], ThreadCapacity) <= Distance(r, threadCursor[p], ThreadCapacity)
          BY <1>1, <4>1
        <4>6. Distance(r, (s + 1) % ThreadCapacity, ThreadCapacity) + 1
              <= Distance(r, threadCursor[p], ThreadCapacity)
          BY <1>11, <2>1, <4>4, <4>5, Approaches
        <4>7. /\ Distance(r, (s + 1) % ThreadCapacity, ThreadCapacity) \in Int
              /\ Distance(r, threadCursor[p], ThreadCapacity) \in Int
          <5>1. (s + 1) % ThreadCapacity \in 0 .. ThreadCapacity - 1
            BY <1>12 DEF Slots
          <5>2. Distance(r, (s + 1) % ThreadCapacity, ThreadCapacity) \in 0 .. ThreadCapacity - 1
            BY <1>11, <4>4, <5>1, DistanceIs
          <5>3. Distance(r, threadCursor[p], ThreadCapacity) \in 0 .. ThreadCapacity - 1
            BY <1>11, <4>4, DistanceIs
          <5> QED BY <5>2, <5>3, SMTT(20)
        <4>8. /\ ThreadAway(r)' = Distance(r, (s + 1) % ThreadCapacity, ThreadCapacity)
              /\ ThreadAway(r) = Distance(r, threadCursor[p], ThreadCapacity)
          BY <3>1, <3>3, <4>3 DEF ThreadAway
        <4> QED BY <1>11, <3>2, <4>2, <4>6, <4>7, <4>8, SMTT(20)
      <3>4. CASE thread[r].process # p
        <4>1. passed'[r] = passed[r]
          BY <1>1, <2>1, <3>4 DEF Ready, Owned
        <4>2. threadCursor'[thread[r].process] = threadCursor[thread[r].process]
          BY <1>0, <1>1, <3>1, <3>4 DEF ScheduleType
        <4>3. ThreadAway(r)' = ThreadAway(r)
          BY <3>1, <4>2 DEF ThreadAway
        <4> QED BY <3>2, <4>1, <4>3
      <3> QED BY <3>3, <3>4
    <2>2. ASSUME NEW r \in Slots, r # s, thread[r].state # "Ready" PROVE passed'[r] = 0
      BY <1>0, <1>1, <2>2 DEF ThreadInv, Ready
    <2>3. passed'[s] = 0
      BY <1>1, <1>6
    <2> QED BY <1>9, <2>1, <2>2, <2>3 DEF ThreadInv, Only
  <1> QED BY <1>8, <1>10, <1>13, <1>14, <1>15 DEF SInv

LEMMA RegisterKeeps ==
  ASSUME SInv, NEW p \in Process, Register(p)
  PROVE  SInv'
  <1>0. TInv /\ ScheduleType /\ TurnInv /\ ProcessInv /\ ThreadInv
    BY DEF SInv
  <1>1. /\ RegisterProcess(p) /\ threadCursor' = [threadCursor EXCEPT ![p] = 0]
        /\ UNCHANGED <<processCursor, turnSeq, turns, skipped, passed, thread, active>>
    BY DEF Register, RegisterProcess
  <1>2. TInv'
    BY <1>0, <1>1, RegisterKeepsTInv
  <1>3. PICK i \in ProcessSlots : procs' = [procs EXCEPT ![p].slot = i]
    BY <1>1 DEF RegisterProcess, FreeProcessSlots
  <1>4. ~ Registered(p)
    BY <1>1 DEF RegisterProcess
  <1>5. /\ \A q \in Process : procs'[q].stopping = procs[q].stopping
        /\ \A q \in Process \ {p} : procs'[q].slot = procs[q].slot
        /\ procs'[p].slot = i
    BY <1>0, <1>3 DEF TInv, TypeOK
  <1>6. 0 \in Slots
    BY CapacityAssumption, SMTT(20) DEF Slots
  <1>7. ScheduleType'
    BY <1>0, <1>1, <1>6 DEF ScheduleType
  <1>8. TurnInv'
    <2>1. \A t \in turns : t.process \in Process
      BY <1>0 DEF ScheduleType, Turn
    <2> QED BY <1>0, <1>1, <1>5, <2>1 DEF TurnInv, Current
  <1>9. ProcessInv'
    <2>1. ASSUME NEW q \in Process \ {p}
          PROVE  IF Registered(q)' THEN skipped'[q] + ProcessAway(q)' <= ProcessCapacity - 1
                 ELSE skipped'[q] = 0
      BY <1>0, <1>1, <1>5 DEF ProcessInv, ProcessAway, Registered
    <2>2. skipped'[p] + ProcessAway(p)' <= ProcessCapacity - 1 /\ skipped'[p] = 0
      <3>1. skipped'[p] = 0
        BY <1>0, <1>1, <1>4 DEF ProcessInv
      <3>2. Distance(i, processCursor, ProcessCapacity) \in 0 .. ProcessCapacity - 1
        BY <1>0, DistanceIs, CapacityAssumption DEF ScheduleType, ProcessSlots
      <3>3. ProcessAway(p)' = Distance(i, processCursor, ProcessCapacity)
        BY <1>1, <1>5 DEF ProcessAway
      <3> QED BY <3>1, <3>2, <3>3, CapacityAssumption, SMTT(20)
    <2> QED BY <2>1, <2>2 DEF ProcessInv
  <1>10. ThreadInv'
    <2>1. ASSUME NEW s \in Slots, thread[s].state = "Ready"
          PROVE  ThreadAway(s)' = ThreadAway(s)
      <3>1. thread[s].process \in Process /\ thread[s].process # p
        BY <1>0, <1>4, <2>1 DEF TInv, Lifetimes, NoDangling, SlotsStable
      <3> QED BY <1>0, <1>1, <3>1 DEF ThreadAway, ScheduleType
    <2> QED BY <1>0, <1>1, <2>1 DEF ThreadInv
  <1> QED BY <1>2, <1>7, <1>8, <1>9, <1>10 DEF SInv

-----------------------------------------------------------------------------
(***************************************************************************)
(* The invariant and the theorems.                                         *)
(***************************************************************************)
LEMMA InitSInv ==
  ASSUME ScheduleInit
  PROVE  SInv
  <1>1. TInv
    BY InitTInv DEF ScheduleInit
  <1>2. \A s \in Slots : thread[s].state = "Vacant"
    BY DEF ScheduleInit, Init, Empty
  <1>3. 0 \in Slots /\ 0 \in ProcessSlots
    BY CapacityAssumption, SMTT(20) DEF Slots, ProcessSlots
  <1>4. ScheduleType
    BY <1>3 DEF ScheduleInit, ScheduleType
  <1>5. TurnInv
    BY <1>2 DEF ScheduleInit, Init, TurnInv
  <1>6. ProcessInv
    BY DEF ScheduleInit, Init, ProcessInv, Registered
  <1>7. ThreadInv
    BY <1>2 DEF ScheduleInit, ThreadInv
  <1> QED BY <1>1, <1>4, <1>5, <1>6, <1>7 DEF SInv

LEMMA StepSInv ==
  ASSUME SInv, [ScheduleNext]_turnVars
  PROVE  SInv'
  <1>1. CASE UNCHANGED turnVars
    <2>1. UNCHANGED <<procs, thread, nextJoin, active>> /\ UNCHANGED scheduleVars
      BY <1>1 DEF turnVars, tableVars
    <2>2. TInv'
      BY <2>1, TurnKeepsTInv DEF SInv, TInv, TypeOK, NoDangling, StopIsFinal
    <2>3. ScheduleType' /\ TurnInv'
      BY <2>1 DEF SInv, scheduleVars, ScheduleType, TurnInv, Current
    <2>4. ProcessInv' /\ ThreadInv'
      BY <2>1 DEF SInv, scheduleVars, ProcessInv, ProcessAway, Registered, ThreadInv, ThreadAway
    <2> QED BY <2>2, <2>3, <2>4 DEF SInv
  <1>2. CASE BeginDispatch
    BY <1>2, BeginKeeps
  <1>3. CASE \E t \in turns : \/ DispatchSibling(t) \/ ChargeDispatchStep(t)
                              \/ FinishDispatch(t) \/ ClockRegressed(t)
    BY <1>3, SiblingKeeps, ChargeKeeps, FinishKeeps, RegressKeeps
  <1>4. CASE \E p \in Process : Register(p)
    BY <1>4, RegisterKeeps
  <1>5. CASE BetweenTurns
    BY <1>5, LifecycleKeeps
  <1> QED BY <1>1, <1>2, <1>3, <1>4, <1>5 DEF ScheduleNext

LEMMA AlwaysSInv == ScheduleSpec => []SInv
  <1>1. ScheduleInit => SInv
    BY InitSInv
  <1>2. SInv /\ [ScheduleNext]_turnVars => SInv'
    BY StepSInv
  <1> QED BY <1>1, <1>2, PTL DEF ScheduleSpec

LEMMA SInvHolds ==
  ASSUME SInv
  PROVE  TurnHeld /\ ProcessRotation /\ SiblingRotation
  <1>1. TurnHeld
    BY DEF SInv, TurnInv, TurnHeld, Current
  <1>2. ASSUME NEW p \in Process PROVE skipped[p] < ProcessCapacity
    <2>1. skipped[p] \in Nat /\ ProcessCapacity \in Nat \ {0}
      BY CapacityAssumption DEF SInv, ScheduleType
    <2>2. CASE Registered(p)
      <3>1. procs[p].slot \in 0 .. ProcessCapacity - 1 /\ processCursor \in 0 .. ProcessCapacity - 1
        BY <2>2 DEF SInv, TInv, TypeOK, Registered, ScheduleType, ProcessSlots
      <3>2. ProcessAway(p) \in 0 .. ProcessCapacity - 1
        BY <2>1, <3>1, DistanceIs DEF ProcessAway
      <3>3. skipped[p] + ProcessAway(p) <= ProcessCapacity - 1
        BY <2>2 DEF SInv, ProcessInv
      <3> QED BY <2>1, <3>2, <3>3, SMTT(20)
    <2>3. CASE ~ Registered(p)
      BY <2>1, <2>3, SMTT(20) DEF SInv, ProcessInv
    <2> QED BY <2>2, <2>3
  <1>3. ASSUME NEW s \in Slots PROVE passed[s] < ThreadCapacity
    <2>1. passed[s] \in Nat /\ ThreadCapacity \in Nat \ {0}
      BY CapacityAssumption DEF SInv, ScheduleType
    <2>2. CASE thread[s].state = "Ready"
      <3>1. s \in 0 .. ThreadCapacity - 1 /\ threadCursor[thread[s].process] \in 0 .. ThreadCapacity - 1
        BY <2>2 DEF SInv, TInv, Lifetimes, ScheduleType, Slots
      <3>2. ThreadAway(s) \in 0 .. ThreadCapacity - 1
        BY <2>1, <3>1, DistanceIs DEF ThreadAway
      <3>3. passed[s] + ThreadAway(s) <= ThreadCapacity - 1
        BY <2>2 DEF SInv, ThreadInv
      <3> QED BY <2>1, <3>2, <3>3, SMTT(20)
    <2>3. CASE thread[s].state # "Ready"
      BY <2>1, <2>3, SMTT(20) DEF SInv, ThreadInv
    <2> QED BY <2>2, <2>3
  <1> QED BY <1>1, <1>2, <1>3 DEF ProcessRotation, SiblingRotation

(***************************************************************************)
(* begin_dispatch, finish_dispatch and stop_process never lose a turn or   *)
(* leave two values that close it, and nothing runs outside the turn of    *)
(* its process, whatever the table's size and the order of operations.     *)
(***************************************************************************)
THEOREM TurnAlwaysHeld == ScheduleSpec => []TurnHeld
  <1>1. SInv => TurnHeld
    BY SInvHolds
  <1> QED BY <1>1, AlwaysSInv, PTL

(***************************************************************************)
(* select_dispatch_process starves no process: one that stays eligible is  *)
(* selected before the others have been preferred once per remaining slot. *)
(***************************************************************************)
THEOREM RotationBounded == ScheduleSpec => []ProcessRotation
  <1>1. SInv => ProcessRotation
    BY SInvHolds
  <1> QED BY <1>1, AlwaysSInv, PTL

(***************************************************************************)
(* dispatch_sibling starves no thread of the process: one that stays ready *)
(* is run before its siblings have been preferred once per remaining slot, *)
(* across turns, blocks and creations.                                     *)
(***************************************************************************)
THEOREM SiblingsRotate == ScheduleSpec => []SiblingRotation
  <1>1. SInv => SiblingRotation
    BY SInvHolds
  <1> QED BY <1>1, AlwaysSInv, PTL

(***************************************************************************)
(* Turns interleaved with the table's lifecycle leave no dangling join,    *)
(* creator or process slot.                                                *)
(***************************************************************************)
THEOREM ScheduleKeepsRelations == ScheduleSpec => []NoDangling
  <1>1. SInv => NoDangling
    BY DEF SInv, TInv
  <1> QED BY <1>1, AlwaysSInv, PTL
=============================================================================
