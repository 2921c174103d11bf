------------------------ MODULE ThreadControlProofs ------------------------
(***************************************************************************)
(* Join and sleep keep their interlock, deliver a result once and end a    *)
(* wait in the documented order, for every table size, clock and option.   *)
(* The interlock is inductive together with the relations of the table     *)
(* (TInv) and with what makes an operation's key unique: no retained wait  *)
(* is of a later operation, or of a later lifetime, than its slot is in.   *)
(***************************************************************************)
EXTENDS ThreadControl, ThreadTableProofs

\* The leaves are first-order; those that need arithmetic or records cite SMT.
USE ZenonT(30)

Outcomes == {"TimedOut", "Stopped", "Joined"}

WaitRecord ==
    [caller : ThreadId, seq : 0 .. MaxSequence, join : Claims(ThreadId), options : Options,
     phase : Outcomes \cup {"Pending"}]

\* Waits are told apart by caller and operation.
KeysUnique == \A w, v \in waits : w.caller = v.caller /\ w.seq = v.seq => w = v

\* No wait is ahead of its slot.
NotAhead ==
    \A w \in waits :
        /\ w.caller.gen <= thread[w.caller.slot].gen
        /\ w.caller = Id(w.caller.slot) => w.seq <= thread[w.caller.slot].seq

Waited(s, w) ==
    /\ w.caller = Id(s) /\ w.seq = thread[s].seq
    /\ thread[s].outgoing = w.join
    /\ IF w.phase = "Pending" THEN thread[s].state = "Blocked"
       ELSE thread[s].state \in {"Ready", "Running"} /\ w.join = NoClaim

\* Only an interlocked thread holds a claim.
Unwaited == \A s \in Slots : ~ thread[s].controlWait => thread[s].outgoing = NoClaim

Interlocked ==
    \A s \in Slots : thread[s].state # "Vacant" /\ thread[s].controlWait =>
        \E w \in waits : Waited(s, w)

Gone(s) == thread[s].state # "Vacant" /\ thread[s].joined
Counted ==
    /\ deliveries \in [Slots -> Nat]
    /\ \A s \in Slots : deliveries[s] = IF Gone(s) THEN 1 ELSE 0

WInv == waits \subseteq WaitRecord /\ KeysUnique /\ NotAhead /\ Interlocked /\ Unwaited
CInv == TInv /\ WInv /\ Counted

-----------------------------------------------------------------------------
(***************************************************************************)
(* Steps that leave the waits alone: what they may do to a record.         *)
(***************************************************************************)
\* The same lifetime and operation; an interlocked thread stays waited for.
Continues(s) ==
    /\ SameLife(s) /\ thread'[s].seq = thread[s].seq
    /\ thread'[s].state # "Vacant" => thread[s].state # "Vacant"
    /\ thread'[s].controlWait =>
         /\ thread[s].controlWait /\ thread'[s].outgoing = thread[s].outgoing
         /\ \/ thread'[s].state = thread[s].state
            \/ thread[s].state \in {"Ready", "Running"} /\ thread'[s].state \in {"Ready", "Running"}
    /\ ~ thread'[s].controlWait =>
         \/ thread'[s].outgoing = NoClaim
         \/ ~ thread[s].controlWait /\ thread'[s].outgoing = thread[s].outgoing

Vacates(s) ==
    /\ thread'[s].gen = thread[s].gen /\ thread'[s].state = "Vacant" /\ thread'[s].process = "none"
    /\ thread'[s].outgoing = NoClaim
Renews(s) ==
    /\ thread'[s].gen = thread[s].gen + 1 /\ ~ thread'[s].controlWait
    /\ thread'[s].outgoing = NoClaim

LEMMA FramedWaits ==
  ASSUME TInv, WInv, UNCHANGED waits, TypeOK',
         \A s \in Slots : Continues(s) \/ Vacates(s) \/ Renews(s)
  PROVE  WInv'
  <1> USE DEF WInv
  <1>1. \A s \in Slots : thread[s].gen \in Nat /\ thread'[s].gen \in Nat
    BY CapacityAssumption, SMTT(20) DEF TInv, TypeOK, Record
  <1>2. \A w \in waits : w.caller \in ThreadId /\ w.caller.slot \in Slots /\ w.caller.process \in Process
                         /\ w.caller.gen \in Nat
    BY CapacityAssumption, SMTT(20) DEF WaitRecord, ThreadId
  <1>3. (waits \subseteq WaitRecord)' /\ KeysUnique'
    BY DEF KeysUnique
  <1>4. NotAhead'
    <2> SUFFICES ASSUME NEW w \in waits, NEW k \in Slots, k = w.caller.slot
                 PROVE  /\ w.caller.gen <= thread'[k].gen
                        /\ w.caller = Id(k)' => w.seq <= thread'[k].seq
      BY <1>2 DEF NotAhead, Id
    <2>1. w.caller.gen <= thread[k].gen /\ (w.caller = Id(k) => w.seq <= thread[k].seq)
      BY DEF NotAhead
    <2>2. CASE Continues(k)
      BY <2>1, <2>2 DEF Continues, SameLife, Id
    <2>3. CASE Vacates(k)
      BY <1>2, <2>1, <2>3, ProcessAssumption, SMTT(20) DEF Vacates, Id
    <2>4. CASE Renews(k)
      <3>1. w.caller.gen < thread'[k].gen
        BY <1>1, <1>2, <2>1, <2>4, SMTT(20) DEF Renews
      <3>2. w.caller # Id(k)'
        BY <1>1, <1>2, <3>1, SMTT(20) DEF Id
      <3> QED BY <1>1, <1>2, <3>1, <3>2, SMTT(20)
    <2> QED BY <2>2, <2>3, <2>4
  <1>5. Interlocked'
    <2> SUFFICES ASSUME NEW s \in Slots, thread'[s].state # "Vacant", thread'[s].controlWait
                 PROVE  \E w \in waits : Waited(s, w)'
      BY DEF Interlocked, Waited, Id
    <2>1. Continues(s)
      BY DEF Vacates, Renews
    <2>2. PICK w \in waits : Waited(s, w)
      BY <2>1 DEF Continues, Interlocked
    <2>3. Waited(s, w)'
      BY <2>1, <2>2 DEF Continues, SameLife, Waited, Id
    <2> QED BY <2>3
  <1>6. Unwaited'
    <2> SUFFICES ASSUME NEW s \in Slots, ~ thread'[s].controlWait PROVE thread'[s].outgoing = NoClaim
      BY DEF Unwaited
    <2>1. ~ thread[s].controlWait => thread[s].outgoing = NoClaim
      BY DEF Unwaited
    <2> QED BY <2>1 DEF Continues, Vacates, Renews
  <1> QED BY <1>3, <1>4, <1>5, <1>6

LEMMA FramedCounts ==
  ASSUME Counted, UNCHANGED deliveries, \A s \in Slots : Gone(s)' <=> Gone(s)
  PROVE  Counted'
  BY DEF Counted

\* An interlocked thread is waiting, or has its outcome still to take.
LEMMA InterlockedState ==
  ASSUME WInv, NEW s \in Slots, thread[s].state # "Vacant", thread[s].controlWait
  PROVE  thread[s].state \in Executable
  BY DEF WInv, Interlocked, Waited, Executable

LEMMA KeptContinues ==
  ASSUME NEW s \in Slots, thread'[s] = thread[s]
  PROVE  Continues(s) /\ (Gone(s)' <=> Gone(s))
  BY SMTT(20) DEF Continues, SameLife, Gone

LEMMA OneChanged ==
  ASSUME TInv, WInv, Counted, TypeOK', NEW k \in Slots, Only(k),
         Continues(k) \/ Vacates(k) \/ Renews(k), Gone(k)' <=> Gone(k), UNCHANGED <<waits, deliveries>>
  PROVE  WInv' /\ Counted'
  <1>1. \A s \in Slots : Continues(s) \/ Vacates(s) \/ Renews(s)
    BY KeptContinues DEF Only
  <1>2. \A s \in Slots : Gone(s)' <=> Gone(s)
    BY KeptContinues DEF Only
  <1> QED BY <1>1, <1>2, FramedWaits, FramedCounts

\* Start, abort, dispatch and yield.
LEMMA TransitionKeepsWaits ==
  ASSUME TInv, WInv, Counted, TypeOK', NEW id, id.slot \in Slots, NEW from \in States, NEW to \in States,
         Transition(id, from, to), from # "Vacant", to # "Vacant",
         from \notin Executable \/ {from, to} \subseteq {"Ready", "Running"},
         UNCHANGED <<waits, deliveries>>
  PROVE  WInv' /\ Counted'
  <1> DEFINE k == id.slot
  <1>1. /\ Only(k) /\ thread[k].state = from /\ thread'[k].state = to
        /\ SameButState(thread'[k], thread[k])
    BY TransitionIs
  <1>2. Continues(k)
    <2>1. thread[k].controlWait => from \in Executable
      BY <1>1, InterlockedState
    <2>2. {from, to} \subseteq {"Ready", "Running"} => from \in {"Ready", "Running"} /\ to \in {"Ready", "Running"}
      OBVIOUS
    <2> QED BY <1>1, <2>1, <2>2 DEF Continues, SameLife, SameButState
  <1>3. Gone(k)' <=> Gone(k)
    BY <1>1 DEF Gone, SameButState
  <1> QED BY <1>1, <1>2, <1>3, OneChanged

\* What a mark on a record, or its completion, leaves alone.
Mild(r, q) ==
    /\ r.gen = q.gen /\ r.process = q.process /\ r.creator = q.creator /\ r.seq = q.seq
    /\ r.controlWait = q.controlWait /\ r.outgoing = q.outgoing /\ r.joined = q.joined

LEMMA MildKeepsWaits ==
  ASSUME TInv, WInv, Counted, TypeOK', NEW k \in Slots, NEW r, thread' = [thread EXCEPT ![k] = r],
         Mild(r, thread[k]), thread[k].state # "Vacant",
         r.state = thread[k].state \/ (r.state # "Vacant" /\ thread[k].state \notin Executable),
         UNCHANGED <<waits, deliveries>>
  PROVE  WInv' /\ Counted'
  <1>1. thread'[k] = r /\ Only(k)
    BY DEF TInv, TypeOK, Only
  <1>2. Continues(k)
    <2>1. thread[k].controlWait => thread[k].state \in Executable
      BY InterlockedState
    <2> QED BY <1>1, <2>1 DEF Continues, SameLife, Mild
  <1>3. Gone(k)' <=> Gone(k)
    BY <1>1 DEF Gone, Mild
  <1> QED BY <1>1, <1>2, <1>3, OneChanged

LEMMA MarkKeepsWaits ==
  ASSUME TInv, WInv, Counted, TypeOK', NEW id \in Ids,
         \/ RequestStop(id) \/ Detach(id) \/ ReleaseResources(id)
         \/ \E result \in Results : Complete(id, result),
         UNCHANGED <<waits, deliveries>>
  PROVE  WInv' /\ Counted'
  <1> DEFINE k == id.slot
             q == thread[k]
  <1>1. q \in Record /\ k \in Slots /\ q.state # "Vacant"
    BY IdsAreThreads DEF Retained
  <1>2. CASE RequestStop(id)
    <2> DEFINE new == [q EXCEPT !.stop = TRUE]
    <2>1. Mild(new, q) /\ new.state = q.state
      BY <1>1 DEF Record, Mild
    <2>2. thread' = [thread EXCEPT ![k] = new]
      BY <1>2 DEF RequestStop
    <2> HIDE DEF new
    <2> QED BY <1>1, <2>1, <2>2, MildKeepsWaits
  <1>3. CASE Detach(id)
    <2> DEFINE new == [q EXCEPT !.detached = TRUE]
    <2>1. Mild(new, q) /\ new.state = q.state
      BY <1>1 DEF Record, Mild
    <2>2. thread' = [thread EXCEPT ![k] = new]
      BY <1>3 DEF Detach
    <2> HIDE DEF new
    <2> QED BY <1>1, <2>1, <2>2, MildKeepsWaits
  <1>4. CASE ReleaseResources(id)
    <2> DEFINE new == [q EXCEPT !.released = TRUE]
    <2>1. Mild(new, q) /\ new.state = q.state
      BY <1>1 DEF Record, Mild
    <2>2. thread' = [thread EXCEPT ![k] = new]
      BY <1>4 DEF ReleaseResources
    <2> HIDE DEF new
    <2> QED BY <1>1, <2>1, <2>2, MildKeepsWaits
  <1>5. CASE \E result \in Results : Complete(id, result)
    <2>1. PICK result \in Results : Complete(id, result)
      BY <1>5
    <2> DEFINE new == [q EXCEPT !.state = "Completed", !.result = result]
    <2>2. Mild(new, q) /\ new.state = "Completed"
      BY <1>1 DEF Record, Mild
    <2>3. thread' = [thread EXCEPT ![k] = new] /\ q.state = "Exiting"
      BY <2>1 DEF Complete, Rec
    <2> HIDE DEF new
    <2>4. q.state \notin Executable
      BY <2>3 DEF Executable
    <2> QED BY <1>1, <2>2, <2>3, <2>4, MildKeepsWaits
  <1> QED BY <1>2, <1>3, <1>4, <1>5

LEMMA BeginExitKeepsWaits ==
  ASSUME TInv, WInv, Counted, TypeOK', NEW id \in Ids, BeginExit(id), UNCHANGED <<waits, deliveries>>
  PROVE  WInv' /\ Counted'
  <1> DEFINE k == id.slot
             mid == Freed(k)
  <1>1. k \in Slots /\ thread[k].state = "Running" /\ ~ thread[k].controlWait
    BY IdsAreThreads DEF BeginExit, RunningFree, Rec
  <1>2. thread' = Exited(thread, id)
    BY DEF BeginExit
  <1>3. /\ thread'[k].state = "Exiting"
        /\ \A s \in Slots \ {k} : thread'[s].state = IF ChildOf(id, s) THEN "Revoked" ELSE thread[s].state
        /\ \A s \in Slots : SameButState(thread'[s], mid[s])
    BY <1>1, <1>2, ExitedIs
  <1>4. /\ \A s \in Slots : SameButClaims(mid[s], thread[s])
        /\ mid[k].outgoing = NoClaim
        /\ \A s \in Slots \ {k} : mid[s].outgoing = thread[s].outgoing
    BY <1>1, FreedIs
  <1> HIDE DEF mid, k
  <1>5. ASSUME NEW s \in Slots PROVE Continues(s) /\ (Gone(s)' <=> Gone(s))
    <2>1. /\ SameLife(s) /\ thread'[s].seq = thread[s].seq
          /\ thread'[s].controlWait = thread[s].controlWait /\ thread'[s].joined = thread[s].joined
          /\ thread'[s].outgoing = IF s = k THEN NoClaim ELSE thread[s].outgoing
      BY <1>3, <1>4, SMTT(20) DEF SameLife, SameButState, SameButClaims
    <2>2. CASE s = k
      BY <1>1, <1>3, <2>1, <2>2 DEF Continues, Gone
    <2>3. CASE s # k /\ ChildOf(id, s)
      <3>1. thread[s].state = "Prepared" /\ thread'[s].state = "Revoked"
        BY <1>3, <2>3 DEF ChildOf
      <3>2. ~ thread[s].controlWait
        BY <3>1, InterlockedState DEF Executable
      <3> QED BY <2>1, <3>1, <3>2 DEF Continues, Gone
    <2>4. CASE s # k /\ ~ ChildOf(id, s)
      BY <1>3, <2>1, <2>4 DEF Continues, Gone
    <2> QED BY <2>2, <2>3, <2>4
  <1> QED BY <1>5, FramedWaits, FramedCounts

LEMMA StopKeepsWaits ==
  ASSUME TInv, WInv, Counted, TypeOK', NEW p \in Process, StopProcess(p), UNCHANGED <<waits, deliveries>>
  PROVE  WInv' /\ Counted'
  <1>1. thread' = Stopped(thread, p)
    BY DEF StopProcess
  <1>2. \A s \in Slots : thread'[s] = IF s \in Owned(p) THEN Halted(thread[s]) ELSE thread[s]
    BY <1>1, StoppedIs
  <1>3. ASSUME NEW s \in Slots PROVE Continues(s) /\ (Gone(s)' <=> Gone(s))
    <2>1. CASE s \notin Owned(p)
      BY <1>2, <2>1, KeptContinues
    <2>2. CASE s \in Owned(p)
      <3>1. thread'[s] = Halted(thread[s]) /\ thread[s] \in Record /\ thread[s].state # "Vacant"
        BY <1>2, <2>2, Fields DEF TInv, Owned
      <3> DEFINE h == Halted(thread[s])
      <3>2. /\ h.state = "Revoked" /\ h.controlWait = FALSE /\ h.seq = thread[s].seq
            /\ h.gen = thread[s].gen /\ h.process = thread[s].process /\ h.creator = thread[s].creator
            /\ h.joined = thread[s].joined /\ h.outgoing = NoClaim
        BY <3>1, HaltedIs
      <3> QED BY <3>1, <3>2 DEF Continues, SameLife, Gone
    <2> QED BY <2>1, <2>2
  <1> QED BY <1>3, FramedWaits, FramedCounts

LEMMA PrepareKeepsWaits ==
  ASSUME TInv, WInv, Counted, TypeOK', NEW p \in Process, NEW creator \in ThreadId \cup {NoThread},
         NEW pages \in Charges, Prepare(p, creator, pages), UNCHANGED <<waits, deliveries>>
  PROVE  WInv' /\ Counted'
  <1>1. PICK s \in FreeSlots : thread' = [thread EXCEPT ![s] = Prepared(thread[s].gen + 1, p, creator, pages)]
    BY DEF Prepare, Prepared
  <1>2. s \in Slots /\ thread[s].state = "Vacant" /\ thread[s].gen < MaxGeneration
    BY DEF FreeSlots
  <1>3. thread[s].gen + 1 \in 1 .. MaxGeneration
    BY <1>2, Fields, CapacityAssumption, SMTT(20) DEF TInv
  <1> DEFINE g == thread[s].gen + 1
             r == Prepared(g, p, creator, pages)
  <1>4. thread' = [thread EXCEPT ![s] = r] /\ g \in 1 .. MaxGeneration
    BY <1>1, <1>3
  <1> HIDE DEF g
  <1>5. g \in 1 .. MaxGeneration
    BY <1>4
  <1>6. IsPrepared(r, g, p, creator)
    BY <1>5, PreparedIs
  <1>7. thread'[s] = r /\ Only(s)
    BY <1>2, <1>4 DEF TInv, TypeOK, Only
  <1> HIDE DEF r
  <1>8. Renews(s)
    BY <1>6, <1>7 DEF g, Renews, IsPrepared
  <1>9. ~ Gone(s) /\ ~ Gone(s)'
    BY <1>2, <1>6, <1>7 DEF Gone, IsPrepared
  <1> QED BY <1>2, <1>7, <1>8, <1>9, OneChanged

LEMMA TableKeptWaits ==
  ASSUME TInv, WInv, Counted, TypeOK', UNCHANGED <<thread, waits, deliveries>>
  PROVE  WInv' /\ Counted'
  <1>1. \A s \in Slots : Continues(s) /\ (Gone(s)' <=> Gone(s))
    BY KeptContinues
  <1> QED BY <1>1, FramedWaits, FramedCounts

LEMMA ReapKeepsWaits ==
  ASSUME TInv, WInv, Counted, TypeOK', NEW id \in Ids, ReapThread(id)
  PROVE  WInv' /\ Counted'
  <1> DEFINE k == id.slot
  <1>1. k \in Slots /\ thread[k].gen \in 0 .. MaxGeneration
    BY IdsAreThreads, Fields DEF TInv
  <1>2. thread' = [thread EXCEPT ![k] = Empty(thread[k].gen)]
    BY DEF ReapThread, Reap, Rec
  <1>3. thread'[k] = Empty(thread[k].gen) /\ Only(k)
    BY <1>1, <1>2 DEF TInv, TypeOK, Only
  <1>4. Vacates(k)
    BY <1>3, SMTT(20) DEF Vacates, Empty
  <1>5. deliveries' = [deliveries EXCEPT ![k] = 0] /\ UNCHANGED waits
    BY DEF ReapThread
  <1>6. WInv'
    <2>1. \A s \in Slots : Continues(s) \/ Vacates(s) \/ Renews(s)
      BY <1>3, <1>4, KeptContinues DEF Only
    <2> QED BY <1>5, <2>1, FramedWaits
  <1>7. Counted'
    BY <1>1, <1>3, <1>4, <1>5 DEF Counted, Gone, Only, Vacates
  <1> QED BY <1>6, <1>7

LEMMA LifecycleKeepsCInv ==
  ASSUME CInv, Lifecycle
  PROVE  CInv'
  <1>0. TInv /\ WInv /\ Counted /\ UNCHANGED <<waits, deliveries>>
    BY DEF CInv, Lifecycle, controlVars
  <1>1. CASE \E p \in Process : RegisterProcess(p) \/ RemoveProcess(p)
    <2>1. TInv' /\ UNCHANGED thread
      BY <1>0, <1>1, RegisterKeepsTInv, RemoveKeepsTInv DEF RegisterProcess, RemoveProcess
    <2> QED BY <1>0, <2>1, TableKeptWaits DEF CInv, TInv
  <1>2. CASE \E p \in Process : StopProcess(p)
    <2>1. TInv'
      BY <1>0, <1>2, StopProcessKeepsTInv
    <2> QED BY <1>0, <1>2, <2>1, StopKeepsWaits DEF CInv, TInv
  <1>3. CASE \E p \in Process : \E pages \in Charges : PrepareInitial(p, pages)
    <2>1. PICK p \in Process, pages \in Charges : PrepareInitial(p, pages)
      BY <1>3
    <2>2. TInv'
      BY <1>0, <2>1, PrepareInitialKeepsTInv
    <2>3. Prepare(p, NoThread, pages) /\ NoThread \in ThreadId \cup {NoThread}
      BY <2>1 DEF PrepareInitial
    <2> QED BY <1>0, <2>2, <2>3, PrepareKeepsWaits DEF CInv, TInv
  <1>4. CASE \E id \in Ids : \E pages \in Charges : PrepareWorker(id, pages)
    <2>1. PICK id \in Ids, pages \in Charges : PrepareWorker(id, pages)
      BY <1>4
    <2>2. TInv'
      BY <1>0, <2>1, PrepareWorkerKeepsTInv
    <2>3. Prepare(id.process, id, pages) /\ id \in ThreadId \cup {NoThread} /\ id.process \in Process
      BY <1>0, <2>1, IdsAreThreads DEF PrepareWorker
    <2> QED BY <1>0, <2>2, <2>3, PrepareKeepsWaits DEF CInv, TInv
  <1>5. ASSUME NEW id \in Ids, Start(id) \/ AbortPrepared(id)
        PROVE  CInv'
    <2>1. TInv' /\ id.slot \in Slots
      BY <1>0, <1>5, StartKeepsTInv, AbortPreparedKeepsTInv, IdsAreThreads
    <2>2. Transition(id, "Prepared", "Ready") \/ Transition(id, "Prepared", "Revoked")
      BY <1>5 DEF Start, AbortPrepared
    <2>3. /\ "Prepared" \in States /\ "Ready" \in States /\ "Revoked" \in States
          /\ "Prepared" \notin Executable
      BY DEF States, Live, Terminal, Executable
    <2> QED BY <1>0, <2>1, <2>2, <2>3, TransitionKeepsWaits DEF CInv, TInv
  <1>6. ASSUME NEW id \in Ids, Dispatch(id) \/ YieldRunning(id)
        PROVE  CInv'
    <2>1. TInv' /\ id.slot \in Slots
      BY <1>0, <1>6, DispatchKeepsTInv, YieldKeepsTInv, IdsAreThreads
    <2>2. Transition(id, "Ready", "Running") \/ Transition(id, "Running", "Ready")
      BY <1>6 DEF Dispatch, YieldRunning
    <2>3. "Running" \in States /\ "Ready" \in States
      BY DEF States, Live
    <2> QED BY <1>0, <2>1, <2>2, <2>3, TransitionKeepsWaits DEF CInv, TInv
  <1>7. CASE \E id \in Ids : RequestStop(id) \/ Detach(id) \/ ReleaseResources(id)
    <2>1. TInv'
      BY <1>0, <1>7, MarkKeepsTInv
    <2> QED BY <1>0, <1>7, <2>1, MarkKeepsWaits DEF CInv, TInv
  <1>8. CASE \E id \in Ids : \E result \in Results : Complete(id, result)
    <2>1. TInv'
      BY <1>0, <1>8, CompleteKeepsTInv
    <2> QED BY <1>0, <1>8, <2>1, MarkKeepsWaits DEF CInv, TInv
  <1>9. CASE \E id \in Ids : BeginExit(id)
    <2>1. TInv'
      BY <1>0, <1>9, BeginExitKeepsTInv
    <2> QED BY <1>0, <1>9, <2>1, BeginExitKeepsWaits DEF CInv, TInv
  <1>10. CASE \E creator, child \in Ids : StartWorker(creator, child) \/ AbortWorker(creator, child)
    BY <1>5, <1>10 DEF StartWorker, AbortWorker
  <1> QED BY <1>1, <1>2, <1>3, <1>4, <1>5, <1>6, <1>7, <1>8, <1>9, <1>10 DEF Lifecycle

-----------------------------------------------------------------------------
(***************************************************************************)
(* Joins and sleeps are admitted.                                          *)
(***************************************************************************)
LEMMA JoinNowKeepsCInv ==
  ASSUME CInv, NEW caller \in Ids, NEW target \in Ids, JoinNow(caller, target)
  PROVE  CInv'
  <1> DEFINE b == target.slot
             q == thread[b]
             new == [q EXCEPT !.joined = TRUE]
  <1>0. TInv /\ WInv /\ Counted
    BY DEF CInv
  <1>1. /\ b \in Slots /\ q \in Record /\ q.state # "Vacant"
    BY <1>0, IdsAreThreads DEF Retained
  <1>2. /\ ~ q.joined /\ q.incoming = NoClaim
        /\ nextJoin < MaxJoin /\ nextJoin' = nextJoin + 1 /\ UNCHANGED <<procs, active, waits>>
        /\ deliveries' = [deliveries EXCEPT ![b] = @ + 1]
        /\ thread' = [thread EXCEPT ![b] = new]
    BY DEF JoinNow, ValidJoin, Rec
  <1>3. /\ new \in Record /\ SameRights(new, q) /\ new.state = q.state /\ new.joined = TRUE
        /\ new.gen = q.gen /\ new.process = q.process /\ new.creator = q.creator /\ new.seq = q.seq
        /\ new.controlWait = q.controlWait /\ new.outgoing = q.outgoing
    BY <1>1, <1>2 DEF Record, SameRights
  <1> HIDE DEF new
  <1>4. nextJoin' \in 1 .. MaxJoin + 1 /\ ProcsKept
    BY <1>0, <1>2, QuietKeepsTInv, CapacityAssumption, SMTT(20) DEF TInv, TypeOK
  <1>5. TInv'
    BY <1>0, <1>1, <1>2, <1>3, <1>4, OneRecordKeepsTInv
  <1>6. thread'[b] = new /\ Only(b)
    BY <1>0, <1>1, <1>2 DEF TInv, TypeOK, Only
  <1>7. \A s \in Slots : Continues(s) \/ Vacates(s) \/ Renews(s)
    <2>1. Continues(b)
      BY <1>3, <1>6 DEF Continues, SameLife
    <2> QED BY <1>6, <2>1, KeptContinues DEF Only
  <1>8. WInv'
    BY <1>0, <1>2, <1>5, <1>7, FramedWaits DEF TInv
  <1>9. Counted'
    <2>1. Gone(b)' /\ ~ Gone(b) /\ \A s \in Slots \ {b} : Gone(s)' <=> Gone(s)
      BY <1>1, <1>2, <1>3, <1>6 DEF Gone, Only
    <2>2. deliveries[b] = 0 /\ deliveries \in [Slots -> Nat]
      BY <1>0, <1>1, <2>1 DEF Counted
    <2>3. deliveries'[b] = 1 /\ deliveries' \in [Slots -> Nat]
          /\ \A s \in Slots \ {b} : deliveries'[s] = deliveries[s]
      BY <1>1, <1>2, <2>2, SMTT(20)
    <2> QED BY <1>0, <2>1, <2>3 DEF Counted
  <1> QED BY <1>5, <1>8, <1>9 DEF CInv

\* The record of a thread that blocks on its next operation.
Parked(r) == [r EXCEPT !.seq = @ + 1, !.state = "Blocked", !.controlWait = TRUE]

IsParked(r, q) ==
    /\ r \in Record /\ r.state = "Blocked" /\ r.seq = q.seq + 1 /\ r.controlWait = TRUE
    /\ r.gen = q.gen /\ r.process = q.process /\ r.creator = q.creator
    /\ r.incoming = q.incoming /\ r.outgoing = q.outgoing
    /\ r.detached = q.detached /\ r.joined = q.joined

LEMMA ParkedIs ==
  ASSUME NEW r \in Record, r.seq < MaxSequence
  PROVE  IsParked(Parked(r), r)
  <1>1. r.seq + 1 \in 0 .. MaxSequence
    <2>1. r.seq \in 0 .. MaxSequence
      BY DEF Record
    <2> QED BY <2>1, CapacityAssumption, SMTT(20)
  <1> DEFINE n == r.seq + 1
             new == [r EXCEPT !.seq = n, !.state = "Blocked", !.controlWait = TRUE]
  <1>2. Parked(r) = new
    BY DEF Parked
  <1> HIDE DEF n
  <1>3. /\ new \in Record /\ new.state = "Blocked" /\ new.seq = n /\ new.controlWait = TRUE
        /\ new.gen = r.gen /\ new.process = r.process /\ new.creator = r.creator
        /\ new.incoming = r.incoming /\ new.outgoing = r.outgoing
        /\ new.detached = r.detached /\ new.joined = r.joined
    BY <1>1 DEF n, Record, Live
  <1> HIDE DEF new
  <1> QED BY <1>2, <1>3 DEF IsParked, n

LEMMA AdmitKeepsWInv ==
  ASSUME TInv, WInv, TypeOK', NEW caller \in Ids, NEW a, a = caller.slot,
         NEW claim \in Claims(ThreadId), NEW options \in Options,
         thread[a].seq < MaxSequence,
         \A s \in Slots : SameLife(s),
         thread'[a].state = "Blocked", thread'[a].controlWait, thread'[a].seq = thread[a].seq + 1, thread'[a].outgoing = claim,
         \A s \in Slots \ {a} : /\ thread'[s].state = thread[s].state /\ thread'[s].seq = thread[s].seq
                                /\ thread'[s].controlWait = thread[s].controlWait
                                /\ thread'[s].outgoing = thread[s].outgoing,
         waits' = waits \cup {[caller |-> caller, seq |-> thread[a].seq + 1, join |-> claim,
                               options |-> options, phase |-> "Pending"]}
  PROVE  WInv'
  <1> DEFINE new == [caller |-> caller, seq |-> thread[a].seq + 1, join |-> claim,
                     options |-> options, phase |-> "Pending"]
  <1>1. /\ caller \in ThreadId /\ a \in Slots /\ caller = Id(a) /\ thread[a].seq \in 0 .. MaxSequence
        /\ thread[a].gen = caller.gen
    BY IdsAreThreads, RetainedIs, SMTT(20) DEF TInv, TypeOK, Record
  <1>2. thread[a].seq + 1 \in 0 .. MaxSequence /\ thread[a].seq \in Nat
    BY <1>1, CapacityAssumption, SMTT(20)
  <1>3. /\ new \in WaitRecord /\ new.caller = caller /\ new.seq = thread[a].seq + 1
        /\ new.join = claim /\ new.phase = "Pending"
    BY <1>1, <1>2 DEF WaitRecord
  <1>4. waits' = waits \cup {new}
    OBVIOUS
  <1> HIDE DEF new
  <1>5. \A s \in Slots : Id(s)' = Id(s)
    BY DEF SameLife, Id
  <1>6. \A w \in waits : w.caller \in ThreadId /\ w.caller.slot \in Slots /\ w.seq \in Nat
    BY CapacityAssumption, SMTT(20) DEF WInv, WaitRecord, ThreadId
  <1>7. \A w \in waits : w.caller = caller => w.seq <= thread[a].seq
    BY <1>1 DEF WInv, NotAhead
  <1>8. KeysUnique'
    <2>1. \A w \in waits : w.caller = caller => w.seq # new.seq
      BY <1>2, <1>3, <1>6, <1>7, SMTT(20)
    <2> QED BY <1>3, <1>4, <2>1, SMTT(20) DEF WInv, KeysUnique
  <1>9. NotAhead'
    <2> SUFFICES ASSUME NEW w \in waits', NEW k \in Slots, k = w.caller.slot
                 PROVE  /\ w.caller.gen <= thread'[k].gen
                        /\ w.caller = Id(k)' => w.seq <= thread'[k].seq
      BY <1>1, <1>3, <1>4, <1>6 DEF NotAhead, Id
    <2>1. CASE w = new
      BY <1>1, <1>2, <1>3, <2>1, CapacityAssumption, SMTT(20) DEF SameLife, ThreadId
    <2>2. CASE w \in waits
      <3>1. w.caller.gen <= thread[k].gen /\ (w.caller = Id(k) => w.seq <= thread[k].seq)
        BY <2>2 DEF WInv, NotAhead
      <3>2. thread'[k].gen = thread[k].gen /\ Id(k)' = Id(k)
        BY <1>5 DEF SameLife
      <3>3. k # a => thread'[k].seq = thread[k].seq
        OBVIOUS
      <3>4. k = a /\ w.caller = Id(k) => w.seq <= thread'[k].seq
        BY <1>1, <1>2, <1>6, <1>7, <2>2, SMTT(20)
      <3> QED BY <3>1, <3>2, <3>3, <3>4
    <2> QED BY <1>4, <2>1, <2>2
  <1>10. Interlocked'
    <2> SUFFICES ASSUME NEW s \in Slots, thread'[s].state # "Vacant", thread'[s].controlWait
                 PROVE  \E w \in waits' : Waited(s, w)'
      BY DEF Interlocked, Waited, Id
    <2>1. CASE s = a
      <3>1. PICK n : n = new
        OBVIOUS
      <3>2. Waited(a, n)'
        BY <1>1, <1>3, <1>5, <3>1 DEF Waited
      <3> QED BY <1>4, <2>1, <3>1, <3>2
    <2>2. CASE s # a
      <3>1. PICK w \in waits : Waited(s, w)
        BY <2>2 DEF WInv, Interlocked
      <3>2. Waited(s, w)'
        BY <1>5, <2>2, <3>1 DEF Waited
      <3> QED BY <1>4, <3>2
    <2> QED BY <2>1, <2>2
  <1>11. (waits \subseteq WaitRecord)'
    BY <1>3, <1>4 DEF WInv
  <1>12. Unwaited'
    BY DEF WInv, Unwaited
  <1> QED BY <1>8, <1>9, <1>10, <1>11, <1>12 DEF WInv

LEMMA SleepKeepsCInv ==
  ASSUME CInv, NEW caller \in Ids, NEW options \in Options, Sleep(caller, options)
  PROVE  CInv'
  <1> DEFINE a == caller.slot
             q == thread[a]
             new == Parked(q)
  <1>0. TInv /\ WInv /\ Counted
    BY DEF CInv
  <1>1. a \in Slots /\ q \in Record
    BY <1>0, IdsAreThreads
  <1>2. /\ q.seq < MaxSequence /\ q.state = "Running"
        /\ UNCHANGED <<procs, nextJoin, active, deliveries>>
        /\ thread' = [thread EXCEPT ![a] = new]
        /\ waits' = waits \cup {[caller |-> caller, seq |-> thread[a].seq + 1, join |-> NoClaim,
                                 options |-> options, phase |-> "Pending"]}
    BY DEF Sleep, ValidRunning, RunningFree, Admit, Blocked, Rec, Parked
  <1>3. IsParked(new, q)
    BY <1>1, <1>2, ParkedIs
  <1> HIDE DEF new
  <1>4. nextJoin' \in 1 .. MaxJoin + 1 /\ ProcsKept /\ UNCHANGED active
    BY <1>0, <1>2, QuietKeepsTInv DEF TInv, TypeOK
  <1>5. TInv'
    <2>1. SameRights(new, q) /\ new \in Record /\ new.state \in Executable /\ q.state \in Executable
      BY <1>2, <1>3 DEF SameRights, IsParked, Executable
    <2> QED BY <1>0, <1>1, <1>2, <1>4, <2>1, OneRecordKeepsTInv
  <1>6. thread'[a] = new /\ Only(a)
    BY <1>0, <1>1, <1>2 DEF TInv, TypeOK, Only
  <1>7. q.outgoing = NoClaim
    BY <1>0, <1>1 DEF WInv, Unwaited, Sleep, ValidRunning, RunningFree, Rec
  <1>8. \A s \in Slots : SameLife(s)
    BY <1>3, <1>6 DEF SameLife, IsParked, Only
  <1>9. WInv'
    <2>1. /\ thread'[a].state = "Blocked" /\ thread'[a].controlWait
          /\ thread'[a].seq = thread[a].seq + 1 /\ thread'[a].outgoing = NoClaim
      BY <1>3, <1>6, <1>7 DEF IsParked
    <2>2. TypeOK'
      BY <1>5 DEF TInv
    <2> QED BY <1>0, <1>2, <1>6, <1>8, <2>1, <2>2, NoClaimIsClaim, AdmitKeepsWInv, SMTT(20) DEF Only
  <1>10. \A s \in Slots : Gone(s)' <=> Gone(s)
    BY <1>2, <1>3, <1>6 DEF Gone, Only, IsParked
  <1>11. Counted'
    BY <1>0, <1>2, <1>10, FramedCounts
  <1> QED BY <1>5, <1>9, <1>11 DEF CInv

LEMMA JoinWaitKeepsCInv ==
  ASSUME CInv, NEW caller \in Ids, NEW target \in Ids, NEW options \in Options,
         JoinWait(caller, target, options)
  PROVE  CInv'
  <1> DEFINE a == caller.slot
             b == target.slot
             c == NewClaim(caller, target)
             th == Claimed(thread, c)
             new == Parked(th[a])
  <1>0. TInv /\ WInv /\ Counted /\ thread \in [Slots -> Record]
    BY DEF CInv, TInv, TypeOK
  <1>1. /\ ValidJoin(caller, target) /\ nextJoin < MaxJoin /\ nextJoin' = nextJoin + 1
        /\ UNCHANGED <<procs, active, deliveries>>
        /\ thread[a].seq < MaxSequence /\ thread[a].state = "Running"
        /\ thread' = [th EXCEPT ![a] = new]
        /\ waits' = waits \cup {[caller |-> caller, seq |-> thread[a].seq + 1, join |-> c,
                                 options |-> options, phase |-> "Pending"]}
    BY DEF JoinWait, ValidRunning, RunningFree, Admit, Blocked, Rec, Parked
  <1>2. /\ c \in Claims(ThreadId) /\ c.caller = caller /\ c.target = target
        /\ a \in Slots /\ b \in Slots /\ a # b
    BY <1>0, <1>1, NewClaimIs
  <1>3. Ends(thread, th, a, b, c)
    BY <1>0, <1>2, ClaimedEnds
  <1> HIDE DEF th
  <1>4. th[a] \in Record /\ th \in [Slots -> Record] /\ th[a].seq < MaxSequence
    BY <1>1, <1>2, <1>3 DEF Ends, SameButClaims
  <1>5. IsParked(new, th[a])
    BY <1>4, ParkedIs
  <1> HIDE DEF new
  <1>6. thread'[a] = new /\ \A s \in Slots \ {a} : thread'[s] = th[s]
    BY <1>1, <1>2, <1>4
  <1>7. thread' \in [Slots -> Record]
    BY <1>1, <1>4, <1>5 DEF IsParked
  <1>8. /\ thread'[a].state = "Blocked" /\ thread'[a].controlWait
        /\ thread'[a].seq = thread[a].seq + 1 /\ thread'[a].outgoing = c
        /\ thread'[a].incoming = thread[a].incoming
    BY <1>2, <1>3, <1>5, <1>6 DEF IsParked, Ends, SameButClaims
  <1>9. \A s \in Slots : /\ SameLife(s)
                         /\ thread'[s].detached = thread[s].detached
                         /\ thread'[s].joined = thread[s].joined
    BY <1>2, <1>3, <1>5, <1>6, SMTT(20) DEF IsParked, Ends, SameButClaims, SameLife
  <1>10. \A s \in Slots \ {a} : /\ thread'[s].state = thread[s].state /\ thread'[s].seq = thread[s].seq
                                /\ thread'[s].controlWait = thread[s].controlWait
                                /\ thread'[s].outgoing = thread[s].outgoing
    BY <1>3, <1>6, SMTT(20) DEF Ends, SameButClaims
  <1>11. thread'[b].incoming = c /\ \A s \in Slots \ {b} : thread'[s].incoming = thread[s].incoming
    BY <1>2, <1>3, <1>6, <1>8 DEF Ends
  <1> HIDE DEF a, b
  <1>12. TInv'
    <2>1. a = caller.slot /\ b = target.slot /\ c = NewClaim(caller, target)
      BY DEF a, b
    <2>2. thread'[a].state \in Executable
      BY <1>8 DEF Executable
    <2> HIDE DEF c
    <2> QED BY <1>0, <1>1, <1>7, <1>8, <1>9, <1>10, <1>11, <2>1, <2>2, ClaimKeepsTInv, SMTT(20)
  <1>13. WInv'
    <2>1. TypeOK' /\ a = caller.slot
      BY <1>12 DEF TInv, a
    <2> HIDE DEF c
    <2> QED BY <1>0, <1>1, <1>2, <1>8, <1>9, <1>10, <2>1, AdmitKeepsWInv, SMTT(20)
  <1>14. \A s \in Slots : Gone(s)' <=> Gone(s)
    <2>1. \A s \in Slots : (thread'[s].state = "Vacant") <=> (thread[s].state = "Vacant")
      BY <1>1, <1>8, <1>10
    <2> QED BY <1>9, <2>1 DEF Gone
  <1>15. Counted'
    BY <1>0, <1>1, <1>14, FramedCounts
  <1> QED BY <1>12, <1>13, <1>15 DEF CInv

-----------------------------------------------------------------------------
(***************************************************************************)
(* Waits are observed and consumed.                                        *)
(***************************************************************************)
\* The wait an operation may use is the one its thread is interlocked with.
LEMMA OwnWait ==
  ASSUME TInv, WInv, NEW w \in waits, ValidWait(w), NEW a, a = w.caller.slot
  PROVE  /\ a \in Slots /\ w \in WaitRecord /\ w.caller \in ThreadId /\ w.caller = Id(a)
         /\ thread[a].state # "Vacant" /\ thread[a].controlWait /\ thread[a] \in Record
         /\ Waited(a, w)
  <1>1. w \in WaitRecord /\ w.caller \in ThreadId /\ a \in Slots
    BY DEF WInv, WaitRecord, ThreadId
  <1>2. thread[a].state # "Vacant" /\ w.caller = Id(a) /\ thread[a].controlWait /\ w.seq = thread[a].seq
    BY DEF ValidWait, Retained, Rec
  <1>3. PICK v \in waits : Waited(a, v)
    BY <1>1, <1>2 DEF WInv, Interlocked
  <1>4. v = w
    BY <1>2, <1>3 DEF Waited, WInv, KeysUnique
  <1> QED BY <1>1, <1>2, <1>3, <1>4, Fields DEF TInv

LEMMA SelectKeepsWInv ==
  ASSUME TInv, WInv, TypeOK', NEW w \in waits, NEW a \in Slots, w.caller = Id(a),
         w.seq = thread[a].seq, thread[a].controlWait,
         \A s \in Slots \ {a} : Continues(s),
         SameLife(a), thread'[a].seq = thread[a].seq, thread'[a].controlWait,
         thread'[a].state = "Ready", thread'[a].outgoing = NoClaim,
         NEW v \in WaitRecord, v.caller = w.caller, v.seq = w.seq, v.join = NoClaim,
         v.phase # "Pending", waits' = (waits \ {w}) \cup {v}
  PROVE  WInv'
  <1>1. /\ \A s \in Slots : Id(s)' = Id(s)
        /\ \A s \in Slots : thread'[s].gen = thread[s].gen /\ thread'[s].seq = thread[s].seq
    BY DEF Continues, SameLife, Id
  <1>2. \A x \in waits : x.caller \in ThreadId /\ x.caller.slot \in Slots
    BY DEF WInv, WaitRecord, ThreadId
  <1>3. (waits \subseteq WaitRecord)'
    BY DEF WInv
  <1>4. KeysUnique'
    BY SMTT(20) DEF WInv, KeysUnique
  <1>5. NotAhead'
    <2> SUFFICES ASSUME NEW x \in waits', NEW k \in Slots, k = x.caller.slot
                 PROVE  /\ x.caller.gen <= thread'[k].gen
                        /\ x.caller = Id(k)' => x.seq <= thread'[k].seq
      BY <1>2 DEF NotAhead, Id
    <2>1. PICK y \in waits : y.caller = x.caller /\ y.seq = x.seq
      OBVIOUS
    <2>2. y.caller.gen <= thread[k].gen /\ (y.caller = Id(k) => y.seq <= thread[k].seq)
      BY <2>1 DEF WInv, NotAhead
    <2> QED BY <1>1, <2>1, <2>2
  <1>6. Interlocked'
    <2> SUFFICES ASSUME NEW s \in Slots, thread'[s].state # "Vacant", thread'[s].controlWait
                 PROVE  \E x \in waits' : Waited(s, x)'
      BY DEF Interlocked, Waited, Id
    <2>1. CASE s = a
      <3>1. Waited(a, v)'
        BY <1>1 DEF Waited
      <3> QED BY <2>1, <3>1
    <2>2. CASE s # a
      <3>1. Continues(s)
        BY <2>2
      <3>2. PICK x \in waits : Waited(s, x)
        BY <3>1 DEF Continues, WInv, Interlocked
      <3>3. Waited(s, x)'
        BY <1>1, <3>1, <3>2 DEF Continues, Waited
      <3>4. x # w
        BY <2>2, <3>2, SMTT(20) DEF Waited, Id
      <3> QED BY <3>3, <3>4
    <2> QED BY <2>1, <2>2
  <1>7. Unwaited'
    <2> SUFFICES ASSUME NEW s \in Slots, ~ thread'[s].controlWait PROVE thread'[s].outgoing = NoClaim
      BY DEF Unwaited
    <2>1. Continues(s) /\ (~ thread[s].controlWait => thread[s].outgoing = NoClaim)
      BY DEF WInv, Unwaited
    <2> QED BY <2>1 DEF Continues
  <1> QED BY <1>3, <1>4, <1>5, <1>6, <1>7 DEF WInv

LEMMA FinishKeepsCInv ==
  ASSUME CInv, NEW w \in waits, Finish(w)
  PROVE  CInv'
  <1> DEFINE a == w.caller.slot
             q == thread[a]
             new == [q EXCEPT !.controlWait = FALSE]
  <1>0. TInv /\ WInv /\ Counted
    BY DEF CInv
  <1>1. ValidWait(w) /\ w.phase # "Pending" /\ UNCHANGED <<procs, nextJoin, active, deliveries>>
        /\ waits' = waits \ {w} /\ thread' = [thread EXCEPT ![a] = new]
    BY DEF Finish
  <1>2. /\ a \in Slots /\ w.caller = Id(a) /\ q.state # "Vacant" /\ q \in Record /\ Waited(a, w)
    BY <1>0, <1>1, OwnWait
  <1>3. /\ new \in Record /\ SameRights(new, q) /\ new.state = q.state /\ new.controlWait = FALSE
        /\ new.gen = q.gen /\ new.process = q.process /\ new.creator = q.creator /\ new.seq = q.seq
        /\ new.outgoing = q.outgoing /\ new.joined = q.joined
    BY <1>2 DEF Record, SameRights
  <1> HIDE DEF new
  <1>4. nextJoin' \in 1 .. MaxJoin + 1 /\ ProcsKept /\ UNCHANGED active
    BY <1>0, <1>1, QuietKeepsTInv DEF TInv, TypeOK
  <1>5. TInv'
    BY <1>0, <1>1, <1>2, <1>3, <1>4, OneRecordKeepsTInv
  <1>6. thread'[a] = new /\ Only(a)
    BY <1>0, <1>1, <1>2 DEF TInv, TypeOK, Only
  <1>7. q.outgoing = NoClaim
    BY <1>1, <1>2 DEF Waited
  <1> HIDE DEF a
  <1>8. \A s \in Slots : /\ thread'[s].gen = thread[s].gen /\ thread'[s].process = thread[s].process
                         /\ thread'[s].seq = thread[s].seq /\ thread'[s].state = thread[s].state
                         /\ thread'[s].joined = thread[s].joined
    BY <1>2, <1>3, <1>6 DEF Only
  <1>9. \A s \in Slots : Id(s)' = Id(s)
    BY <1>8 DEF Id
  <1>10. NotAhead'
    <2> SUFFICES ASSUME NEW x \in waits, NEW k \in Slots, k = x.caller.slot
                 PROVE  /\ x.caller.gen <= thread'[k].gen
                        /\ x.caller = Id(k)' => x.seq <= thread'[k].seq
      BY <1>0, <1>1 DEF NotAhead, Id, WInv, WaitRecord, ThreadId
    <2> QED BY <1>0, <1>8, <1>9 DEF WInv, NotAhead
  <1>11. Interlocked'
    <2> SUFFICES ASSUME NEW s \in Slots, thread'[s].state # "Vacant", thread'[s].controlWait
                 PROVE  \E x \in waits' : Waited(s, x)'
      BY DEF Interlocked, Waited, Id
    <2>1. s # a /\ thread'[s] = thread[s]
      BY <1>3, <1>6 DEF Only
    <2>2. PICK x \in waits : Waited(s, x)
      BY <1>0, <2>1 DEF WInv, Interlocked
    <2>3. Waited(s, x)'
      BY <1>9, <2>1, <2>2 DEF Waited
    <2>4. x # w
      BY <1>2, <2>1, <2>2, SMTT(20) DEF Waited, Id
    <2> QED BY <1>1, <2>3, <2>4
  <1>12. Unwaited'
    BY <1>0, <1>3, <1>6, <1>7 DEF WInv, Unwaited, Only
  <1>13. WInv'
    BY <1>0, <1>1, <1>10, <1>11, <1>12 DEF WInv, KeysUnique
  <1>14. Counted'
    <2>1. \A s \in Slots : Gone(s)' <=> Gone(s)
      BY <1>8 DEF Gone
    <2> QED BY <1>0, <1>1, <2>1, FramedCounts
  <1> QED BY <1>5, <1>13, <1>14 DEF CInv

\* A table that differs from the present one by a claim dropped at both ends.
DroppedFrom(th, a, b) ==
    /\ th \in [Slots -> Record]
    /\ \A s \in Slots : /\ th[s].gen = thread[s].gen /\ th[s].process = thread[s].process
                         /\ th[s].creator = thread[s].creator /\ th[s].state = thread[s].state
                         /\ th[s].seq = thread[s].seq /\ th[s].controlWait = thread[s].controlWait
    /\ th[a].outgoing = NoClaim /\ \A s \in Slots \ {a} : th[s].outgoing = thread[s].outgoing
    /\ th[b].incoming = NoClaim
    /\ \A s \in Slots \ {b} : /\ th[s].incoming = thread[s].incoming
                               /\ th[s].detached = thread[s].detached
                               /\ th[s].joined = thread[s].joined

LEMMA UnclaimedDrops ==
  ASSUME TInv, NEW c \in Claims(ThreadId), ValidClaim(c), NEW a, a = c.caller.slot, NEW b, b = c.target.slot
  PROVE  /\ DroppedFrom(Unclaimed(thread, c), a, b)
         /\ Unclaimed(thread, c)[b].joined = thread[b].joined
  <1>1. thread \in [Slots -> Record] /\ a \in Slots /\ b \in Slots /\ a # b
    BY ClaimEnds DEF TInv, TypeOK
  <1>2. Ends(thread, Unclaimed(thread, c), a, b, NoClaim)
    BY <1>1, UnclaimedEnds
  <1> QED BY <1>1, <1>2 DEF Ends, SameButClaims, DroppedFrom

LEMMA JoinedDrops ==
  ASSUME TInv, NEW c \in Claims(ThreadId), ValidClaim(c), NEW a, a = c.caller.slot, NEW b, b = c.target.slot
  PROVE  DroppedFrom(Joined(thread, c), a, b) /\ Joined(thread, c)[b].joined
  <1> DEFINE un == Unclaimed(thread, c)
             new == [un[b] EXCEPT !.joined = TRUE]
  <1>1. b \in Slots /\ DroppedFrom(un, a, b)
    BY ClaimEnds, UnclaimedDrops
  <1>2. Joined(thread, c) = [un EXCEPT ![b] = new]
    BY DEF Joined
  <1> HIDE DEF un
  <1>3. un \in [Slots -> Record] /\ un[b] \in Record
    BY <1>1 DEF DroppedFrom
  <1>4. /\ new \in Record /\ new.joined /\ new.gen = un[b].gen /\ new.process = un[b].process
        /\ new.creator = un[b].creator /\ new.state = un[b].state /\ new.seq = un[b].seq
        /\ new.controlWait = un[b].controlWait
        /\ new.incoming = un[b].incoming /\ new.outgoing = un[b].outgoing
    BY <1>3 DEF Record
  <1> HIDE DEF new
  <1> DEFINE th == [un EXCEPT ![b] = new]
  <1>5. th \in [Slots -> Record] /\ th[b] = new /\ \A s \in Slots \ {b} : th[s] = un[s]
    BY <1>1, <1>3, <1>4
  <1> HIDE DEF th
  <1>6. DroppedFrom(th, a, b) /\ th[b].joined
    <2>1. ASSUME NEW s \in Slots
          PROVE  /\ th[s].gen = un[s].gen /\ th[s].process = un[s].process
                 /\ th[s].creator = un[s].creator /\ th[s].state = un[s].state
                 /\ th[s].seq = un[s].seq /\ th[s].controlWait = un[s].controlWait
                 /\ th[s].incoming = un[s].incoming /\ th[s].outgoing = un[s].outgoing
      <3>1. CASE s = b
        BY <1>4, <1>5, <3>1
      <3>2. CASE s # b
        BY <1>5, <3>2
      <3> QED BY <3>1, <3>2
    <2>2. a \in Slots
      BY ClaimEnds
    <2> QED BY <1>1, <1>4, <1>5, <2>1, <2>2, SMTT(20) DEF DroppedFrom
  <1> QED BY <1>2, <1>6 DEF th

\* The wait after its outcome is selected.
Ended(w, outcome) == [w EXCEPT !.join = NoClaim, !.phase = outcome]

LEMMA EndedIs ==
  ASSUME NEW w \in WaitRecord, NEW outcome \in Outcomes
  PROVE  /\ Ended(w, outcome) \in WaitRecord /\ Ended(w, outcome).caller = w.caller
         /\ Ended(w, outcome).seq = w.seq /\ Ended(w, outcome).join = NoClaim
         /\ Ended(w, outcome).phase = outcome /\ outcome # "Pending"
  BY NoClaimIsClaim DEF Ended, WaitRecord, Outcomes

LEMMA DueIs ==
  ASSUME NEW options, NEW stopped
  PROVE  Due(options, stopped) \in {"TimedOut", "Stopped", "None"}
  BY DEF Due

\* Observe selects an outcome of a sleep.
LEMMA SelectSleep ==
  ASSUME TInv, WInv, Counted, NEW w \in waits, ValidWait(w), w.phase = "Pending",
         thread[w.caller.slot].state = "Blocked", w.join = NoClaim,
         NEW outcome \in Outcomes, Select(w, outcome, thread),
         UNCHANGED <<procs, nextJoin, active, deliveries>>
  PROVE  CInv' /\ waits' = (waits \ {w}) \cup {Ended(w, outcome)}
  <1> DEFINE a == w.caller.slot
             v == Ended(w, outcome)
  <1>1. /\ a \in Slots /\ w \in WaitRecord /\ w.caller = Id(a) /\ Retained(w.caller)
        /\ thread[a].controlWait /\ Waited(a, w)
    BY OwnWait DEF ValidWait
  <1>2. Transition(w.caller, "Blocked", "Ready") /\ waits' = (waits \ {w}) \cup {v}
    BY <1>1 DEF Select, Transition, Rec, Ended
  <1>3. ProcsKept
    BY QuietKeepsTInv
  <1>4. TInv'
    BY <1>1, <1>2, <1>3, TransitionKeepsTInv DEF States, Live, Executable
  <1>5. Only(a) /\ thread'[a].state = "Ready" /\ SameButState(thread'[a], thread[a])
    BY <1>1, <1>2, TransitionIs DEF States, Live
  <1>6. /\ v \in WaitRecord /\ v.caller = w.caller /\ v.seq = w.seq /\ v.join = NoClaim
        /\ v.phase # "Pending"
    BY <1>1, EndedIs
  <1>7. /\ SameLife(a) /\ thread'[a].seq = thread[a].seq /\ thread'[a].controlWait
        /\ thread'[a].outgoing = NoClaim /\ w.seq = thread[a].seq
    BY <1>1, <1>5 DEF SameLife, SameButState, Waited
  <1> HIDE DEF a, v
  <1>8. WInv'
    BY <1>1, <1>2, <1>4, <1>5, <1>6, <1>7, KeptContinues, SelectKeepsWInv DEF TInv, Only
  <1>9. Counted'
    <2>1. \A s \in Slots : Gone(s)' <=> Gone(s)
      BY <1>1, <1>5 DEF Gone, Only, SameButState, a
    <2> QED BY <2>1, FramedCounts
  <1> QED BY <1>2, <1>4, <1>8, <1>9 DEF CInv, v

\* Observe selects an outcome of a join, whose claim is dropped.
LEMMA SelectJoin ==
  ASSUME TInv, WInv, NEW w \in waits, ValidWait(w), w.phase = "Pending",
         thread[w.caller.slot].state = "Blocked", w.join # NoClaim, ValidClaim(w.join),
         NEW outcome \in Outcomes, NEW b, b = w.join.target.slot,
         NEW th, DroppedFrom(th, w.caller.slot, b), Select(w, outcome, th),
         UNCHANGED <<procs, nextJoin, active>>
  PROVE  /\ TInv' /\ WInv' /\ waits' = (waits \ {w}) \cup {Ended(w, outcome)}
         /\ b \in Slots /\ thread'[b].incoming = NoClaim /\ thread'[b].joined = th[b].joined
         /\ thread'[b].state = thread[b].state /\ thread[b].state # "Vacant" /\ ~ thread[b].joined
         /\ \A s \in Slots \ {b} : Gone(s)' <=> Gone(s)
  <1> DEFINE a == w.caller.slot
             v == Ended(w, outcome)
             r == Restated(th[a], "Ready")
  <1>1. /\ a \in Slots /\ w \in WaitRecord /\ w.caller = Id(a)
        /\ thread[a].controlWait /\ Waited(a, w)
    BY OwnWait
  <1>2. thread[a].outgoing = w.join /\ w.seq = thread[a].seq /\ w.join \in Claims(ThreadId)
    BY <1>1 DEF Waited, WaitRecord
  <1>3. /\ b \in Slots /\ a # b /\ w.join.target = Id(b) /\ w.join.caller = Id(a)
        /\ thread[b].incoming = w.join
    <2>1. w.join.caller = Id(a)
      BY <1>1, <1>2 DEF TInv, NoDangling, JoinPaired
    <2>2. w.join.caller.slot = a
      BY <2>1, SMTT(20) DEF Id
    <2> HIDE DEF a
    <2>3. /\ b \in Slots /\ w.join.caller.slot # b /\ w.join.target = Id(b)
          /\ thread[b].incoming = w.join
      BY <1>2, ClaimEnds
    <2> QED BY <2>1, <2>2, <2>3
  <1>4. thread[b].state # "Vacant" /\ ~ thread[b].joined
    BY <1>3 DEF TInv, NoDangling, JoinPaired
  <1>5. thread' = [th EXCEPT ![a] = r] /\ waits' = (waits \ {w}) \cup {v}
    BY DEF Select, Ended, Restated
  <1>6. th \in [Slots -> Record] /\ th[a] \in Record
    BY <1>1 DEF DroppedFrom
  <1>7. r \in Record /\ r.state = "Ready" /\ SameButState(r, th[a])
    BY <1>6, RestatedIs DEF States, Live
  <1> HIDE DEF r
  <1>8. /\ thread' \in [Slots -> Record] /\ thread'[a] = r
        /\ \A s \in Slots \ {a} : thread'[s] = th[s]
    BY <1>1, <1>5, <1>6, <1>7
  <1>9. /\ v \in WaitRecord /\ v.caller = w.caller /\ v.seq = w.seq /\ v.join = NoClaim
        /\ v.phase # "Pending"
    BY <1>1, EndedIs
  <1>10. DroppedFrom(th, a, b)
    OBVIOUS
  <1> HIDE DEF a, v
  <1>11. \A s \in Slots : /\ SameLife(s) /\ thread'[s].seq = thread[s].seq
                          /\ thread'[s].controlWait = thread[s].controlWait
    BY <1>7, <1>8, <1>10, SMTT(20) DEF SameLife, SameButState, DroppedFrom
  <1>17. ASSUME NEW s \in Slots
         PROVE  /\ thread'[s].incoming = th[s].incoming /\ thread'[s].outgoing = th[s].outgoing
                /\ thread'[s].detached = th[s].detached /\ thread'[s].joined = th[s].joined
                /\ s # a => thread'[s].state = th[s].state
    <2>1. CASE s = a
      BY <1>7, <1>8, <2>1 DEF SameButState
    <2>2. CASE s # a
      BY <1>8, <2>2
    <2> QED BY <2>1, <2>2
  <1>12. /\ thread'[a].outgoing = NoClaim /\ thread'[b].incoming = NoClaim
         /\ thread'[b].joined = th[b].joined
         /\ \A s \in Slots \ {a} : thread'[s].outgoing = thread[s].outgoing
                                     /\ thread'[s].state = thread[s].state
         /\ \A s \in Slots \ {b} : /\ thread'[s].incoming = thread[s].incoming
                                    /\ thread'[s].detached = thread[s].detached
                                    /\ thread'[s].joined = thread[s].joined
    <2>1. thread'[a].outgoing = NoClaim /\ thread'[b].incoming = NoClaim /\ thread'[b].joined = th[b].joined
      BY <1>1, <1>3, <1>10, <1>17 DEF DroppedFrom
    <2>2. \A s \in Slots \ {a} : thread'[s].outgoing = thread[s].outgoing
                                 /\ thread'[s].state = thread[s].state
      BY <1>10, <1>17 DEF DroppedFrom
    <2>3. \A s \in Slots \ {b} : /\ thread'[s].incoming = thread[s].incoming
                                 /\ thread'[s].detached = thread[s].detached
                                 /\ thread'[s].joined = thread[s].joined
      BY <1>10, <1>17, SMTT(20) DEF DroppedFrom
    <2> QED BY <2>1, <2>2, <2>3
  <1>13. thread'[a].state = "Ready" /\ thread[a].state = "Blocked"
    BY <1>7, <1>8 DEF a
  <1>14. TInv'
    <2>1. \A s \in Slots : Drops(s)
      <3>1. thread[a].outgoing # NoClaim /\ thread[a].outgoing.target = Id(b)
        BY <1>2, <1>3
      <3>2. a \in Slots /\ b \in Slots
        BY <1>1, <1>3
      <3>3. \A s \in Slots \ {a} : thread'[s].outgoing = thread[s].outgoing
        BY <1>12
      <3>4. \A s \in Slots \ {b} : /\ thread'[s].incoming = thread[s].incoming
                                   /\ thread'[s].detached = thread[s].detached
                                   /\ thread'[s].joined = thread[s].joined
        BY <1>12
      <3>5. thread'[a].outgoing = NoClaim /\ thread'[b].incoming = NoClaim
        BY <1>12
      <3> QED BY <3>1, <3>2, <3>3, <3>4, <3>5, OneDropped
    <2>2. \A s \in Slots : Moves(s)
      BY <1>12, <1>13 DEF Moves, Executable
    <2> QED BY <1>8, <1>11, <2>1, <2>2, QuietProcesses DEF Legal
  <1>15. WInv'
    <2>1. \A s \in Slots \ {a} : Continues(s)
      BY <1>11, <1>12 DEF Continues
    <2>2. SameLife(a) /\ thread'[a].seq = thread[a].seq /\ thread'[a].controlWait
      BY <1>1, <1>11
    <2> QED BY <1>1, <1>2, <1>5, <1>9, <1>12, <1>13, <1>14, <2>1, <2>2, SelectKeepsWInv DEF TInv
  <1>16. \A s \in Slots \ {b} : Gone(s)' <=> Gone(s)
    BY <1>12, <1>13 DEF Gone
  <1> QED BY <1>3, <1>4, <1>5, <1>12, <1>14, <1>15, <1>16 DEF v

LEMMA ObserveKeepsCInv ==
  ASSUME CInv, NEW w \in waits, Observe(w)
  PROVE  /\ CInv'
         /\ \E outcome \in Outcomes :
               LET due == Due(w.options, Rec(w.caller).stop)
               IN  /\ waits' = (waits \ {w}) \cup {Ended(w, outcome)}
                   /\ IF due = "None" THEN outcome = "Joined"
                      ELSE /\ outcome = due
                           /\ w.join # NoClaim => /\ thread'[w.join.target.slot].incoming = NoClaim
                                                  /\ deliveries' = deliveries
  <1> DEFINE due == Due(w.options, Rec(w.caller).stop)
             b == w.join.target.slot
  <1>0. TInv /\ WInv /\ Counted
    BY DEF CInv
  <1>1. /\ ValidWait(w) /\ w.phase = "Pending" /\ thread[w.caller.slot].state = "Blocked"
        /\ UNCHANGED <<procs, nextJoin, active>>
    BY DEF Observe, Rec
  <1>2. w.join \in Claims(ThreadId)
    BY <1>0 DEF WInv, WaitRecord
  <1>3. due # "None" => due \in Outcomes
    BY DueIs DEF Outcomes
  <1>4. w.join # NoClaim /\ ValidClaim(w.join) => w.caller.slot = w.join.caller.slot
    <2> SUFFICES ASSUME w.join # NoClaim, ValidClaim(w.join) PROVE w.caller.slot = w.join.caller.slot
      OBVIOUS
    <2>1. Waited(w.caller.slot, w) /\ w.caller.slot \in Slots
      BY <1>0, <1>1, OwnWait
    <2>2. w.join.caller = Id(w.caller.slot)
      BY <1>0, <2>1 DEF Waited, TInv, NoDangling, JoinPaired
    <2> QED BY <2>2, SMTT(20) DEF Id
  <1>b. b = w.join.target.slot
    OBVIOUS
  <1>5. CASE /\ due # "None" /\ w.join = NoClaim
             /\ Select(w, due, thread) /\ UNCHANGED deliveries
    <2>1. CInv' /\ waits' = (waits \ {w}) \cup {Ended(w, due)}
      BY <1>0, <1>1, <1>3, <1>5, SelectSleep
    <2> QED BY <1>3, <1>5, <2>1
  <1>6. CASE /\ due # "None" /\ w.join # NoClaim /\ ValidClaim(w.join)
             /\ Select(w, due, Unclaimed(thread, w.join)) /\ UNCHANGED deliveries
    <2> DEFINE th == Unclaimed(thread, w.join)
    <2>1. DroppedFrom(th, w.caller.slot, b) /\ th[b].joined = thread[b].joined
      BY <1>0, <1>2, <1>4, <1>6, UnclaimedDrops
    <2>2. Select(w, due, th)
      BY <1>6
    <2> HIDE DEF th
    <2>3. /\ TInv' /\ WInv' /\ waits' = (waits \ {w}) \cup {Ended(w, due)}
          /\ b \in Slots /\ thread'[b].incoming = NoClaim /\ thread'[b].joined = th[b].joined
          /\ thread'[b].state = thread[b].state
          /\ \A s \in Slots \ {b} : Gone(s)' <=> Gone(s)
      <3>1. w.join # NoClaim /\ ValidClaim(w.join) /\ due \in Outcomes
        BY <1>3, <1>6
      <3>2. DroppedFrom(th, w.caller.slot, b)
        BY <2>1
      <3>3. Select(w, due, th)
        BY <2>2
      <3> HIDE DEF due, b
      <3> QED BY <1>0, <1>1, <1>b, <3>1, <3>2, <3>3, SelectJoin, SMTT(20)
    <2>4. \A s \in Slots : Gone(s)' <=> Gone(s)
      BY <2>1, <2>3 DEF Gone
    <2>5. Counted'
      BY <1>0, <1>6, <2>4, FramedCounts
    <2> QED BY <1>3, <1>6, <2>3, <2>5 DEF CInv
  <1>7. CASE /\ due = "None" /\ w.join # NoClaim /\ ValidClaim(w.join)
             /\ Select(w, "Joined", Joined(thread, w.join))
             /\ deliveries' = [deliveries EXCEPT ![b] = @ + 1]
    <2> DEFINE th == Joined(thread, w.join)
    <2>1. DroppedFrom(th, w.caller.slot, b) /\ th[b].joined
      BY <1>0, <1>2, <1>4, <1>7, JoinedDrops
    <2>2. Select(w, "Joined", th) /\ "Joined" \in Outcomes
      BY <1>7 DEF Outcomes
    <2> HIDE DEF th
    <2>3. /\ TInv' /\ WInv' /\ waits' = (waits \ {w}) \cup {Ended(w, "Joined")}
          /\ b \in Slots /\ thread'[b].joined = th[b].joined
          /\ thread'[b].state = thread[b].state /\ thread[b].state # "Vacant" /\ ~ thread[b].joined
          /\ \A s \in Slots \ {b} : Gone(s)' <=> Gone(s)
      <3>1. w.join # NoClaim /\ ValidClaim(w.join)
        BY <1>7
      <3>2. DroppedFrom(th, w.caller.slot, b)
        BY <2>1
      <3>3. PICK outcome \in Outcomes : outcome = "Joined" /\ Select(w, outcome, th)
        BY <2>2
      <3> HIDE DEF b
      <3>4. /\ TInv' /\ WInv' /\ waits' = (waits \ {w}) \cup {Ended(w, outcome)}
            /\ b \in Slots /\ thread'[b].joined = th[b].joined
            /\ thread'[b].state = thread[b].state /\ thread[b].state # "Vacant" /\ ~ thread[b].joined
            /\ \A s \in Slots \ {b} : Gone(s)' <=> Gone(s)
        BY <1>0, <1>1, <1>b, <3>1, <3>2, <3>3, SelectJoin, SMTT(20)
      <3> QED BY <3>3, <3>4
    <2>4. Gone(b)' /\ ~ Gone(b)
      BY <2>1, <2>3 DEF Gone
    <2>5. deliveries[b] = 0 /\ deliveries \in [Slots -> Nat]
      BY <1>0, <2>3, <2>4 DEF Counted
    <2>6. /\ deliveries'[b] = 1 /\ deliveries' \in [Slots -> Nat]
          /\ \A s \in Slots \ {b} : deliveries'[s] = deliveries[s]
      <3>1. deliveries' = [deliveries EXCEPT ![b] = @ + 1] /\ b \in Slots
        BY <1>7, <2>3
      <3> HIDE DEF b
      <3> QED BY <2>5, <3>1, SMTT(20)
    <2>7. Counted'
      BY <1>0, <2>3, <2>4, <2>6 DEF Counted
    <2> QED BY <1>7, <2>2, <2>3, <2>7 DEF CInv
  <1> QED BY <1>5, <1>6, <1>7 DEF Observe

-----------------------------------------------------------------------------
LEMMA InitCInv == ControlInit => CInv
  <1> SUFFICES ASSUME ControlInit PROVE CInv
    OBVIOUS
  <1>1. TInv /\ waits = {} /\ deliveries = [s \in Slots |-> 0]
    BY InitTInv DEF ControlInit
  <1>2. \A s \in Slots : thread[s] = Empty(0)
    BY DEF ControlInit, Init
  <1>3. \A s \in Slots : thread[s].state = "Vacant" /\ thread[s].outgoing = NoClaim
    BY <1>2, SMTT(20) DEF Empty
  <1>4. WInv
    BY <1>1, <1>3 DEF WInv, KeysUnique, NotAhead, Interlocked, Unwaited
  <1>5. Counted
    BY <1>1, <1>3 DEF Counted, Gone
  <1> QED BY <1>1, <1>4, <1>5 DEF CInv

LEMMA KeptCInv ==
  ASSUME CInv, UNCHANGED <<tableVars, waits, deliveries>>
  PROVE  CInv'
  <1>1. TInv /\ WInv /\ Counted /\ UNCHANGED <<thread, waits, deliveries>> /\ UNCHANGED tableVars
    BY DEF CInv, tableVars
  <1>2. TInv'
    BY <1>1, StepTInv
  <1> QED BY <1>1, <1>2, TableKeptWaits DEF CInv, TInv

LEMMA ReapKeepsCInv ==
  ASSUME CInv, NEW id \in Ids, ReapThread(id)
  PROVE  CInv'
  <1>1. TInv /\ WInv /\ Counted /\ Reap(id)
    BY DEF CInv, ReapThread
  <1>2. TInv'
    BY <1>1, ReapKeepsTInv
  <1> QED BY <1>1, <1>2, ReapKeepsWaits DEF CInv, TInv

LEMMA StepCInv == CInv /\ [ControlNext]_vars => CInv'
  <1> SUFFICES ASSUME CInv, [ControlNext]_vars PROVE CInv'
    OBVIOUS
  <1>1. CASE Lifecycle
    BY <1>1, LifecycleKeepsCInv
  <1>2. CASE Tick \/ UNCHANGED vars
    BY <1>2, KeptCInv DEF Tick, vars, controlVars
  <1>3. CASE \E id \in Ids : ReapThread(id)
    BY <1>3, ReapKeepsCInv
  <1>4. CASE \E caller, target \in Ids : \E options \in Options : Join(caller, target, options)
    BY <1>4, JoinNowKeepsCInv, JoinWaitKeepsCInv DEF Join
  <1>5. CASE \E caller \in Ids : \E options \in Options : Sleep(caller, options)
    BY <1>5, SleepKeepsCInv
  <1>6. CASE \E w \in waits : Observe(w)
    BY <1>6, ObserveKeepsCInv
  <1>7. CASE \E w \in waits : Finish(w)
    BY <1>7, FinishKeepsCInv
  <1> QED BY <1>1, <1>2, <1>3, <1>4, <1>5, <1>6, <1>7 DEF ControlNext

(***************************************************************************)
(* In every state of join and sleep: a thread marked control_wait has      *)
(* exactly one Waiting value of its operation, and that value's claim is   *)
(* the thread's own and is held at both ends.                              *)
(***************************************************************************)
THEOREM InterlockAlwaysOwned == ControlSpec => []InterlockOwned
  <1>1. CInv => InterlockOwned
    <2> SUFFICES ASSUME CInv, NEW s \in Slots, thread[s].state # "Vacant", thread[s].controlWait
                 PROVE  \E w \in WaitsOf(s) :
                            /\ WaitsOf(s) = {w}
                            /\ thread[s].outgoing = w.join
                            /\ IF w.phase = "Pending"
                               THEN thread[s].state = "Blocked" /\ (w.join # NoClaim => ValidClaim(w.join))
                               ELSE thread[s].state \in {"Ready", "Running"}
      BY DEF InterlockOwned
    <2>1. PICK w \in waits : Waited(s, w)
      BY DEF CInv, WInv, Interlocked
    <2>2. WaitsOf(s) = {w}
      BY <2>1 DEF WaitsOf, Waited, CInv, WInv, KeysUnique
    <2>3. ASSUME w.join # NoClaim PROVE ValidClaim(w.join)
      <3>1. thread[s].outgoing = w.join
        BY <2>1 DEF Waited
      <3>2. /\ w.join.caller = Id(s) /\ Retained(w.join.target)
            /\ Rec(w.join.target).incoming = w.join
        BY <2>3, <3>1 DEF CInv, TInv, NoDangling, JoinPaired
      <3> QED BY <3>1, <3>2, SMTT(20) DEF ValidClaim, Retained, Rec, Id
    <2> QED BY <2>1, <2>2, <2>3 DEF Waited
  <1> QED BY <1>1, InitCInv, StepCInv, PTL DEF ControlSpec

(***************************************************************************)
(* Joins that race with deadlines, stops, exits and the reuse of slots     *)
(* deliver the result of every thread lifetime at most once, and never     *)
(* mark a thread joined whose result nobody received.                      *)
(***************************************************************************)
THEOREM ResultDeliveredOnce == ControlSpec => []DeliveredOnce
  <1>1. CInv => DeliveredOnce
    BY DEF CInv, Counted, Gone, DeliveredOnce
  <1> QED BY <1>1, InitCInv, StepCInv, PTL DEF ControlSpec

(***************************************************************************)
(* The table under join and sleep keeps every relation between threads.    *)
(***************************************************************************)
THEOREM ControlKeepsRelations == ControlSpec => []NoDangling
  <1>1. CInv => NoDangling
    BY DEF CInv, TInv
  <1> QED BY <1>1, InitCInv, StepCInv, PTL DEF ControlSpec

\* What ExpiredWins says of one step.
Expiry ==
    \A w \in waits : \A v \in waits' :
        /\ w.caller = v.caller /\ w.seq = v.seq
        /\ w.phase = "Pending" /\ v.phase # "Pending"
        => IF Due(w.options, Rec(w.caller).stop) = "None" THEN v.phase = "Joined"
           ELSE /\ v.phase = Due(w.options, Rec(w.caller).stop)
                /\ w.join # NoClaim =>
                     /\ thread'[w.join.target.slot].incoming = NoClaim
                     /\ deliveries' = deliveries

\* A step that selects no outcome.
LEMMA NothingExpires ==
  ASSUME CInv, \A v \in waits' : v \in waits \/ v.phase = "Pending"
  PROVE  Expiry
  BY DEF CInv, WInv, KeysUnique, Expiry

LEMMA StepExpiry == CInv /\ [ControlNext]_vars => Expiry
  <1> SUFFICES ASSUME CInv, [ControlNext]_vars PROVE Expiry
    OBVIOUS
  <1>1. CASE UNCHANGED waits
    BY <1>1, NothingExpires
  <1>2. ASSUME NEW caller \in Ids, NEW options \in Options, NEW th, NEW claim, Admit(th, caller, claim, options)
        PROVE  Expiry
    <2>1. \A v \in waits' : v \in waits \/ v.phase = "Pending"
      BY <1>2, SMTT(20) DEF Admit
    <2> QED BY <2>1, NothingExpires
  <1>3. CASE \E caller, target \in Ids : \E options \in Options : Join(caller, target, options)
    BY <1>1, <1>2, <1>3 DEF Join, JoinNow, JoinWait
  <1>4. CASE \E caller \in Ids : \E options \in Options : Sleep(caller, options)
    BY <1>2, <1>4 DEF Sleep
  <1>5. CASE \E x \in waits : Finish(x)
    BY <1>5, NothingExpires DEF Finish
  <1>6. ASSUME NEW x \in waits, Observe(x) PROVE Expiry
    <2>1. PICK outcome \in Outcomes :
               LET due == Due(x.options, Rec(x.caller).stop)
               IN  /\ waits' = (waits \ {x}) \cup {Ended(x, outcome)}
                   /\ IF due = "None" THEN outcome = "Joined"
                      ELSE /\ outcome = due
                           /\ x.join # NoClaim => /\ thread'[x.join.target.slot].incoming = NoClaim
                                                  /\ deliveries' = deliveries
      BY <1>6, ObserveKeepsCInv
    <2>2. /\ Ended(x, outcome).caller = x.caller /\ Ended(x, outcome).seq = x.seq
          /\ Ended(x, outcome).phase = outcome
      BY EndedIs DEF CInv, WInv
    <2> SUFFICES ASSUME NEW w \in waits, NEW v \in waits', w.caller = v.caller, w.seq = v.seq,
                        w.phase = "Pending", v.phase # "Pending"
                 PROVE  IF Due(w.options, Rec(w.caller).stop) = "None" THEN v.phase = "Joined"
                        ELSE /\ v.phase = Due(w.options, Rec(w.caller).stop)
                             /\ w.join # NoClaim =>
                                  /\ thread'[w.join.target.slot].incoming = NoClaim
                                  /\ deliveries' = deliveries
      BY DEF Expiry
    <2>3. v = Ended(x, outcome)
      BY <2>1 DEF CInv, WInv, KeysUnique
    <2>4. w = x
      BY <2>2, <2>3 DEF CInv, WInv, KeysUnique
    <2> QED BY <2>1, <2>2, <2>3, <2>4
  <1>7. CASE Lifecycle \/ Tick \/ UNCHANGED vars \/ \E id \in Ids : ReapThread(id)
    BY <1>1, <1>7 DEF Lifecycle, Tick, ReapThread, vars, controlVars
  <1> QED BY <1>3, <1>4, <1>5, <1>6, <1>7 DEF ControlNext

(***************************************************************************)
(* Whatever races with it, an observation that ends a wait finds the       *)
(* deadline before the stop and both before the target's result, and then  *)
(* the join right is back with the target and nothing was delivered.       *)
(***************************************************************************)
THEOREM DeadlineComesFirst == ControlSpec => ExpiredWins
  <1>1. []CInv /\ [][ControlNext]_vars => [][Expiry]_vars
    BY StepExpiry, PTL
  <1> QED BY <1>1, InitCInv, StepCInv, PTL DEF ControlSpec, ExpiredWins, Expiry
=============================================================================
