-------------------------- MODULE CallChainProofs --------------------------
(***************************************************************************)
(* Non-reentrancy of the call chain table for every number of tasks and    *)
(* records.  chain_of skips its scan when the counter of live chains is    *)
(* zero, so non-reentrancy is inductive only together with the exactness   *)
(* of that counter.                                                        *)
(***************************************************************************)
EXTENDS CallChain, FiniteSetTheorems, SequenceTheorems, WellFoundedInduction, TLAPS

IInv == TypeOK /\ NotReentrant /\ LiveExact /\ Bounded

Occupied == {s \in Slots : chains[s] # << >>}

LEMMA SlotsFinite == IsFiniteSet(Slots) /\ NoSlot \notin Slots
  <1>1. IsFiniteSet(Slots)
    BY CapacityAssumption, FS_Interval DEF Slots
  <1>2. NoSlot \notin Slots
    BY CapacityAssumption DEF Slots, NoSlot
  <1> QED BY <1>1, <1>2, Zenon

\* chain_of answers the one record that holds the task, or none at all.
LEMMA ChainOfCorrect ==
  ASSUME IInv, NEW t \in Task
  PROVE  /\ ChainOf(t) \in Slots \cup {NoSlot}
         /\ ChainOf(t) \in Slots => t \in Members(ChainOf(t))
         /\ ChainOf(t) = NoSlot => \A s \in Slots : t \notin Members(s)
  <1>1. live = 0 => \A s \in Slots : chains[s] = << >>
    <2> SUFFICES ASSUME live = 0 PROVE Occupied = {}
      BY Zenon DEF Occupied
    <2>1. IsFiniteSet(Occupied)
      BY SlotsFinite, FS_Subset, Zenon DEF Occupied
    <2>2. Cardinality(Occupied) = 0
      BY Zenon DEF IInv, LiveExact, Occupied
    <2> QED BY <2>1, <2>2, FS_EmptySet, Zenon
  <1>2. live = 0 => \A s \in Slots : Members(s) = {}
    BY <1>1 DEF Members
  <1>3. CASE live = 0
    BY <1>2, <1>3, SlotsFinite, Zenon DEF ChainOf
  <1>4. CASE live # 0 /\ Holding(t) = {}
    BY <1>4, SlotsFinite, Zenon DEF ChainOf, Holding
  <1>5. CASE live # 0 /\ Holding(t) # {}
    <2>1. PICK s \in Slots : t \in Members(s)
      BY <1>5, Zenon DEF Holding
    <2>2. \A r \in Holding(t) : r = s
      BY <2>1, Zenon DEF Holding, Members, IInv, NotReentrant
    <2>3. Holding(t) = {s}
      BY <2>1, <2>2, Zenon DEF Holding
    <2>4. s <= s
      BY <2>1, CapacityAssumption DEF Slots
    <2>5. FirstOf(Holding(t)) = s
      BY <2>3, <2>4, Zenon DEF FirstOf
    <2> QED BY <1>5, <2>1, <2>5, SlotsFinite, Zenon DEF ChainOf
  <1> QED BY <1>3, <1>4, <1>5, Zenon

\* A record is taken: the counter follows.
LEMMA OccupyCounts ==
  ASSUME IInv, NEW s \in Slots, chains[s] = << >>, NEW q \in Seq(Task), q # << >>,
         chains' = [chains EXCEPT ![s] = q], live' = live + 1
  PROVE  LiveExact'
  <1>1. Occupied' = Occupied \cup {s} /\ s \notin Occupied
    BY Zenon DEF IInv, TypeOK, Occupied
  <1>2. IsFiniteSet(Occupied)
    BY SlotsFinite, FS_Subset, Zenon DEF Occupied
  <1>3. Cardinality(Occupied') = Cardinality(Occupied) + 1
    BY <1>1, <1>2, FS_AddElement, Zenon
  <1> QED BY <1>3, Zenon DEF IInv, LiveExact, Occupied

\* A record is released: the counter follows, and stays a natural number.
LEMMA ReleaseCounts ==
  ASSUME IInv, NEW s \in Slots, chains[s] # << >>,
         chains' = [chains EXCEPT ![s] = << >>], live' = live - 1
  PROVE  LiveExact' /\ live' \in Nat
  <1>1. Occupied' = Occupied \ {s} /\ s \in Occupied
    BY Zenon DEF IInv, TypeOK, Occupied
  <1>2. IsFiniteSet(Occupied)
    BY SlotsFinite, FS_Subset, Zenon DEF Occupied
  <1>3. Cardinality(Occupied') = Cardinality(Occupied) - 1 /\ IsFiniteSet(Occupied')
    BY <1>1, <1>2, FS_RemoveElement, Zenon
  <1>4. Cardinality(Occupied') \in Nat
    BY <1>3, FS_CardinalityType, Zenon
  <1> QED BY <1>3, <1>4, Zenon DEF IInv, LiveExact, Occupied

\* A record that stays occupied leaves the counter alone.
LEMMA KeepCounts ==
  ASSUME IInv, NEW s \in Slots, chains[s] # << >>, NEW q \in Seq(Task), q # << >>,
         chains' = [chains EXCEPT ![s] = q], live' = live
  PROVE  LiveExact'
  <1>1. Occupied' = Occupied
    BY Zenon DEF IInv, TypeOK, Occupied
  <1> QED BY <1>1, Zenon DEF IInv, LiveExact, Occupied

LEMMA RejectKeepsIInv ==
  ASSUME IInv, NEW error \in Errors, Reject(error)
  PROVE  IInv'
  BY DEF IInv, TypeOK, NotReentrant, LiveExact, Bounded, Reject, Members

LEMMA ReleaseKeepsIInv ==
  ASSUME IInv, NEW s \in Slots, chains[s] # << >>,
         chains' = [chains EXCEPT ![s] = << >>], live' = live - 1,
         reply' \in {"Unwound", "Detached"}
  PROVE  IInv'
  <1>1. LiveExact' /\ live' \in Nat
    BY ReleaseCounts, Zenon
  <1>2. TypeOK'
    BY <1>1 DEF IInv, TypeOK
  <1>3. NotReentrant'
    BY DEF IInv, TypeOK, NotReentrant
  <1>4. Bounded'
    BY Zenon DEF IInv, TypeOK, Bounded
  <1> QED BY <1>1, <1>2, <1>3, <1>4, Zenon DEF IInv

LEMMA ExtendKeepsIInv ==
  ASSUME IInv, NEW s \in Slots, NEW caller \in Task, NEW target \in Task,
         chains[s] # << >>, \A r \in Slots : target \notin Members(r),
         Extend(s, caller, target)
  PROVE  IInv'
  <1>1. CASE Reject("Busy") \/ Reject("Exhausted")
    BY <1>1, RejectKeepsIInv, Zenon DEF Errors
  <1>2. CASE /\ Len(chains[s]) < MaxMembers
             /\ chains' = [chains EXCEPT ![s] = Append(@, target)]
             /\ reply' = "Entered"
             /\ UNCHANGED live
    <2> DEFINE q == Append(chains[s], target)
    <2>1. /\ q \in Seq(Task)
          /\ Len(q) = Len(chains[s]) + 1
          /\ q # << >>
          /\ DOMAIN q = 1 .. Len(chains[s]) + 1
          /\ \A k \in 1 .. Len(chains[s]) : q[k] = chains[s][k]
          /\ q[Len(chains[s]) + 1] = target
      BY DEF IInv, TypeOK
    <2>2. chains' = [chains EXCEPT ![s] = q]
      BY <1>2, Zenon
    <2> HIDE DEF q
    <2>3. LiveExact'
      BY <1>2, <2>1, <2>2, KeepCounts, Zenon
    <2>4. TypeOK'
      BY <1>2, <2>1, <2>2, Zenon DEF IInv, TypeOK
    <2>5. NotReentrant'
      <3> SUFFICES ASSUME NEW a \in Slots, NEW b \in Slots,
                          NEW j \in DOMAIN chains'[a], NEW k \in DOMAIN chains'[b],
                          chains'[a][j] = chains'[b][k]
                   PROVE  a = b /\ j = k
        BY Zenon DEF NotReentrant
      <3>1. \A r \in Slots : \A i \in DOMAIN chains[r] : chains[r][i] # target
        BY Zenon DEF Members
      <3>2. /\ chains'[s] = q
            /\ \A r \in Slots : r # s => chains'[r] = chains[r]
            /\ DOMAIN chains[s] = 1 .. Len(chains[s])
            /\ Len(chains[s]) \in Nat
        BY <2>2 DEF IInv, TypeOK
      <3>3. CASE a = s /\ b = s
        <4>1. /\ j \in 1 .. Len(chains[s]) + 1 /\ k \in 1 .. Len(chains[s]) + 1
              /\ q[j] = q[k]
          BY <2>1, <3>2, <3>3, Zenon
        <4>2. \A i \in 1 .. Len(chains[s]) : q[i] # target
          BY <2>1, <3>1, <3>2
        <4>3. CASE j \in 1 .. Len(chains[s]) /\ k \in 1 .. Len(chains[s])
          BY <2>1, <3>2, <3>3, <4>1, <4>3 DEF IInv, NotReentrant
        <4>4. CASE j = Len(chains[s]) + 1 \/ k = Len(chains[s]) + 1
          BY <2>1, <3>2, <3>3, <4>1, <4>2, <4>4
        <4> QED BY <3>2, <4>1, <4>3, <4>4
      <3>4. CASE a # s /\ b # s
        BY <3>2, <3>4 DEF IInv, NotReentrant
      <3>5. CASE a = s /\ b # s
        BY <2>1, <3>1, <3>2, <3>5 DEF IInv, NotReentrant
      <3>6. CASE a # s /\ b = s
        BY <2>1, <3>1, <3>2, <3>6 DEF IInv, NotReentrant
      <3> QED BY <3>3, <3>4, <3>5, <3>6, Zenon
    <2>6. Bounded'
      BY <1>2, <2>1, <2>2, MaxMembersAssumption DEF IInv, TypeOK, Bounded
    <2> QED BY <2>3, <2>4, <2>5, <2>6, Zenon DEF IInv
  <1> QED BY <1>1, <1>2, Zenon DEF Extend

LEMMA BeginKeepsIInv ==
  ASSUME IInv, NEW caller \in Task, NEW target \in Task, caller # target,
         \A r \in Slots : caller \notin Members(r) /\ target \notin Members(r),
         Begin(caller, target)
  PROVE  IInv'
  <1>1. CASE Reject("Exhausted")
    BY <1>1, RejectKeepsIInv, Zenon DEF Errors
  <1>2. ASSUME NEW s \in Free,
               chains' = [chains EXCEPT ![s] = <<caller, target>>],
               live' = live + 1, reply' = "Entered"
        PROVE  IInv'
    <2>1. s \in Slots /\ chains[s] = << >>
      BY Zenon DEF Free
    <2>2. <<caller, target>> \in Seq(Task) /\ <<caller, target>> # << >>
      OBVIOUS
    <2>3. LiveExact'
      BY <1>2, <2>1, <2>2, OccupyCounts, Zenon
    <2>4. TypeOK'
      BY <1>2, <2>1, <2>2 DEF IInv, TypeOK
    <2>5. NotReentrant'
      BY <1>2, <2>1 DEF IInv, TypeOK, NotReentrant, Members
    <2>6. Bounded'
      BY <1>2, <2>1, MaxMembersAssumption DEF IInv, TypeOK, Bounded
    <2> QED BY <2>3, <2>4, <2>5, <2>6, Zenon DEF IInv
  <1> QED BY <1>1, <1>2, Zenon DEF Begin

LEMMA EnterKeepsIInv ==
  ASSUME IInv, NEW caller \in Task, NEW target \in Task, Enter(caller, target)
  PROVE  IInv'
  <1>1. CASE Reject("Deadlock") \/ Reject("Busy")
    BY <1>1, RejectKeepsIInv, Zenon DEF Errors
  <1>2. CASE /\ ChainOf(target) = NoSlot /\ ChainOf(caller) # NoSlot
             /\ Extend(ChainOf(caller), caller, target)
    <2>1. ChainOf(caller) \in Slots /\ caller \in Members(ChainOf(caller))
      BY <1>2, ChainOfCorrect, Zenon
    <2>2. chains[ChainOf(caller)] # << >>
      BY <2>1 DEF Members
    <2>3. \A r \in Slots : target \notin Members(r)
      BY <1>2, ChainOfCorrect, Zenon
    <2> QED BY <1>2, <2>1, <2>2, <2>3, ExtendKeepsIInv, Zenon
  <1>3. CASE /\ caller # target
             /\ ChainOf(target) = NoSlot /\ ChainOf(caller) = NoSlot
             /\ Begin(caller, target)
    BY <1>3, ChainOfCorrect, BeginKeepsIInv, Zenon
  <1> QED BY <1>1, <1>2, <1>3, Zenon DEF Enter

LEMMA UnwindKeepsIInv ==
  ASSUME IInv, NEW member \in Task, Unwind(member)
  PROVE  IInv'
  <1> DEFINE s == ChainOf(member)
             rest == Len(chains[s]) - 1
  <1>1. CASE Reject("NotActive")
    BY <1>1, RejectKeepsIInv, Zenon DEF Errors
  <1>2. ASSUME s # NoSlot
        PROVE  s \in Slots /\ chains[s] # << >>
    BY <1>2, ChainOfCorrect DEF Members
  <1>3. CASE /\ s # NoSlot /\ reply' = "Unwound"
             /\ chains' = [chains EXCEPT ![s] = << >>] /\ live' = live - 1
    BY <1>2, <1>3, ReleaseKeepsIInv, Zenon
  <1>4. CASE /\ s # NoSlot /\ rest > 1 /\ reply' = "Unwound"
             /\ chains' = [chains EXCEPT ![s] = SubSeq(@, 1, rest)] /\ UNCHANGED live
    <2> DEFINE q == SubSeq(chains[s], 1, rest)
    <2>1. chains[s] \in Seq(Task) /\ Len(chains[s]) \in Nat
      BY <1>2, <1>4 DEF IInv, TypeOK
    <2>2. /\ q \in Seq(Task)
          /\ Len(q) = rest
          /\ \A k \in 1 .. rest : q[k] = chains[s][k]
      BY <1>4, <2>1, SubSeqProperties
    <2>4. chains' = [chains EXCEPT ![s] = q]
      BY <1>4, Zenon
    <2> HIDE DEF q
    <2>3. q # << >> /\ DOMAIN q = 1 .. rest
      BY <1>4, <2>1, <2>2
    <2>5. LiveExact'
      BY <1>2, <1>4, <2>2, <2>3, <2>4, KeepCounts, Zenon
    <2>6. TypeOK'
      BY <1>2, <1>4, <2>2, <2>4, Zenon DEF IInv, TypeOK
    <2>7. NotReentrant'
      BY <1>2, <1>4, <2>1, <2>2, <2>3, <2>4 DEF IInv, TypeOK, NotReentrant
    <2>8. Bounded'
      BY <1>2, <1>4, <2>1, <2>2, <2>4, MaxMembersAssumption DEF IInv, TypeOK, Bounded
    <2> QED BY <2>5, <2>6, <2>7, <2>8, Zenon DEF IInv
  <1>5. rest \in Int \/ s = NoSlot
    BY <1>2 DEF IInv, TypeOK
  <1> QED BY <1>1, <1>3, <1>4, <1>5 DEF Unwind

LEMMA DetachKeepsIInv ==
  ASSUME IInv, NEW member \in Task, Detach(member)
  PROVE  IInv'
  <1>1. CASE Reject("NotActive")
    BY <1>1, RejectKeepsIInv, Zenon DEF Errors
  <1>2. CASE /\ ChainOf(member) # NoSlot /\ reply' = "Detached"
             /\ chains' = [chains EXCEPT ![ChainOf(member)] = << >>]
             /\ live' = live - 1
    <2>1. ChainOf(member) \in Slots /\ chains[ChainOf(member)] # << >>
      BY <1>2, ChainOfCorrect DEF Members
    <2> QED BY <1>2, <2>1, ReleaseKeepsIInv, Zenon
  <1> QED BY <1>1, <1>2, Zenon DEF Detach

LEMMA InitIInv == Init => IInv
  <1> SUFFICES ASSUME Init PROVE IInv
    BY Zenon
  <1>1. TypeOK /\ NotReentrant /\ Bounded
    BY DEF Init, TypeOK, NotReentrant, Bounded
  <1>2. {s \in Slots : chains[s] # << >>} = {}
    BY Zenon DEF Init
  <1>3. LiveExact
    BY <1>2, FS_EmptySet, Zenon DEF Init, LiveExact
  <1> QED BY <1>1, <1>3, Zenon DEF IInv

LEMMA StepIInv == IInv /\ [Next]_vars => IInv'
  <1> SUFFICES ASSUME IInv, [Next]_vars PROVE IInv'
    BY Zenon
  <1>1. CASE UNCHANGED vars
    BY <1>1 DEF IInv, TypeOK, NotReentrant, LiveExact, Bounded, vars
  <1>2. CASE Next
    BY <1>2, EnterKeepsIInv, UnwindKeepsIInv, DetachKeepsIInv, Zenon DEF Next
  <1> QED BY <1>1, <1>2, Zenon

(***************************************************************************)
(* Whatever the tasks call, in whatever order calls are admitted, answered *)
(* and abandoned, no task takes part twice in the chain table.             *)
(***************************************************************************)
THEOREM NeverReentrant == Spec => [](NotReentrant /\ LiveExact /\ Bounded)
  <1>1. IInv => NotReentrant /\ LiveExact /\ Bounded
    BY Zenon DEF IInv
  <1> QED BY <1>1, InitIInv, StepIInv, PTL DEF Spec

-----------------------------------------------------------------------------
(***************************************************************************)
(* The table implements the call graph.  The calls in progress are the     *)
(* pairs of neighbours of every chain; non-reentrancy makes a chain a      *)
(* connected component of that graph.                                      *)
(***************************************************************************)

LEMMA ChainType ==
  ASSUME IInv, NEW s \in Slots
  PROVE  /\ chains[s] \in Seq(Task) /\ Len(chains[s]) \in Nat
         /\ DOMAIN chains[s] = 1 .. Len(chains[s])
         /\ \A k \in 1 .. Len(chains[s]) : chains[s][k] \in Task
         /\ chains[s] # << >> => Len(chains[s]) >= 2
  BY MaxMembersAssumption DEF IInv, TypeOK, Bounded

\* A call in progress joins two neighbours of one chain.
LEMMA CallIsPair ==
  ASSUME IInv, NEW p \in Calls
  PROVE  \E s \in Slots : \E k \in 1 .. Len(chains[s]) - 1 :
            /\ p = <<chains[s][k], chains[s][k + 1]>>
            /\ k \in DOMAIN chains[s] /\ k + 1 \in DOMAIN chains[s]
  <1>1. PICK s \in Slots : p \in CallsOf(s)
    BY Zenon DEF Calls
  <1>2. PICK k \in 1 .. Len(chains[s]) - 1 : p = <<chains[s][k], chains[s][k + 1]>>
    BY <1>1, Zenon DEF CallsOf
  <1>3. k \in DOMAIN chains[s] /\ k + 1 \in DOMAIN chains[s]
    BY ChainType
  <1> QED BY <1>2, <1>3, Zenon

\* A member of no chain takes part in no call.
LEMMA FreeNotEngaged ==
  ASSUME IInv, NEW t, \A s \in Slots : t \notin Members(s)
  PROVE  ~Graph!Engaged(t) /\ ~Graph!Blocked(t)
  <1>1. ASSUME NEW p \in Calls PROVE t # p[1] /\ t # p[2]
    <2>1. PICK s \in Slots : \E k \in 1 .. Len(chains[s]) - 1 :
            /\ p = <<chains[s][k], chains[s][k + 1]>>
            /\ k \in DOMAIN chains[s] /\ k + 1 \in DOMAIN chains[s]
      BY CallIsPair, Zenon
    <2> QED BY <2>1 DEF Members
  <1> QED BY <1>1, Zenon DEF Graph!Engaged, Graph!Blocked

\* The active member of a chain waits for nobody.
LEMMA ActiveNotBlocked ==
  ASSUME IInv, NEW s \in Slots, chains[s] # << >>
  PROVE  ~Graph!Blocked(Active(s))
  <1>1. Len(chains[s]) \in DOMAIN chains[s]
    BY ChainType
  <1>2. ASSUME NEW p \in Calls PROVE p[1] # Active(s)
    <2>1. PICK r \in Slots : \E k \in 1 .. Len(chains[r]) - 1 :
            /\ p = <<chains[r][k], chains[r][k + 1]>>
            /\ k \in DOMAIN chains[r] /\ k + 1 \in DOMAIN chains[r]
      BY CallIsPair, Zenon
    <2>2. PICK k \in 1 .. Len(chains[r]) - 1 : p[1] = chains[r][k] /\ k \in DOMAIN chains[r]
      BY <2>1
    <2>3. k # Len(chains[r])
      BY ChainType
    <2> QED BY <1>1, <2>2, <2>3 DEF Active, IInv, NotReentrant
  <1> QED BY <1>2, Zenon DEF Graph!Blocked

\* Two chains have no call in common.
LEMMA ChainsApart ==
  ASSUME IInv, NEW s \in Slots, NEW r \in Slots, s # r, NEW p \in CallsOf(s)
  PROVE  p \notin CallsOf(r) /\ p[1] \notin Members(r)
  <1>1. PICK k \in 1 .. Len(chains[s]) - 1 : p = <<chains[s][k], chains[s][k + 1]>>
    BY Zenon DEF CallsOf
  <1>2. k \in DOMAIN chains[s]
    BY ChainType
  <1>3. p[1] \notin Members(r)
    BY <1>1, <1>2, Zenon DEF Members, IInv, NotReentrant
  <1>4. \A j \in 1 .. Len(chains[r]) - 1 : j \in DOMAIN chains[r]
    BY ChainType
  <1>5. p \notin CallsOf(r)
    BY <1>3, <1>4 DEF CallsOf, Members
  <1> QED BY <1>3, <1>5, Zenon

Replaced(s, q) == chains' = [chains EXCEPT ![s] = q]

Pairs(q) == {<<q[k], q[k + 1]>> : k \in 1 .. Len(q) - 1}

\* What a step does to one chain is all it does to the calls.
LEMMA CallsFrame ==
  ASSUME IInv, NEW s \in Slots, NEW q, Replaced(s, q),
         NEW gone, NEW new,
         Pairs(q) = (CallsOf(s) \ gone) \cup new,
         gone \subseteq CallsOf(s)
  PROVE  Calls' = (Calls \ gone) \cup new
  <1>1. CallsOf(s)' = (CallsOf(s) \ gone) \cup new
    <2>1. chains'[s] = q
      BY Zenon DEF IInv, TypeOK, Replaced
    <2>2. CallsOf(s)' = Pairs(q)
      BY <2>1, Zenon DEF CallsOf, Pairs
    <2> QED BY <2>2, Zenon
  <1>2. \A r \in Slots \ {s} : CallsOf(r)' = CallsOf(r)
    BY Zenon DEF CallsOf, IInv, TypeOK, Replaced
  <1>3. \A r \in Slots \ {s} : CallsOf(r) \cap gone = {}
    BY ChainsApart, Zenon
  <1>4. Calls' = UNION {CallsOf(r)' : r \in Slots}
    BY Zenon DEF Calls
  <1>5. ASSUME NEW p PROVE (p \in Calls') <=> (p \in (Calls \ gone) \cup new)
    <2>1. (p \in Calls') <=> \E r \in Slots : p \in CallsOf(r)'
      BY <1>4, Zenon
    <2>2. (p \in Calls) <=> \E r \in Slots : p \in CallsOf(r)
      BY Zenon DEF Calls
    <2> QED BY <1>1, <1>2, <1>3, <2>1, <2>2, Zenon
  <1> QED BY <1>5, Zenon

LEMMA CallAdded ==
  ASSUME IInv, NEW s \in Slots, NEW q, Replaced(s, q),
         NEW p, Pairs(q) = CallsOf(s) \cup {p}
  PROVE  Calls' = Calls \cup {p}
  <1> DEFINE none == {}
             new == {p}
  <1>1. none \subseteq CallsOf(s) /\ Pairs(q) = (CallsOf(s) \ none) \cup new
    BY Zenon
  <1>2. (Calls \ none) \cup new = Calls \cup {p}
    BY Zenon
  <1> HIDE DEF none, new
  <1> QED BY <1>1, <1>2, CallsFrame

LEMMA CallEnded ==
  ASSUME IInv, NEW s \in Slots, NEW q, Replaced(s, q),
         NEW p \in CallsOf(s), Pairs(q) = CallsOf(s) \ {p}
  PROVE  Calls' = Calls \ {p}
  <1> DEFINE gone == {p}
             none == {}
  <1>1. gone \subseteq CallsOf(s) /\ Pairs(q) = (CallsOf(s) \ gone) \cup none
    BY Zenon
  <1>2. (Calls \ gone) \cup none = Calls \ {p}
    BY Zenon
  <1> HIDE DEF gone, none
  <1> QED BY <1>1, <1>2, CallsFrame

LEMMA ExtendMapped ==
  ASSUME IInv, NEW s \in Slots, NEW caller \in Task, NEW target \in Task,
         caller # target, chains[s] # << >>, \A r \in Slots : target \notin Members(r),
         Extend(s, caller, target)
  PROVE  Graph!Call(caller, target) \/ UNCHANGED Calls
  <1>1. CASE Reject("Busy") \/ Reject("Exhausted")
    BY <1>1 DEF Reject, Calls, CallsOf
  <1>2. CASE /\ Active(s) = caller
             /\ chains' = [chains EXCEPT ![s] = Append(@, target)]
    <2> DEFINE n == Len(chains[s])
               q == Append(chains[s], target)
    <2>1. n \in Nat /\ n >= 2 /\ DOMAIN chains[s] = 1 .. n
      BY ChainType, Zenon
    <2>2. Len(q) = n + 1 /\ (\A k \in 1 .. n : q[k] = chains[s][k]) /\ q[n + 1] = target
      BY ChainType
    <2>3. Replaced(s, q) /\ chains[s][n] = caller
      BY <1>2, Zenon DEF Active, Replaced
    <2> HIDE DEF q, n
    <2>4. \A k \in 1 .. Len(q) - 1 :
             \/ k \in 1 .. n - 1 /\ q[k] = chains[s][k] /\ q[k + 1] = chains[s][k + 1]
             \/ k = n /\ q[k] = caller /\ q[k + 1] = target
      BY <2>1, <2>2, <2>3
    <2>5. \A k \in 1 .. n - 1 :
             k \in 1 .. Len(q) - 1 /\ q[k] = chains[s][k] /\ q[k + 1] = chains[s][k + 1]
      BY <2>1, <2>2
    <2>6. n \in 1 .. Len(q) - 1 /\ q[n] = caller /\ q[n + 1] = target
      BY <2>1, <2>2, <2>3
    <2>7. Pairs(q) = CallsOf(s) \cup {<<caller, target>>}
      <3>1. \A k \in 1 .. Len(q) - 1 : <<q[k], q[k + 1]>> \in CallsOf(s) \cup {<<caller, target>>}
        BY <2>4, Zenon DEF CallsOf, n
      <3>2. \A k \in 1 .. n - 1 : <<chains[s][k], chains[s][k + 1]>> \in Pairs(q)
        BY <2>5, Zenon DEF Pairs
      <3>3. <<caller, target>> \in Pairs(q)
        BY <2>6, Zenon DEF Pairs
      <3> QED BY <3>1, <3>2, <3>3, Zenon DEF Pairs, CallsOf, n
    <2>8. Calls' = Calls \cup {<<caller, target>>}
      BY <2>3, <2>7, CallAdded, Zenon
    <2>9. ~Graph!Blocked(caller)
      BY <1>2, ActiveNotBlocked, Zenon
    <2> QED BY <2>8, <2>9, FreeNotEngaged, Zenon DEF Graph!Call
  <1> QED BY <1>1, <1>2, Zenon DEF Extend

LEMMA BeginMapped ==
  ASSUME IInv, NEW caller \in Task, NEW target \in Task, caller # target,
         \A r \in Slots : caller \notin Members(r) /\ target \notin Members(r),
         Begin(caller, target)
  PROVE  Graph!Call(caller, target) \/ UNCHANGED Calls
  <1>1. CASE Reject("Exhausted")
    BY <1>1 DEF Reject, Calls, CallsOf
  <1>2. ASSUME NEW s \in Free, chains' = [chains EXCEPT ![s] = <<caller, target>>]
        PROVE  Graph!Call(caller, target)
    <2> DEFINE q == <<caller, target>>
    <2>1. s \in Slots /\ CallsOf(s) = {}
      BY DEF Free, CallsOf
    <2>2. Pairs(q) = {<<caller, target>>}
      BY DEF Pairs
    <2>3. Pairs(q) = CallsOf(s) \cup {<<caller, target>>}
      BY <2>1, <2>2, Zenon
    <2> HIDE DEF q
    <2>4. Calls' = Calls \cup {<<caller, target>>}
      <3>1. Replaced(s, q)
        BY <1>2, Zenon DEF q, Replaced
      <3> QED BY <2>1, <2>3, <3>1, CallAdded, Zenon
    <2> QED BY <2>4, FreeNotEngaged, Zenon DEF Graph!Call
  <1> QED BY <1>1, <1>2, Zenon DEF Begin

LEMMA UnwindMapped ==
  ASSUME IInv, NEW member \in Task, Unwind(member)
  PROVE  Graph!Return(member) \/ UNCHANGED Calls
  <1> DEFINE s == ChainOf(member)
             n == Len(chains[s])
             p == <<chains[s][n - 1], chains[s][n]>>
  <1>1. CASE Reject("NotActive")
    BY <1>1 DEF Reject, Calls, CallsOf
  <1>2. CASE /\ s # NoSlot /\ Active(s) = member
             /\ IF n - 1 <= 1 THEN chains' = [chains EXCEPT ![s] = << >>]
                ELSE chains' = [chains EXCEPT ![s] = SubSeq(@, 1, n - 1)]
    <2>1. s \in Slots /\ chains[s] # << >>
      BY <1>2, ChainOfCorrect DEF Members
    <2>2. n \in Nat /\ n >= 2 /\ DOMAIN chains[s] = 1 .. n /\ chains[s] \in Seq(Task)
      BY <2>1, ChainType, Zenon
    <2>3. PICK q : /\ Replaced(s, q) /\ Len(q) \in Nat
                   /\ \A k \in 1 .. Len(q) - 1 : q[k] = chains[s][k] /\ q[k + 1] = chains[s][k + 1]
                   /\ Len(q) = n - 1 \/ (Len(q) = 0 /\ n = 2)
      <3>1. CASE n - 1 <= 1
        <4> HIDE DEF n
        <4>1. n = 2
          BY <2>2, <3>1
        <4> USE DEF n
        <4>2. Replaced(s, << >>)
          BY <1>2, <3>1, Zenon DEF Replaced
        <4> QED BY <4>1, <4>2
      <3>2. CASE ~(n - 1 <= 1)
        <4> DEFINE q == SubSeq(chains[s], 1, n - 1)
        <4>1. Len(q) = n - 1 /\ \A k \in 1 .. n - 1 : q[k] = chains[s][k]
          BY <2>2, <3>2, SubSeqProperties
        <4>2. Replaced(s, q)
          BY <1>2, <3>2, Zenon DEF Replaced
        <4> HIDE DEF q
        <4>3. \A k \in 1 .. Len(q) - 1 : q[k] = chains[s][k] /\ q[k + 1] = chains[s][k + 1]
          BY <2>2, <4>1
        <4> QED BY <2>2, <4>1, <4>2, <4>3
      <3> QED BY <3>1, <3>2, Zenon
    <2> HIDE DEF n
    <2>4. 1 .. Len(q) - 1 = 1 .. n - 2
      BY <2>2, <2>3
    <2>5. \A k \in 1 .. n - 1 : k \in 1 .. n - 2 \/ k = n - 1
      BY <2>2
    <2>6. n - 1 \in 1 .. n - 1 /\ n - 1 \in DOMAIN chains[s] /\ (n - 1) + 1 = n
          /\ \A k \in 1 .. n - 2 : k \in 1 .. n - 1 /\ k # n - 1 /\ k \in DOMAIN chains[s]
      BY <2>2
    <2>7. p \in CallsOf(s)
      BY <2>6, Zenon DEF CallsOf, n
    <2>8. \A k \in 1 .. n - 2 : <<chains[s][k], chains[s][k + 1]>> # p
      BY <2>1, <2>6 DEF IInv, NotReentrant
    <2> HIDE DEF p
    <2>9. Pairs(q) = CallsOf(s) \ {p}
      <3>1. Pairs(q) = {<<chains[s][k], chains[s][k + 1]>> : k \in 1 .. n - 2}
        BY <2>3, <2>4, Zenon DEF Pairs
      <3>2. CallsOf(s) = {<<chains[s][k], chains[s][k + 1]>> : k \in 1 .. n - 1}
        BY Zenon DEF CallsOf, n
      <3>3. <<chains[s][n - 1], chains[s][(n - 1) + 1]>> = p
        BY <2>6, Zenon DEF p
      <3> QED BY <2>5, <2>6, <2>8, <3>1, <3>2, <3>3, Zenon
    <2>10. Calls' = Calls \ {p}
      BY <2>1, <2>3, <2>7, <2>9, CallEnded
    <2>11. p \in Calls /\ p[2] = member
      BY <1>2, <2>1, <2>7, Zenon DEF Calls, p, Active, n
    <2>12. ~Graph!Blocked(member)
      BY <1>2, <2>1, ActiveNotBlocked, Zenon
    <2> QED BY <2>10, <2>11, <2>12, Zenon DEF Graph!Return
  <1> QED BY <1>1, <1>2, Zenon DEF Unwind

\* A non-empty set of natural numbers has a least element.
LEMMA LeastElement ==
  ASSUME NEW T, T \subseteq Nat, T # {}
  PROVE  \E x \in T : \A y \in T : x <= y
  <1> DEFINE less == OpToRel(<, Nat)
  <1>1. \A x, y \in Nat : (y < x) => <<y, x>> \in less
    BY Zenon DEF OpToRel
  <1>2. IsWellFoundedOn(less, Nat)
    BY NatLessThanWellFounded, Zenon
  <1> HIDE DEF less
  <1>3. PICK x \in T : \A y \in T : ~ (<<y, x>> \in less)
    BY <1>2, WFMin, Zenon
  <1>4. \A y \in T : ~(y < x)
    BY <1>1, <1>3, Zenon
  <1>5. \A y \in T : x <= y
    BY <1>4
  <1> QED BY <1>5, Zenon

\* What holds of one element of a sequence and passes between neighbours, both
\* ways, holds of all of them.
LEMMA Spreads ==
  ASSUME NEW n \in Nat, NEW P, NEW k \in 1 .. n, k \in P,
         \A i \in 1 .. n - 1 : (i \in P) <=> (i + 1 \in P)
  PROVE  1 .. n \subseteq P
  <1> DEFINE in == {i \in 1 .. n : i \in P}
             out == {i \in 1 .. n : i \notin P}
  <1>1. 1 \in P
    <2> HIDE DEF in
    <2>1. PICK i \in in : \A j \in in : i <= j
      <3>1. in \subseteq Nat /\ in # {}
        BY DEF in
      <3> QED BY <3>1, LeastElement, Zenon
    <2> USE DEF in
    <2>2. ASSUME i # 1 PROVE FALSE
      <3>1. i - 1 \in 1 .. n - 1 /\ (i - 1) + 1 = i
        BY <2>2
      <3>2. i - 1 \in in
        BY <3>1
      <3> QED BY <2>1, <3>2
    <2> QED BY <2>2, Zenon
  <1>2. ASSUME out # {} PROVE FALSE
    <2> HIDE DEF out
    <2>1. PICK i \in out : \A j \in out : i <= j
      <3>1. out \subseteq Nat
        BY DEF out
      <3> QED BY <1>2, <3>1, LeastElement, Zenon
    <2> USE DEF out
    <2>2. i - 1 \in 1 .. n - 1 /\ (i - 1) + 1 = i
      BY <1>1
    <2>3. i - 1 \in out
      BY <2>2
    <2> QED BY <2>1, <2>3
  <1> QED BY <1>2, Zenon

LEMMA DetachMapped ==
  ASSUME IInv, NEW member \in Task, Detach(member)
  PROVE  Graph!Kill(member) \/ UNCHANGED Calls
  <1> DEFINE s == ChainOf(member)
             n == Len(chains[s])
             S == Members(s)
  <1>1. CASE Reject("NotActive")
    BY <1>1 DEF Reject, Calls, CallsOf
  <1>2. CASE s # NoSlot /\ Replaced(s, << >>)
    <2>1. s \in Slots /\ member \in S /\ chains[s] # << >>
      BY <1>2, ChainOfCorrect DEF Members
    <2>2. n \in Nat /\ n >= 2 /\ DOMAIN chains[s] = 1 .. n /\ S \subseteq Task
      BY <2>1, ChainType, Zenon DEF Members
    <2>3. PICK k \in 1 .. n : member = chains[s][k]
      BY <2>1, <2>2, Zenon DEF Members
    <2>4. \A i \in 1 .. n - 1 : <<chains[s][i], chains[s][i + 1]>> \in Calls
      BY <2>1 DEF Calls, CallsOf
    <2> HIDE DEF n
    <2>5. Graph!Engaged(member)
      <3>1. CASE k < n
        <4>1. <<chains[s][k], chains[s][k + 1]>> \in Calls
          BY <2>2, <2>4, <3>1
        <4> QED BY <2>3, <4>1, Zenon DEF Graph!Engaged
      <3>2. CASE k = n
        <4>1. <<chains[s][k - 1], chains[s][k]>> \in Calls
          <5>1. k - 1 \in 1 .. n - 1 /\ (k - 1) + 1 = k
            BY <2>2, <3>2
          <5> QED BY <2>4, <5>1, Zenon
        <4> QED BY <2>3, <4>1, Zenon DEF Graph!Engaged
      <3> QED BY <2>2, <3>1, <3>2
    <2>6. \A p \in CallsOf(s) : p[1] \in S /\ p[2] \in S
      <3>1. \A i \in 1 .. n - 1 : i \in DOMAIN chains[s] /\ i + 1 \in DOMAIN chains[s]
        BY <2>2
      <3> QED BY <3>1 DEF CallsOf, Members, n
    <2>7. \A p \in Calls : p \notin CallsOf(s) => p[1] \notin S /\ p[2] \notin S
      <3> SUFFICES ASSUME NEW p \in Calls, p \notin CallsOf(s) PROVE p[1] \notin S /\ p[2] \notin S
        BY Zenon
      <3>1. PICK r \in Slots : p \in CallsOf(r)
        BY Zenon DEF Calls
      <3>2. PICK i \in 1 .. Len(chains[r]) - 1 : p = <<chains[r][i], chains[r][i + 1]>>
        BY <3>1, Zenon DEF CallsOf
      <3>3. i \in DOMAIN chains[r] /\ i + 1 \in DOMAIN chains[r] /\ r # s
        BY <3>1, ChainType
      <3> QED BY <2>1, <3>2, <3>3, Zenon DEF Members, IInv, NotReentrant
    <2>8. Graph!Closed(S)
      BY <2>6, <2>7, Zenon DEF Graph!Closed
    <2>9. ASSUME NEW R \in SUBSET S, member \in R, Graph!Closed(R)
          PROVE  R = S
      <3> DEFINE P == {i \in 1 .. n : chains[s][i] \in R}
      <3>1. \A i \in 1 .. n - 1 : (i \in P) <=> (i + 1 \in P)
        <4>1. \A i \in 1 .. n - 1 : (chains[s][i] \in R) <=> (chains[s][i + 1] \in R)
          BY <2>4, <2>9, Zenon DEF Graph!Closed
        <4> QED BY <2>2, <4>1
      <3>2. k \in P
        BY <2>3, <2>9, Zenon
      <3> HIDE DEF P
      <3>3. 1 .. n \subseteq P
        BY <2>2, <3>1, <3>2, Spreads, Zenon
      <3> QED BY <2>2, <3>3, Zenon DEF P, Members
    <2>10. Calls' = {p \in Calls : p[1] \notin S}
      <3>1. Pairs(<< >>) = {}
        BY DEF Pairs
      <3> DEFINE gone == CallsOf(s)
                 none == {}
      <3>2. Pairs(<< >>) = (CallsOf(s) \ gone) \cup none /\ gone \subseteq CallsOf(s)
        BY <3>1, Zenon
      <3>3. (Calls \ gone) \cup none = {p \in Calls : p[1] \notin S}
        BY <2>6, <2>7, Zenon
      <3> HIDE DEF gone, none
      <3> QED BY <1>2, <2>1, <3>2, <3>3, CallsFrame
    <2> QED BY <2>1, <2>2, <2>5, <2>8, <2>9, <2>10, Zenon DEF Graph!Kill
  <1> QED BY <1>1, <1>2, Zenon DEF Detach, Replaced

LEMMA StepMapped ==
  ASSUME IInv, [Next]_vars
  PROVE  [Graph!Next]_Calls
  <1>1. ASSUME NEW caller \in Task, NEW target \in Task, Enter(caller, target)
        PROVE  Graph!Call(caller, target) \/ UNCHANGED Calls
    <2>1. CASE Reject("Deadlock") \/ Reject("Busy")
      BY <2>1 DEF Reject, Calls, CallsOf
    <2>2. CASE /\ caller # target /\ ChainOf(target) = NoSlot /\ ChainOf(caller) # NoSlot
               /\ Extend(ChainOf(caller), caller, target)
      <3>1. ChainOf(caller) \in Slots /\ chains[ChainOf(caller)] # << >>
        BY <2>2, ChainOfCorrect DEF Members
      <3>2. \A r \in Slots : target \notin Members(r)
        BY <2>2, ChainOfCorrect, Zenon
      <3> QED BY <2>2, <3>1, <3>2, ExtendMapped, Zenon
    <2>3. CASE /\ caller # target /\ ChainOf(target) = NoSlot /\ ChainOf(caller) = NoSlot
               /\ Begin(caller, target)
      BY <2>3, ChainOfCorrect, BeginMapped, Zenon
    <2> QED BY <1>1, <2>1, <2>2, <2>3, Zenon DEF Enter
  <1>2. CASE UNCHANGED vars
    BY <1>2 DEF vars, Calls, CallsOf
  <1> QED BY <1>1, <1>2, UnwindMapped, DetachMapped, Zenon DEF Next, Graph!Next

(***************************************************************************)
(* For every number of tasks, records and members: `enter` admits a call   *)
(* only from a task that waits for nobody to a task that takes part        *)
(* nowhere, `unwind` ends exactly the running call, and `detach` ends      *)
(* exactly the calls connected to the killed task, no fewer and no more.   *)
(***************************************************************************)
THEOREM TableImplementsCallGraph == Spec => ImplementsCallGraph
  <1>1. Init => Graph!Init
    BY DEF Init, Graph!Init, Calls, CallsOf
  <1>2. IInv /\ [Next]_vars => [Graph!Next]_Calls
    BY StepMapped, Zenon
  <1> QED BY <1>1, <1>2, InitIInv, StepIInv, PTL DEF Spec, ImplementsCallGraph, Graph!Spec
=============================================================================
