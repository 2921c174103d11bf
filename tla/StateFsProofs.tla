--------------------------- MODULE StateFsProofs ---------------------------
(***************************************************************************)
(* Whatever is committed, and whenever power fails, the store recovers the *)
(* last acknowledged payload or one that was tried since.  The filesystem  *)
(* takes only steps of the store, so this carries over to its files, and   *)
(* what it shows to readers is on the medium.                              *)
(***************************************************************************)
EXTENDS StateFs, SequenceTheorems, TLAPS

\* The records that a power loss may leave in both blocks of slot s.
Both(s) == (maybe[DataBlock(s)] \cap maybe[CommitBlock(s)]) \ {Invalid}

\* The slot held in memory survives every power loss; an empty store has no
\* valid slot where it looks for one.
ActiveSurvives ==
    /\ active.payload \in safe
    /\ active.generation = 0 => active.payload = Absent /\ Both(active.slot) = {}
    /\ active.generation > 0 =>
          \A b \in {DataBlock(active.slot), CommitBlock(active.slot)} :
              maybe[b] = {[generation |-> active.generation, payload |-> active.payload]}

\* What can become valid in the other slot is older, or is the next
\* generation of a payload that was tried.
OtherKnown ==
    \A x \in Both(Target) :
        \/ x.generation < active.generation
        \/ x.generation = active.generation + 1 /\ x.payload \in safe

\* The inductive invariant.
StoreInv ==
    /\ TypeOK
    /\ \A b \in Block : view[b] \in maybe[b]
    /\ step # "Refused"
    /\ step = "Down" =>
          /\ maybe = [b \in Block |-> {view[b]}]
          /\ ~ Corrupt(view)
          /\ safe = {Recovered(view).payload}
    /\ Mounted => ActiveSurvives /\ OtherKnown
    /\ step \in Request => staged \in safe /\ active.generation < MaxGeneration
    /\ step \in {"FlushData", "WriteCommit", "FlushCommit"} => view[DataBlock(Target)] = Fresh
    /\ step = "FlushCommit" => view[CommitBlock(Target)] = Fresh

-----------------------------------------------------------------------------
\* The four block numbers.
LEMMA Blocks ==
    /\ DataBlock(0) = 0 /\ CommitBlock(0) = 1 /\ DataBlock(1) = 2 /\ CommitBlock(1) = 3
    /\ \A s \in Slot : DataBlock(s) \in Block /\ CommitBlock(s) \in Block
    /\ \A s \in Slot : 1 - s \in Slot /\ 1 - s # s
    /\ \A s, t \in Slot : DataBlock(s) # CommitBlock(t)
    /\ \A s, t \in Slot : s # t => DataBlock(s) # DataBlock(t) /\ CommitBlock(s) # CommitBlock(t)
  BY DEF DataBlock, CommitBlock, Block, Slot

\* A power loss leaves in every block one of the values it may hold.
LEMMA ImageValues ==
    ASSUME TypeOK, NEW img \in Images
    PROVE  /\ img \in [Block -> Content]
           /\ \A b \in Block : img[b] \in maybe[b]
  <1>1. PICK w \in maybe[0], x \in maybe[1], y \in maybe[2], z \in maybe[3] :
          img = [b \in Block |-> IF b = 0 THEN w ELSE IF b = 1 THEN x ELSE IF b = 2 THEN y ELSE z]
    BY DEF Images
  <1>2. \A b \in Block : img[b] \in maybe[b] /\ maybe[b] \subseteq Content
    BY <1>1 DEF Block, TypeOK
  <1> QED BY <1>1, <1>2, Zenon

\* Open finds a candidate of a valid slot, or nothing when none is valid.
LEMMA RecoveredCases ==
    ASSUME NEW img \in [Block -> Content]
    PROVE  /\ Recovered(img) \in [slot : Slot, generation : 0 .. MaxGeneration, payload : Payload]
           /\ Recovered(img).generation = 0 =>
                  Recovered(img) = Empty /\ \A s \in Slot : ~ Found(img, s)
           /\ Recovered(img).generation > 0 =>
                LET s == Recovered(img).slot
                IN  /\ Found(img, s)
                    /\ Recovered(img) = Candidate(img, s)
                    /\ Found(img, 1 - s) /\ ~ Corrupt(img) =>
                          Candidate(img, 1 - s).generation < Recovered(img).generation
  <1>1. \A s \in Slot : Found(img, s) => img[DataBlock(s)] \in Record
    BY Blocks, Zenon DEF Found, Content
  <1>2. \A s \in Slot : Found(img, s) =>
           /\ Candidate(img, s) \in [slot : Slot, generation : 1 .. MaxGeneration, payload : Payload]
           /\ Candidate(img, s).slot = s
    BY <1>1, Zenon DEF Candidate, Record
  <1>3. Empty \in [slot : Slot, generation : 0 .. MaxGeneration, payload : Payload] /\ Empty.generation = 0
    BY SlotStoreAssumption DEF Empty, Slot
  <1>4. CASE Found(img, 0) /\ Found(img, 1)
    <2>1. Candidate(img, 0).generation \in Nat /\ Candidate(img, 1).generation \in Nat
      BY <1>2, <1>4 DEF Slot
    <2>2. CASE Candidate(img, 0).generation > Candidate(img, 1).generation
      <3>1. Recovered(img) = Candidate(img, 0)
        BY <1>4, <2>2, Zenon DEF Recovered
      <3> QED BY <1>2, <1>4, <2>1, <2>2, <3>1 DEF Slot
    <2>3. CASE ~ (Candidate(img, 0).generation > Candidate(img, 1).generation)
      <3>1. Recovered(img) = Candidate(img, 1)
        BY <1>4, <2>3, Zenon DEF Recovered
      <3>2. ~ Corrupt(img) => Candidate(img, 0).generation # Candidate(img, 1).generation
        BY <1>4, Zenon DEF Corrupt, Slot
      <3> QED BY <1>2, <1>4, <2>1, <2>3, <3>1, <3>2 DEF Slot
    <2> QED BY <2>2, <2>3, Zenon
  <1>5. CASE Found(img, 0) /\ ~ Found(img, 1)
    <2>1. Recovered(img) = Candidate(img, 0)
      BY <1>5, Zenon DEF Recovered
    <2> QED BY <1>2, <1>5, <2>1 DEF Slot
  <1>6. CASE ~ Found(img, 0) /\ Found(img, 1)
    <2>1. Recovered(img) = Candidate(img, 1)
      BY <1>6, Zenon DEF Recovered
    <2> QED BY <1>2, <1>6, <2>1 DEF Slot
  <1>7. CASE ~ Found(img, 0) /\ ~ Found(img, 1)
    <2>1. Recovered(img) = Empty
      BY <1>7, Zenon DEF Recovered
    <2> QED BY <1>3, <1>7, <2>1 DEF Slot
  <1> QED BY <1>4, <1>5, <1>6, <1>7, Zenon

-----------------------------------------------------------------------------
\* A slot that is valid after a power loss holds a record that both of its
\* blocks may hold.
LEMMA FoundInBoth ==
    ASSUME TypeOK, NEW img \in Images, NEW s \in Slot, Found(img, s)
    PROVE  /\ img[DataBlock(s)] \in Both(s)
           /\ Candidate(img, s).generation = img[DataBlock(s)].generation
           /\ Candidate(img, s).payload = img[DataBlock(s)].payload
           /\ img[DataBlock(s)] \in Record
  <1>1. img[DataBlock(s)] \in maybe[DataBlock(s)] /\ img[CommitBlock(s)] \in maybe[CommitBlock(s)]
    BY ImageValues, Blocks, Zenon
  <1>2. img[DataBlock(s)] \in Content
    BY ImageValues, Blocks, Zenon
  <1> QED BY <1>1, <1>2, Zenon DEF Found, Both, Candidate, Content

\* The invariant is what recovery needs.
THEOREM InvRecovers == StoreInv => Recoverable
  <1> SUFFICES ASSUME StoreInv, NEW img \in Images
               PROVE  ~ Corrupt(img) /\ Recovered(img).payload \in safe
    BY Zenon DEF Recoverable
  <1>1. TypeOK
    BY Zenon DEF StoreInv
  <1>2. img \in [Block -> Content] /\ \A b \in Block : img[b] \in maybe[b]
    BY <1>1, ImageValues, Zenon
  <1>3. CASE step = "Down"
    <2>1. \A b \in Block : img[b] = view[b]
      BY <1>2, <1>3, Zenon DEF StoreInv
    <2>2. img = view
      BY <1>1, <1>2, <2>1 DEF TypeOK
    <2> QED BY <1>3, <2>2, Zenon DEF StoreInv
  <1>4. CASE Mounted
    <2> DEFINE a == active.slot
               n == active.generation
    <2>1. ActiveSurvives /\ OtherKnown /\ a \in Slot /\ Target = 1 - a /\ n \in 0 .. MaxGeneration
      BY <1>1, <1>4, Zenon DEF StoreInv, TypeOK, Target
    <2>2. Target \in Slot /\ Target # a /\ \A s \in Slot : s = a \/ s = Target
      BY <2>1, Blocks, Zenon DEF Slot
    <2>3. Found(img, Target) =>
             \/ Candidate(img, Target).generation < n
             \/ Candidate(img, Target).generation = n + 1 /\ Candidate(img, Target).payload \in safe
      BY <1>1, <2>1, <2>2, FoundInBoth DEF OtherKnown
    <2>4. CASE n = 0
      <3>1. ~ Found(img, a)
        BY <1>1, <2>1, <2>4, FoundInBoth, Zenon DEF ActiveSurvives
      <3>2. ~ Corrupt(img)
        BY <2>1, <3>1, Zenon DEF Corrupt
      <3>3. CASE Found(img, Target)
        <4>1. Candidate(img, Target).generation \in 1 .. MaxGeneration
          BY <1>1, <2>2, <3>3, FoundInBoth, Zenon DEF Record
        <4>2. Candidate(img, Target).payload \in safe
          BY <2>3, <2>4, <3>3, <4>1
        <4>3. Recovered(img) = Candidate(img, Target)
          BY <2>1, <2>2, <3>1, <3>3, Zenon DEF Recovered, Slot
        <4> QED BY <3>2, <4>2, <4>3, Zenon
      <3>4. CASE ~ Found(img, Target)
        <4>1. Recovered(img) = Empty
          BY <2>1, <2>2, <3>1, <3>4, Zenon DEF Recovered, Slot
        <4>2. Absent \in safe
          BY <2>1, <2>4, Zenon DEF ActiveSurvives
        <4> QED BY <3>2, <4>1, <4>2 DEF Empty
      <3> QED BY <3>3, <3>4, Zenon
    <2>5. CASE n > 0
      <3> DEFINE r == [generation |-> n, payload |-> active.payload]
      <3>1. maybe[DataBlock(a)] = {r} /\ maybe[CommitBlock(a)] = {r} /\ active.payload \in safe
        BY <2>1, <2>5, Zenon DEF ActiveSurvives
      <3>2. img[DataBlock(a)] = r /\ img[CommitBlock(a)] = r
        BY <1>2, <2>1, <3>1, Blocks, Zenon
      <3>3. r \in Record
        BY <1>1, <2>1, <2>5 DEF Record, TypeOK
      <3>4. Found(img, a) /\ Candidate(img, a).generation = n /\ Candidate(img, a).payload \in safe
        BY <3>1, <3>2, <3>3, SlotStoreAssumption DEF Found, Candidate
      <3>5. ~ Corrupt(img)
        <4>1. Found(img, Target) => Candidate(img, Target).generation # n
          BY <2>1, <2>2, <2>3, <1>1, FoundInBoth DEF Record
        <4> QED BY <2>1, <2>2, <3>4, <4>1, Zenon DEF Corrupt, Slot
      <3>6. CASE Found(img, Target)
        <4>1. Candidate(img, Target).generation \in Nat
          BY <1>1, <2>2, <3>6, FoundInBoth DEF Record
        <4>2. Recovered(img) = IF Candidate(img, Target).generation > n
                               THEN Candidate(img, Target) ELSE Candidate(img, a)
          <5>1. Candidate(img, Target).generation # n
            BY <2>1, <2>3, <3>6, <4>1
          <5>2. CASE a = 0
            <6>1. Target = 1
              BY <5>2, <2>1
            <6> QED BY <2>1, <3>4, <3>6, <4>1, <5>1, <5>2, <6>1 DEF Recovered
          <5>3. CASE a = 1
            <6>1. Target = 0
              BY <5>3, <2>1
            <6> QED BY <2>1, <3>4, <3>6, <4>1, <5>1, <5>3, <6>1, Zenon DEF Recovered
          <5> QED BY <2>1, <5>2, <5>3, Zenon DEF Slot
        <4> QED BY <2>1, <2>3, <3>4, <3>5, <3>6, <4>1, <4>2
      <3>7. CASE ~ Found(img, Target)
        <4>1. Recovered(img) = Candidate(img, a)
          BY <2>1, <2>2, <3>4, <3>7, Zenon DEF Recovered, Slot
        <4> QED BY <3>4, <3>5, <4>1, Zenon
      <3> QED BY <3>6, <3>7, Zenon
    <2> QED BY <2>1, <2>4, <2>5
  <1> QED BY <1>1, <1>3, <1>4, Zenon DEF StoreInv, Mounted, TypeOK

-----------------------------------------------------------------------------
\* A zero-filled region satisfies the invariant.
LEMMA InitInv == StoreInit => StoreInv
  <1> SUFFICES ASSUME StoreInit PROVE StoreInv
    BY Zenon
  <1>1. TypeOK
    BY SlotStoreAssumption DEF StoreInit, TypeOK, Content, Empty, Slot, Request
  <1>2. \A s \in Slot : ~ Found(view, s)
    BY Blocks, Zenon DEF StoreInit, Found
  <1>3. ~ Corrupt(view) /\ Recovered(view) = Empty
    BY <1>2, Zenon DEF Corrupt, Recovered, Slot
  <1> QED BY <1>1, <1>3 DEF StoreInv, StoreInit, Mounted, Request, Empty

\* Open: the medium is settled, so the recovered slot is the active one and the
\* other one, if it is valid, is older.
LEMMA OpenInv ==
    ASSUME StoreInv, Open
    PROVE  StoreInv'
  <1>1. TypeOK /\ step = "Down" /\ ~ Corrupt(view) /\ safe = {Recovered(view).payload}
        /\ maybe = [b \in Block |-> {view[b]}]
    BY Zenon DEF StoreInv, Open
  <1>2. step' = "Idle" /\ active' = Recovered(view)
        /\ UNCHANGED <<view, maybe, alive, staged, safe>>
    BY <1>1, Zenon DEF Open
  <1>3. view \in [Block -> Content]
    BY <1>1, Zenon DEF TypeOK
  <1>4. TypeOK'
    BY <1>1, <1>2, <1>3, RecoveredCases, Zenon DEF TypeOK
  <1>5. PICK a \in Slot : a = active'.slot /\ 1 - a \in Slot
    BY <1>2, <1>3, RecoveredCases, Blocks, Zenon
  <1>6. \A s \in Slot : \A x \in Both(s)' :
            /\ Found(view, s) /\ x = view[DataBlock(s)]
            /\ Candidate(view, s).generation = x.generation
    BY <1>1, <1>2, Blocks, Zenon DEF Both, Found, Candidate
  <1>7. ActiveSurvives'
    <2>1. active'.payload \in safe'
      BY <1>1, <1>2, Zenon
    <2>2. CASE active'.generation = 0
      <3>1. active' = Empty /\ \A s \in Slot : ~ Found(view, s)
        BY <1>2, <1>3, <2>2, RecoveredCases, Zenon
      <3>2. Both(a)' = {}
        BY <1>5, <1>6, <3>1, Zenon
      <3> QED BY <1>5, <2>1, <2>2, <3>1, <3>2 DEF ActiveSurvives, Empty
    <2>3. CASE active'.generation > 0
      <3>1. Found(view, a) /\ active' = Candidate(view, a)
        BY <1>2, <1>3, <1>5, <2>3, RecoveredCases, Zenon
      <3>2. view[DataBlock(a)] \in Record
        BY <1>3, <1>5, <3>1, Blocks, Zenon DEF Found, Content
      <3>3. view[DataBlock(a)] = [generation |-> active'.generation, payload |-> active'.payload]
        BY <3>1, <3>2, Zenon DEF Candidate, Record
      <3>4. maybe'[DataBlock(a)] = {view[DataBlock(a)]} /\ maybe'[CommitBlock(a)] = {view[DataBlock(a)]}
        BY <1>1, <1>2, <1>5, <3>1, Blocks, Zenon DEF Found
      <3> QED BY <1>5, <2>1, <2>3, <3>3, <3>4 DEF ActiveSurvives
    <2>4. active'.generation \in Nat
      BY <1>4 DEF TypeOK
    <2> QED BY <2>2, <2>3, <2>4
  <1>8. OtherKnown'
    <2> SUFFICES ASSUME NEW x \in Both(1 - a)' PROVE x.generation < active'.generation
      BY <1>5, Zenon DEF OtherKnown, Target
    <2>1. Found(view, 1 - a) /\ Candidate(view, 1 - a).generation = x.generation
      BY <1>5, <1>6, Zenon
    <2>2. active'.generation > 0
      BY <1>2, <1>3, <1>4, <1>5, <2>1, RecoveredCases DEF TypeOK
    <2> QED BY <1>1, <1>2, <1>3, <1>5, <2>1, <2>2, RecoveredCases, Zenon
  <1>9. \A b \in Block : view'[b] \in maybe'[b]
    BY <1>2, Zenon DEF StoreInv
  <1> QED BY <1>2, <1>4, <1>7, <1>8, <1>9, Zenon DEF StoreInv, Mounted, Request

\* The checks at the head of commit let the generation grow by one.
LEMMA BeginCommitInv ==
    ASSUME StoreInv, NEW p \in Payload, BeginCommit(p)
    PROVE  StoreInv'
  <1>1. TypeOK /\ Mounted /\ ActiveSurvives /\ OtherKnown /\ active.generation # MaxGeneration
    BY Zenon DEF StoreInv, BeginCommit, Mounted, Exhausted
  <1>2. step' = "WriteData" /\ staged' = p /\ safe' = safe \cup {p}
        /\ UNCHANGED <<view, maybe, alive, active>>
    BY Zenon DEF BeginCommit
  <1>3. TypeOK'
    BY <1>1, <1>2, Zenon DEF TypeOK, Request
  <1>4. ActiveSurvives'
    BY <1>1, <1>2, Zenon DEF ActiveSurvives, Both
  <1>5. OtherKnown'
    BY <1>1, <1>2, Zenon DEF OtherKnown, Both, Target
  <1>6. active'.generation < MaxGeneration
    BY <1>1, <1>2, SlotStoreAssumption DEF TypeOK
  <1>7. \A b \in Block : view'[b] \in maybe'[b]
    BY <1>2, Zenon DEF StoreInv
  <1> QED BY <1>2, <1>3, <1>4, <1>5, <1>6, <1>7, Zenon DEF StoreInv, Mounted, Request

\* Facts about the slot a commit writes.
LEMMA TargetFacts ==
    ASSUME StoreInv, step \in Request
    PROVE  /\ TypeOK /\ ActiveSurvives /\ OtherKnown
           /\ Target \in Slot /\ Target # active.slot /\ active.slot = 1 - Target
           /\ Fresh \in Record /\ Fresh # Invalid
           /\ Fresh.generation = active.generation + 1 /\ Fresh.payload = staged /\ staged \in safe
  <1>1. TypeOK /\ ActiveSurvives /\ OtherKnown /\ staged \in safe /\ active.generation < MaxGeneration
    BY Zenon DEF StoreInv, Mounted
  <1>2. Target \in Slot /\ Target # active.slot /\ active.slot = 1 - Target
    BY <1>1 DEF TypeOK, Target, Slot
  <1>3. Fresh \in Record
    BY <1>1, SlotStoreAssumption DEF TypeOK, Fresh, Record
  <1> QED BY <1>1, <1>2, <1>3, SlotStoreAssumption, Zenon DEF Fresh

\* A write of the fresh record to a block of the target slot, whether it
\* succeeds or fails, touches nothing the active slot needs, and what it makes
\* possible is the fresh record.
LEMMA DirtyPreserves ==
    ASSUME StoreInv, step \in Request,
           NEW b \in {DataBlock(Target), CommitBlock(Target)},
           NEW found \in {view[b], Fresh, Invalid},
           view' = [view EXCEPT ![b] = found],
           maybe' = Dirtied(b, Fresh),
           UNCHANGED <<active, safe>>
    PROVE  /\ view' \in [Block -> Content] /\ maybe' \in [Block -> SUBSET Content]
           /\ \A c \in Block : view'[c] \in maybe'[c]
           /\ ActiveSurvives' /\ OtherKnown'
  <1>1. TypeOK /\ ActiveSurvives /\ OtherKnown /\ Target \in Slot /\ Target # active.slot
        /\ Fresh \in Record /\ Fresh # Invalid /\ Fresh.generation = active.generation + 1
        /\ Fresh.payload \in safe /\ active.slot \in Slot
    BY TargetFacts, Zenon DEF TypeOK
  <1>2. b \in Block /\ b # DataBlock(active.slot) /\ b # CommitBlock(active.slot)
    BY <1>1, Blocks, Zenon
  <1>3. /\ view \in [Block -> Content] /\ maybe \in [Block -> SUBSET Content]
        /\ \A c \in Block : view[c] \in maybe[c]
    BY <1>1, Zenon DEF StoreInv, TypeOK
  <1>4. found \in Content /\ Fresh \in Content /\ Invalid \in Content
    BY <1>1, <1>2, <1>3, Zenon DEF Content
  <1>5. view' \in [Block -> Content] /\ maybe' \in [Block -> SUBSET Content]
    BY <1>3, <1>4, Zenon DEF Dirtied
  <1>6. \A c \in Block : view'[c] \in maybe'[c]
    BY <1>2, <1>3, Zenon DEF Dirtied
  <1>7. \A c \in Block : c # b => maybe'[c] = maybe[c]
    BY <1>3, Zenon DEF Dirtied
  <1>8. maybe'[b] = maybe[b] \cup {Fresh, Invalid}
    BY <1>2, <1>3, Zenon DEF Dirtied
  <1>9. DataBlock(active.slot) \in Block /\ CommitBlock(active.slot) \in Block
    BY <1>1, Blocks, Zenon
  <1>10. maybe'[DataBlock(active.slot)] = maybe[DataBlock(active.slot)]
         /\ maybe'[CommitBlock(active.slot)] = maybe[CommitBlock(active.slot)]
    BY <1>2, <1>7, <1>9, Zenon
  <1>11. ActiveSurvives'
    BY <1>1, <1>10, Zenon DEF ActiveSurvives, Both
  <1>12. Target' = Target
    BY Zenon DEF Target
  <1>13. OtherKnown'
    <2> SUFFICES ASSUME NEW x \in (maybe'[DataBlock(Target)] \cap maybe'[CommitBlock(Target)]) \ {Invalid}
                 PROVE  \/ x.generation < active.generation
                        \/ x.generation = active.generation + 1 /\ x.payload \in safe
      BY <1>12, Zenon DEF OtherKnown, Both
    <2>1. CASE x = Fresh
      BY <1>1, <2>1, Zenon
    <2>2. CASE x # Fresh
      <3>1. DataBlock(Target) \in Block /\ CommitBlock(Target) \in Block
        BY <1>1, Blocks, Zenon
      <3>2. x \in Both(Target)
        BY <1>7, <1>8, <2>2, <3>1 DEF Both
      <3> QED BY <1>1, <3>2, Zenon DEF OtherKnown
    <2> QED BY <2>1, <2>2, Zenon
  <1> QED BY <1>5, <1>6, <1>11, <1>13, Zenon

\* Both successful writes of commit preserve the invariant.
LEMMA WriteInv ==
    ASSUME StoreInv, WriteData \/ WriteCommit
    PROVE  StoreInv'
  <1>1. CASE WriteData
    <2> DEFINE b == DataBlock(Target)
    <2>1. step = "WriteData" /\ step \in Request /\ step' = "FlushData"
          /\ view' = [view EXCEPT ![b] = Fresh] /\ maybe' = Dirtied(b, Fresh)
          /\ UNCHANGED <<alive, active, staged, safe>>
      BY <1>1, Zenon DEF WriteData, WriteBlock, Request
    <2>2. /\ view' \in [Block -> Content] /\ maybe' \in [Block -> SUBSET Content]
          /\ \A c \in Block : view'[c] \in maybe'[c]
          /\ ActiveSurvives' /\ OtherKnown'
      BY <2>1, DirtyPreserves, Zenon
    <2>3. Target' = Target /\ Fresh' = Fresh
      BY <2>1, Zenon DEF Target, Fresh
    <2>4. view'[DataBlock(Target')] = Fresh'
      BY <2>1, <2>3, TargetFacts, Blocks, Zenon DEF TypeOK
    <2>5. TypeOK'
      BY <2>1, <2>2, Zenon DEF StoreInv, TypeOK, Request
    <2> QED BY <2>1, <2>2, <2>4, <2>5, Zenon DEF StoreInv, Request
  <1>2. CASE WriteCommit
    <2> DEFINE b == CommitBlock(Target)
    <2>1. step = "WriteCommit" /\ step \in Request /\ step' = "FlushCommit"
          /\ view' = [view EXCEPT ![b] = Fresh] /\ maybe' = Dirtied(b, Fresh)
          /\ UNCHANGED <<alive, active, staged, safe>>
      BY <1>2, Zenon DEF WriteCommit, WriteBlock, Request
    <2>2. /\ view' \in [Block -> Content] /\ maybe' \in [Block -> SUBSET Content]
          /\ \A c \in Block : view'[c] \in maybe'[c]
          /\ ActiveSurvives' /\ OtherKnown'
      BY <2>1, DirtyPreserves, Zenon
    <2>3. Target' = Target /\ Fresh' = Fresh
      BY <2>1, Zenon DEF Target, Fresh
    <2>4. view[DataBlock(Target)] = Fresh
      BY <2>1, Zenon DEF StoreInv
    <2>5. view'[CommitBlock(Target')] = Fresh' /\ view'[DataBlock(Target')] = Fresh'
      BY <2>1, <2>3, <2>4, TargetFacts, Blocks, Zenon DEF TypeOK
    <2>6. TypeOK'
      BY <2>1, <2>2, Zenon DEF StoreInv, TypeOK, Request
    <2> QED BY <2>1, <2>2, <2>5, <2>6, Zenon DEF StoreInv, Request
  <1> QED BY <1>1, <1>2, Zenon

\* After a flush a block may only hold what it already might.
LEMMA FlushShrinks ==
    ASSUME StoreInv, Flush
    PROVE  /\ view' = view
           /\ \A b \in Block : maybe'[b] = {view[b]} /\ maybe'[b] \subseteq maybe[b]
           /\ maybe' \in [Block -> SUBSET Content]
           /\ \A s \in Slot : (maybe'[DataBlock(s)] \cap maybe'[CommitBlock(s)]) \ {Invalid} \subseteq Both(s)
  <1>1. view' = view /\ maybe' = [b \in Block |-> {view[b]}]
    BY Zenon DEF Flush
  <1>2. \A b \in Block : view[b] \in maybe[b] /\ view[b] \in Content
    BY Zenon DEF StoreInv, TypeOK
  <1> QED BY <1>1, <1>2, Blocks DEF Both

\* The first flush preserves the invariant.
LEMMA FlushDataInv ==
    ASSUME StoreInv, FlushData
    PROVE  StoreInv'
  <1>1. step = "FlushData" /\ step \in Request /\ step' = "WriteCommit" /\ Flush
        /\ UNCHANGED <<alive, active, staged, safe>>
    BY Zenon DEF FlushData, Flush, Request
  <1>2. TypeOK /\ ActiveSurvives /\ OtherKnown /\ Target \in Slot /\ active.slot \in Slot
    BY <1>1, TargetFacts, Zenon DEF TypeOK
  <1>3. DataBlock(active.slot) \in Block /\ CommitBlock(active.slot) \in Block
    BY <1>2, Blocks, Zenon
  <1>4. ActiveSurvives'
    <2>1. active.generation > 0 =>
            \A b \in {DataBlock(active.slot), CommitBlock(active.slot)} : maybe'[b] = maybe[b]
      BY <1>1, <1>2, <1>3, FlushShrinks, Zenon DEF ActiveSurvives
    <2>2. (maybe'[DataBlock(active.slot)] \cap maybe'[CommitBlock(active.slot)]) \ {Invalid}
            \subseteq Both(active.slot)
      BY <1>1, <1>2, FlushShrinks, Zenon
    <2> QED BY <1>1, <1>2, <2>1, <2>2, Zenon DEF ActiveSurvives, Both
  <1>5. OtherKnown'
    <2>1. Target' = Target
      BY <1>1, Zenon DEF Target
    <2>2. (maybe'[DataBlock(Target)] \cap maybe'[CommitBlock(Target)]) \ {Invalid} \subseteq Both(Target)
      BY <1>1, <1>2, FlushShrinks, Zenon
    <2> QED BY <1>1, <1>2, <2>1, <2>2, Zenon DEF OtherKnown, Both
  <1>6. TypeOK' /\ \A b \in Block : view'[b] \in maybe'[b]
    BY <1>1, <1>2, FlushShrinks, Zenon DEF TypeOK, Request
  <1>7. view'[DataBlock(Target')] = Fresh'
    BY <1>1, FlushShrinks, Zenon DEF StoreInv, Target, Fresh
  <1> QED BY <1>1, <1>4, <1>5, <1>6, <1>7, Zenon DEF StoreInv, Request

\* The second flush settles the target slot, which becomes the active one; the
\* old active slot keeps an older generation.
LEMMA FlushCommitInv ==
    ASSUME StoreInv, FlushCommit
    PROVE  StoreInv'
  <1>1. step = "FlushCommit" /\ step \in Request /\ step' = "Idle" /\ Flush /\ UNCHANGED alive
        /\ safe' = {staged} /\ staged' = Absent
        /\ active' = [slot |-> Target, generation |-> Fresh.generation, payload |-> staged]
    BY Zenon DEF FlushCommit, Flush, Request
  <1>2. /\ TypeOK /\ ActiveSurvives /\ Target \in Slot /\ active.slot = 1 - Target
        /\ Fresh \in Record /\ Fresh.generation = active.generation + 1 /\ Fresh.payload = staged
        /\ active.slot \in Slot
    BY <1>1, TargetFacts, Zenon DEF TypeOK
  <1>3. view[DataBlock(Target)] = Fresh /\ view[CommitBlock(Target)] = Fresh
    BY <1>1, Zenon DEF StoreInv
  <1>4. active'.slot = Target /\ active'.generation = Fresh.generation /\ active'.payload = staged
    BY <1>1, Zenon
  <1>5. Fresh = [generation |-> active'.generation, payload |-> active'.payload] /\ active'.generation > 0
    BY <1>2, <1>4 DEF Record, Fresh, TypeOK
  <1>6. ActiveSurvives'
    <2>1. maybe'[DataBlock(Target)] = {Fresh} /\ maybe'[CommitBlock(Target)] = {Fresh}
      BY <1>1, <1>2, <1>3, FlushShrinks, Blocks, Zenon
    <2>2. active'.generation \in Nat
      BY <1>2, <1>4 DEF Record
    <2>3. \A b \in {DataBlock(active'.slot), CommitBlock(active'.slot)} :
             maybe'[b] = {[generation |-> active'.generation, payload |-> active'.payload]}
      BY <1>4, <1>5, <2>1, Zenon
    <2> QED BY <1>1, <1>4, <1>5, <2>2, <2>3 DEF ActiveSurvives
  <1>7. OtherKnown'
    <2>1. Target' = active.slot
      BY <1>2, <1>4, Zenon DEF Target
    <2> SUFFICES ASSUME NEW x \in (maybe'[DataBlock(active.slot)] \cap maybe'[CommitBlock(active.slot)]) \ {Invalid}
                 PROVE  x.generation < active'.generation
      BY <2>1, Zenon DEF OtherKnown, Both
    <2>2. x \in Both(active.slot)
      BY <1>1, <1>2, FlushShrinks, Zenon
    <2>3. active.generation \in Nat /\ active.generation # 0
      BY <1>2, <2>2 DEF ActiveSurvives, TypeOK
    <2>4. x = [generation |-> active.generation, payload |-> active.payload]
      BY <1>2, <2>2, <2>3 DEF ActiveSurvives, Both
    <2> QED BY <1>2, <1>4, <2>3, <2>4
  <1>8. TypeOK' /\ \A b \in Block : view'[b] \in maybe'[b]
    <2>1. active' \in [slot : Slot, generation : 0 .. MaxGeneration, payload : Payload]
      BY <1>1, <1>2 DEF Record, TypeOK
    <2> QED BY <1>1, <1>2, <2>1, FlushShrinks, SlotStoreAssumption, Zenon DEF TypeOK, Request
  <1> QED BY <1>1, <1>6, <1>7, <1>8, Zenon DEF StoreInv, Request

\* A failed request preserves it, although the block may hold anything tried.
LEMMA CommitErrorInv ==
    ASSUME StoreInv, CommitError
    PROVE  StoreInv'
  <1>1. step \in Request /\ step' = "Idle" /\ staged' = Absent /\ UNCHANGED <<active, safe>>
    BY Zenon DEF CommitError, Request
  <1>2. TypeOK /\ ActiveSurvives /\ OtherKnown /\ staged \in Payload
    BY <1>1, TargetFacts, Zenon DEF TypeOK
  <1>3. /\ view' \in [Block -> Content] /\ maybe' \in [Block -> SUBSET Content]
        /\ \A c \in Block : view'[c] \in maybe'[c]
        /\ ActiveSurvives' /\ OtherKnown' /\ alive' \in BOOLEAN
    <2>1. CASE UNCHANGED <<view, maybe>> /\ alive' \in {FALSE, alive}
      BY <1>1, <1>2, <2>1, Zenon DEF StoreInv, TypeOK, ActiveSurvives, OtherKnown, Both, Target
    <2>2. CASE \E b \in {DataBlock(Target), CommitBlock(Target)} : alive /\ WriteError(b, Fresh)
      <3>1. PICK b \in {DataBlock(Target), CommitBlock(Target)} : alive /\ WriteError(b, Fresh)
        BY <2>2, Zenon
      <3>2. PICK found \in {view[b], Fresh, Invalid} : view' = [view EXCEPT ![b] = found]
        BY <3>1, Zenon DEF WriteError
      <3>3. maybe' = Dirtied(b, Fresh) /\ alive' \in BOOLEAN
        BY <1>2, <3>1, Zenon DEF WriteError, TypeOK
      <3> QED BY <1>1, <3>2, <3>3, DirtyPreserves, Zenon
    <2> QED BY <2>1, <2>2, Zenon DEF CommitError, WriteError, FlushError
  <1>4. TypeOK'
    BY <1>1, <1>2, <1>3, SlotStoreAssumption, Zenon DEF TypeOK, Request
  <1> QED BY <1>1, <1>3, <1>4, Zenon DEF StoreInv, Request

\* Power fails: by InvRecovers the medium it leaves is not refused, and it is
\* settled.
LEMMA PowerLossInv ==
    ASSUME StoreInv, PowerLoss
    PROVE  StoreInv'
  <1>1. PICK img \in Images :
          view' = img /\ maybe' = [b \in Block |-> {img[b]}] /\ safe' = {Recovered(img).payload}
    BY Zenon DEF PowerLoss
  <1>2. TypeOK /\ Recoverable
    BY InvRecovers, Zenon DEF StoreInv
  <1>3. img \in [Block -> Content] /\ ~ Corrupt(img)
    BY <1>2, ImageValues, Zenon DEF Recoverable
  <1>4. step' = "Down" /\ active' = Empty /\ alive' = TRUE /\ staged' = Absent
    BY Zenon DEF PowerLoss
  <1>5. TypeOK'
    BY <1>1, <1>3, <1>4, RecoveredCases, SlotStoreAssumption DEF TypeOK, Empty, Slot
  <1>6. Corrupt(view)' = Corrupt(img) /\ Recovered(view)' = Recovered(img)
    BY <1>1, Zenon
  <1> QED BY <1>1, <1>3, <1>4, <1>5, <1>6, Zenon DEF StoreInv, Mounted, Request

\* Steps that leave the store alone preserve it.
LEMMA StutterInv ==
    ASSUME StoreInv, UNCHANGED storeVars
    PROVE  StoreInv'
  <1>1. UNCHANGED <<view, maybe, alive, active, step, staged, safe>>
    BY Zenon DEF storeVars
  <1>2. TypeOK' = TypeOK /\ ActiveSurvives' = ActiveSurvives /\ OtherKnown' = OtherKnown /\ Mounted' = Mounted
    BY <1>1, Zenon DEF TypeOK, ActiveSurvives, OtherKnown, Both, Target, Mounted
  <1>3. Corrupt(view)' = Corrupt(view) /\ Recovered(view)' = Recovered(view)
        /\ Target' = Target /\ Fresh' = Fresh
    BY <1>1, Zenon DEF Target, Fresh
  <1> QED BY <1>1, <1>2, <1>3, Zenon DEF StoreInv

\* Every step of the store preserves the invariant.
LEMMA StepInv ==
    ASSUME StoreInv, [StoreNext]_storeVars
    PROVE  StoreInv'
  <1> QED BY OpenInv, BeginCommitInv, WriteInv, FlushDataInv, FlushCommitInv, CommitErrorInv,
             PowerLossInv, StutterInv, Zenon DEF StoreNext, Commit

\* For every set of payloads, in every state and whatever power loss strikes,
\* commit's data, flush, marker, flush sequence leaves a medium from which
\* open recovers the last acknowledged payload or one tried since.
THEOREM AlwaysRecoverable == StoreSpec => []Recoverable
  <1>1. StoreInit => StoreInv
    BY InitInv, Zenon
  <1>2. StoreInv /\ [StoreNext]_storeVars => StoreInv'
    BY StepInv, Zenon
  <1>3. StoreInv => Recoverable
    BY InvRecovers, Zenon
  <1> QED BY <1>1, <1>2, <1>3, PTL DEF StoreSpec

-----------------------------------------------------------------------------
(* The filesystem over the store. *)

\* Every operation of the filesystem is a step of the store or leaves it alone.
LEMMA StoreSteps == [Next]_vars => [StoreNext]_storeVars
  <1> SUFFICES ASSUME [Next]_vars PROVE StoreNext \/ UNCHANGED storeVars
    BY Zenon
  <1>1. \A file : CommitFile(file) => StoreNext \/ UNCHANGED storeVars
    BY Zenon DEF CommitFile, StoreNext
  <1>2. CASE Operation
    BY <1>1, <1>2, Zenon DEF Operation, WriteFile, AppendFile, TruncateFile, SyncFile, RemoveFile
  <1>3. CASE Mount \/ CommitStep \/ PowerLoss
    BY <1>3, Zenon DEF Mount, CommitStep, StoreNext
  <1>4. CASE UNCHANGED vars
    BY <1>4, Zenon DEF vars, storeVars
  <1> QED BY <1>2, <1>3, <1>4, Zenon DEF Next

\* Recovery, for the filesystem: whatever file operations are made and whenever
\* they fail or power fails, mounting finds the last acknowledged file or one
\* that was being committed since.
THEOREM FileRecoverable == Spec => []Recoverable
  <1>1. Init => StoreInit
    BY Zenon DEF Init
  <1> QED BY <1>1, StoreSteps, AlwaysRecoverable, PTL DEF Spec, StoreSpec

-----------------------------------------------------------------------------
\* The empty file is a file.
LEMMA EmptyFits == <<>> \in Files(MaxFile)
  <1>1. <<>> \in [1 .. 0 -> Chunk]
    OBVIOUS
  <1>2. 0 \in 0 .. MaxFile
    BY StateFsAssumption
  <1> QED BY <1>1, <1>2, Zenon DEF Files

\* A file that is not full takes one more chunk.
LEMMA AppendFits ==
    ASSUME NEW f \in Files(MaxFile), Len(f) < MaxFile, NEW c \in Chunk
    PROVE  Append(f, c) \in Files(MaxFile)
  <1>1. PICK k \in 0 .. MaxFile : f \in [1 .. k -> Chunk]
    BY Zenon DEF Files
  <1>2. f \in Seq(Chunk) /\ Len(f) = k /\ MaxFile \in Nat
    BY <1>1, StateFsAssumption
  <1>3. k + 1 \in 0 .. MaxFile
    BY <1>2
  <1>4. Append(f, c) \in Seq(Chunk) /\ Len(Append(f, c)) = k + 1
    BY <1>2
  <1>5. Append(f, c) \in [1 .. Len(Append(f, c)) -> Chunk]
    BY <1>4, LenProperties, Zenon
  <1> QED BY <1>3, <1>4, <1>5, Zenon DEF Files

\* The file in memory is the payload of the active slot.
FsInv ==
    /\ StoreInv
    /\ bytes \in Payload
    /\ pending \in Files(MaxFile) \cup {NoPending}
    /\ Mounted => bytes = active.payload

\* The unmounted filesystem satisfies the invariant.
LEMMA FsInit == Init => FsInv
  BY InitInv, SlotStoreAssumption, Zenon DEF Init, StoreInit, FsInv, Mounted, Request

\* Every step of the filesystem preserves the invariant.
LEMMA FsStep ==
    ASSUME FsInv, [Next]_vars
    PROVE  FsInv'
  <1>1. StoreInv'
    BY StoreSteps, StepInv, Zenon DEF FsInv
  <1>2. TypeOK /\ TypeOK'
    BY <1>1, Zenon DEF FsInv, StoreInv
  <1>3. ASSUME UNCHANGED storeVars
        PROVE  Mounted' = Mounted /\ active' = active
    BY <1>3, Zenon DEF storeVars, Mounted
  <1>4. ASSUME NEW file, CommitFile(file)
        PROVE  bytes' = bytes /\ active' = active /\ Mounted
    BY <1>4, Zenon DEF CommitFile, BeginCommit, Mounted, storeVars
  <1>5. CASE \E file \in Files(MaxFile + 1) : WriteFile(file)
    BY <1>1, <1>4, <1>5, Zenon DEF WriteFile, FsInv
  <1>6. CASE SyncFile
    BY <1>1, <1>4, <1>6, Zenon DEF SyncFile, FsInv
  <1>7. CASE RemoveFile
    BY <1>1, <1>3, <1>4, <1>7 DEF RemoveFile, FsInv
  <1>8. CASE TruncateFile
    BY <1>1, <1>3, <1>8, EmptyFits DEF TruncateFile, FsInv
  <1>9. CASE \E chunk \in Chunk : AppendFile(chunk)
    <2>1. PICK chunk \in Chunk : AppendFile(chunk)
      BY <1>9, Zenon
    <2>2. Base \in Files(MaxFile)
      BY EmptyFits, StateFsAssumption, Zenon DEF FsInv, Base
    <2>3. pending' \in Files(MaxFile)
      BY <2>1, <2>2, AppendFits, Zenon DEF AppendFile
    <2> QED BY <1>1, <1>3, <2>1, <2>3 DEF AppendFile, FsInv
  <1>10. CASE Mount \/ CommitStep
    BY <1>1, <1>2, <1>10, Zenon DEF Mount, CommitStep, FsInv, TypeOK
  <1>11. CASE PowerLoss /\ Forget
    BY <1>1, <1>11, SlotStoreAssumption, Zenon DEF PowerLoss, Forget, FsInv, Mounted, Request
  <1>12. CASE UNCHANGED vars
    <2>1. UNCHANGED storeVars /\ UNCHANGED <<bytes, pending>>
      BY <1>12, Zenon DEF vars, storeVars
    <2> QED BY <1>1, <1>3, <2>1 DEF FsInv
  <1> QED BY <1>5, <1>6, <1>7, <1>8, <1>9, <1>10, <1>11, <1>12, Zenon DEF Next, Operation

\* Readers are only shown what no power loss can take away: the file in memory
\* is the payload of the active slot, and both blocks of that slot are settled
\* while the next commit goes on, fails or is retried.
THEOREM ShownIsAlwaysDurable == Spec => []ShownIsDurable
  <1>1. FsInv => ShownIsDurable
    <2> SUFFICES ASSUME FsInv PROVE ShownIsDurable
      BY Zenon
    <2>1. TypeOK /\ (Mounted => ActiveSurvives)
      BY Zenon DEF FsInv, StoreInv
    <2> QED BY <2>1, Zenon DEF FsInv, ShownIsDurable, ActiveSurvives
  <1>2. FsInv /\ [Next]_vars => FsInv'
    BY FsStep, Zenon
  <1> QED BY <1>1, <1>2, FsInit, PTL DEF Spec
=============================================================================
