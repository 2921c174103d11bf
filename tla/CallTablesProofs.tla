-------------------------- MODULE CallTablesProofs --------------------------
(***************************************************************************)
(* What the operations of the wait table, of the pending calls and of the  *)
(* suspended calls do to what the tables hold, and that the tables stay    *)
(* linked whatever the order in which the operations come.                 *)
(***************************************************************************)
EXTENDS ThreadCalls, FiniteSetTheorems, TLAPS

\* The leaves are first-order; those that need arithmetic or records cite SMT.
USE ZenonT(30)

-----------------------------------------------------------------------------
(* Sums over finite sets.  A fold takes the elements in an order of its own; *)
(* what is needed of it is that the order does not matter.  The lemmas are   *)
(* proved through a minimal subset for which they would fail.                *)

Taken(s) == CHOOSE x \in s : TRUE

Adds(it, S, f) ==
    it = [s \in SUBSET S |-> IF s = {} THEN 0 ELSE f[Taken(s)] + it[s \ {Taken(s)}]]

Running(S, f) == CHOOSE it : Adds(it, S, f)

Total(S, f) == Running(S, f)[S]

Minimal(m, C) == \A u \in SUBSET m : u # m => u \notin C

\* Every nonempty collection of subsets of a finite set has a member that is
\* minimal for inclusion.
LEMMA MinimalSubset ==
  ASSUME NEW S, IsFiniteSet(S), NEW C, \A s \in C : s \in SUBSET S, C # {}
  PROVE  \E m \in C : Minimal(m, C)
  <1>1. C \subseteq FiniteSubsetsOf(S)
    BY FS_FiniteSubsetsOfFinite
  <1>2. PICK m \in C : \A u \in C : ~ (<<u, m>> \in StrictSubsetOrdering(S))
    BY <1>1, FS_StrictSubsetOrderingWellFounded, WFMin
  <1>3. ASSUME NEW u \in C, u \in SUBSET m, u # m
        PROVE  FALSE
    <2>1. u \in SUBSET S /\ m \in SUBSET S
      BY <1>2
    <2>2. <<u, m>> \in StrictSubsetOrdering(S)
      BY <1>3, <2>1, SMTT(20) DEF StrictSubsetOrdering
    <2> QED BY <1>2, <2>2
  <1>4. Minimal(m, C)
    BY <1>3 DEF Minimal
  <1> QED BY <1>4

LEMMA TakenIn ==
  ASSUME NEW s, s # {}
  PROVE  Taken(s) \in s
  BY DEF Taken

LEMMA AddsUnique ==
  ASSUME NEW S, IsFiniteSet(S), NEW f, NEW a, NEW b, Adds(a, S, f), Adds(b, S, f)
  PROVE  a = b
  <1> DEFINE C == {s \in SUBSET S : a[s] # b[s]}
  <1>1. ASSUME C # {} PROVE FALSE
    <2>0. \A s \in C : s \in SUBSET S
      OBVIOUS
    <2>1. PICK m \in C : Minimal(m, C)
      <3> HIDE DEF C
      <3> QED BY <1>1, <2>0, MinimalSubset
    <2>2. CASE m = {}
      BY <2>1, <2>2 DEF Adds
    <2>3. CASE m # {}
      <3>1. Taken(m) \in m
        BY <2>3, TakenIn
      <3>2. m \ {Taken(m)} \in SUBSET S /\ m \ {Taken(m)} \subseteq m /\ m \ {Taken(m)} # m
        BY <3>1
      <3>3. a[m \ {Taken(m)}] = b[m \ {Taken(m)}]
        BY <2>1, <3>2 DEF Minimal
      <3> QED BY <2>1, <2>3, <3>3 DEF Adds
    <2> QED BY <2>2, <2>3
  <1>2. \A s \in SUBSET S : a[s] = b[s]
    BY <1>1
  <1> QED BY <1>2 DEF Adds

\* What is computed for a set is computed for each of its subsets.
LEMMA AddsBelow ==
  ASSUME NEW S, NEW f, NEW a, Adds(a, S, f), NEW T \in SUBSET S
  PROVE  Adds([s \in SUBSET T |-> a[s]], T, f)
  <1> DEFINE g == [s \in SUBSET T |-> a[s]]
  <1>1. ASSUME NEW s \in SUBSET T
        PROVE  g[s] = IF s = {} THEN 0 ELSE f[Taken(s)] + g[s \ {Taken(s)}]
    BY <1>1 DEF Adds
  <1> QED BY <1>1 DEF Adds

LEMMA AddsExists ==
  ASSUME NEW S, IsFiniteSet(S), NEW f
  PROVE  Adds(Running(S, f), S, f)
  <1> DEFINE C == {s \in SUBSET S : ~ \E a : Adds(a, s, f)}
  <1>1. ASSUME C # {} PROVE FALSE
    <2>0. \A s \in C : s \in SUBSET S
      OBVIOUS
    <2>1. PICK m \in C : Minimal(m, C)
      <3> HIDE DEF C
      <3> QED BY <1>1, <2>0, MinimalSubset
    <2>2. ASSUME NEW u \in SUBSET m, u # m
          PROVE  Adds(Running(u, f), u, f)
      <3>1. \E a : Adds(a, u, f)
        BY <2>1, <2>2 DEF Minimal
      <3> QED BY <3>1 DEF Running
    <2> DEFINE g == [s \in SUBSET m |-> IF s = {} THEN 0
                                       ELSE f[Taken(s)] + Total(s \ {Taken(s)}, f)]
    <2>3. ASSUME NEW u \in SUBSET m, u # m
          PROVE  g[u] = Total(u, f)
      <3>1. Adds(Running(u, f), u, f)
        BY <2>2, <2>3
      <3>2. CASE u = {}
        BY <3>1, <3>2 DEF Adds, Total
      <3>3. CASE u # {}
        <4> DEFINE v == u \ {Taken(u)}
        <4>1. v \in SUBSET m /\ v # m /\ v \in SUBSET u
          BY <2>3, <3>3, TakenIn
        <4>2. Adds(Running(v, f), v, f)
          BY <2>2, <4>1
        <4>3. Adds([s \in SUBSET v |-> Running(u, f)[s]], v, f)
          BY <3>1, <4>1, AddsBelow
        <4>4. IsFiniteSet(v)
          BY <2>1, <4>1, FS_Subset
        <4>5. Running(v, f) = [s \in SUBSET v |-> Running(u, f)[s]]
          BY <4>2, <4>3, <4>4, AddsUnique
        <4>6. Running(u, f)[v] = Total(v, f)
          BY <4>5 DEF Total
        <4>7. Running(u, f)[u] = f[Taken(u)] + Running(u, f)[v]
          BY <3>1, <3>3 DEF Adds
        <4>8. g[u] = f[Taken(u)] + Total(v, f)
          BY <2>3, <3>3
        <4> QED BY <4>6, <4>7, <4>8 DEF Total
      <3> QED BY <3>2, <3>3
    <2>4. ASSUME NEW s \in SUBSET m
          PROVE  g[s] = IF s = {} THEN 0 ELSE f[Taken(s)] + g[s \ {Taken(s)}]
      <3>1. CASE s = {}
        BY <3>1
      <3>2. CASE s # {}
        <4>1. s \ {Taken(s)} \in SUBSET m /\ s \ {Taken(s)} # m
          BY <2>4, <3>2, TakenIn
        <4>2. g[s \ {Taken(s)}] = Total(s \ {Taken(s)}, f)
          BY <2>3, <4>1
        <4>3. g[s] = f[Taken(s)] + Total(s \ {Taken(s)}, f)
          BY <2>4, <3>2
        <4> HIDE DEF g
        <4> QED BY <3>2, <4>2, <4>3
      <3> QED BY <3>1, <3>2
    <2>5. Adds(g, m, f)
      <3>1. g = [s \in SUBSET m |-> g[s]]
        OBVIOUS
      <3> QED BY <2>4, <3>1 DEF Adds
    <2> HIDE DEF g
    <2> QED BY <2>1, <2>5
  <1>2. \E a : Adds(a, S, f)
    BY <1>1
  <1> QED BY <1>2 DEF Running

LEMMA TotalTaken ==
  ASSUME NEW S, IsFiniteSet(S), NEW f
  PROVE  Total(S, f) = IF S = {} THEN 0 ELSE f[Taken(S)] + Total(S \ {Taken(S)}, f)
  <1>1. Adds(Running(S, f), S, f)
    BY AddsExists
  <1>2. CASE S = {}
    BY <1>1, <1>2 DEF Adds, Total
  <1>3. CASE S # {}
    <2> DEFINE v == S \ {Taken(S)}
    <2>1. v \in SUBSET S /\ IsFiniteSet(v)
      BY FS_Subset
    <2>2. Adds(Running(v, f), v, f) /\ Adds([s \in SUBSET v |-> Running(S, f)[s]], v, f)
      BY <1>1, <2>1, AddsBelow, AddsExists
    <2>3. Running(v, f) = [s \in SUBSET v |-> Running(S, f)[s]]
      BY <2>1, <2>2, AddsUnique
    <2>4. Total(v, f) = Running(S, f)[v]
      BY <2>3 DEF Total
    <2>5. Running(S, f)[S] = f[Taken(S)] + Running(S, f)[v]
      BY <1>1, <1>3 DEF Adds
    <2> QED BY <1>3, <2>4, <2>5 DEF Total
  <1> QED BY <1>2, <1>3

\* A set and its elements' values: the total is a natural number.
LEMMA TotalNat ==
  ASSUME NEW S, IsFiniteSet(S), NEW f, \A x \in S : f[x] \in Nat
  PROVE  Total(S, f) \in Nat
  <1> DEFINE C == {s \in SUBSET S : Total(s, f) \notin Nat}
  <1>1. ASSUME C # {} PROVE FALSE
    <2>0. \A s \in C : s \in SUBSET S
      OBVIOUS
    <2>1. PICK m \in C : Minimal(m, C)
      <3> HIDE DEF C
      <3> QED BY <1>1, <2>0, MinimalSubset
    <2>2. IsFiniteSet(m) /\ m \in SUBSET S /\ Total(m, f) \notin Nat
      BY <2>1, FS_Subset
    <2> USE <2>2
    <2>3. m # {} /\ Total(m, f) = f[Taken(m)] + Total(m \ {Taken(m)}, f)
      <3>1. Total(m, f) = IF m = {} THEN 0 ELSE f[Taken(m)] + Total(m \ {Taken(m)}, f)
        BY TotalTaken
      <3> QED BY <3>1, SMTT(20)
    <2>4. Taken(m) \in m
      BY <2>3, TakenIn
    <2>5. Total(m \ {Taken(m)}, f) \in Nat
      BY <2>1, <2>4 DEF Minimal
    <2>6. f[Taken(m)] \in Nat
      BY <2>4
    <2> HIDE DEF C
    <2> QED BY <2>3, <2>5, <2>6, SMTT(20)
  <1> QED BY <1>1

\* One element out of the set takes its value out of the total.
LEMMA TotalRemove ==
  ASSUME NEW S, IsFiniteSet(S), NEW f, \A x \in S : f[x] \in Nat, NEW x \in S
  PROVE  Total(S, f) = f[x] + Total(S \ {x}, f)
  <1> DEFINE Off(s, y) == Total(s, f) = f[y] + Total(s \ {y}, f)
             C == {s \in SUBSET S : \E y \in s : ~ Off(s, y)}
  <1>1. ASSUME C # {} PROVE FALSE
    <2>0. \A s \in C : s \in SUBSET S
      OBVIOUS
    <2>1. PICK m \in C : Minimal(m, C)
      <3> HIDE DEF C
      <3> QED BY <1>1, <2>0, MinimalSubset
    <2>2. PICK y \in m : ~ Off(m, y)
      BY <2>1
    <2> USE <2>2
    <2> DEFINE z == Taken(m)
    <2>3. m \in SUBSET S /\ z \in m
      BY <2>1, TakenIn
    <2> USE <2>3
    <2>4. IsFiniteSet(m)
      BY FS_Subset
    <2>5. Off(m, z)
      BY <2>4, TotalTaken
    <2>6. y # z
      BY <2>5
    <2>7. ASSUME NEW u \in SUBSET m, u # m, NEW q \in u
          PROVE  Off(u, q)
      <3>1. u \in SUBSET S
        OBVIOUS
      <3> QED BY <2>1, <2>7, <3>1 DEF Minimal
    <2> HIDE DEF C, Off
    <2>8. Off(m \ {z}, y) /\ Off(m \ {y}, z)
      <3>1. m \ {z} \in SUBSET m /\ m \ {z} # m /\ y \in m \ {z}
        BY <2>6
      <3>2. m \ {y} \in SUBSET m /\ m \ {y} # m /\ z \in m \ {y}
        BY <2>6
      <3> QED BY <2>7, <3>1, <3>2
    <2>9. (m \ {z}) \ {y} = (m \ {y}) \ {z}
      OBVIOUS
    <2> DEFINE v == (m \ {y}) \ {z}
    <2>10. /\ Total(m, f) = f[z] + Total(m \ {z}, f)
           /\ Total(m \ {z}, f) = f[y] + Total(v, f)
           /\ Total(m \ {y}, f) = f[z] + Total(v, f)
      BY <2>5, <2>8, <2>9 DEF Off
    <2>11. Total(v, f) \in Nat /\ f[y] \in Nat /\ f[z] \in Nat
      <3>1. IsFiniteSet(v) /\ \A q \in v : f[q] \in Nat
        BY <2>4, FS_Subset
      <3> QED BY <3>1, TotalNat
    <2> HIDE DEF v, z
    <2>12. f[z] + (f[y] + Total(v, f)) = f[y] + (f[z] + Total(v, f))
      BY <2>11, SMTT(20)
    <2> QED BY <2>10, <2>12 DEF Off
  <1> QED BY <1>1

\* The total of a set is that of a part and of the rest.
LEMMA TotalSplit ==
  ASSUME NEW S, IsFiniteSet(S), NEW f, \A x \in S : f[x] \in Nat, NEW T \in SUBSET S
  PROVE  Total(S, f) = Total(T, f) + Total(S \ T, f)
  <1> DEFINE Splits(p) == Total(S, f) = Total(p, f) + Total(S \ p, f)
             C == {p \in SUBSET S : ~ Splits(p)}
  <1>0. \A p \in SUBSET S : /\ IsFiniteSet(p) /\ IsFiniteSet(S \ p) /\ S \ p \in SUBSET S
                            /\ Total(p, f) \in Nat /\ Total(S \ p, f) \in Nat
    BY FS_Subset, TotalNat
  <1> USE <1>0
  <1>1. ASSUME C # {} PROVE FALSE
    <2>0. \A s \in C : s \in SUBSET S
      OBVIOUS
    <2>1. PICK m \in C : Minimal(m, C)
      <3> HIDE DEF C
      <3> QED BY <1>1, <2>0, MinimalSubset
    <2>2. m \in SUBSET S /\ ~ Splits(m)
      BY <2>1
    <2> USE <2>2
    <2>3. CASE m = {}
      <3>1. Total(m, f) = 0 /\ S \ m = S
        BY <2>3, TotalTaken
      <3>2. Total(S, f) \in Nat
        BY TotalNat
      <3> QED BY <3>1, <3>2, SMTT(20)
    <2>4. CASE m # {}
      <3>1. PICK x \in m : TRUE
        BY <2>4
      <3> USE <3>1
      <3> DEFINE n == m \ {x}
      <3>2. n \in SUBSET m /\ n # m /\ n \in SUBSET S
        OBVIOUS
      <3>3. Splits(n)
        BY <2>1, <3>2 DEF Minimal
      <3>4. Total(m, f) = f[x] + Total(n, f)
        <4>1. IsFiniteSet(m) /\ \A y \in m : f[y] \in Nat
          OBVIOUS
        <4> QED BY <4>1, TotalRemove
      <3>5. Total(S \ n, f) = f[x] + Total(S \ m, f)
        <4>1. IsFiniteSet(S \ n) /\ (\A y \in S \ n : f[y] \in Nat) /\ x \in S \ n
          BY <3>2
        <4>2. (S \ n) \ {x} = S \ m
          BY SMTT(20)
        <4> HIDE DEF n
        <4>3. Total(S \ n, f) = f[x] + Total((S \ n) \ {x}, f)
          BY <4>1, TotalRemove
        <4> QED BY <4>2, <4>3
      <3>6. f[x] \in Nat /\ Total(n, f) \in Nat /\ Total(S \ m, f) \in Nat
        BY <3>2
      <3> HIDE DEF n, C
      <3> QED BY <3>3, <3>4, <3>5, <3>6, SMTT(20)
    <2> QED BY <2>3, <2>4
  <1> QED BY <1>1

\* Only the values of the elements of the set count.
LEMMA TotalSame ==
  ASSUME NEW S, IsFiniteSet(S), NEW f, NEW g, \A x \in S : f[x] = g[x]
  PROVE  Total(S, f) = Total(S, g)
  <1> DEFINE C == {s \in SUBSET S : Total(s, f) # Total(s, g)}
  <1>1. ASSUME C # {} PROVE FALSE
    <2>0. \A s \in C : s \in SUBSET S
      OBVIOUS
    <2>1. PICK m \in C : Minimal(m, C)
      <3> HIDE DEF C
      <3> QED BY <1>1, <2>0, MinimalSubset
    <2>2. IsFiniteSet(m) /\ m \in SUBSET S /\ Total(m, f) # Total(m, g)
      BY <2>1, FS_Subset
    <2> USE <2>2
    <2>3. /\ Total(m, f) = IF m = {} THEN 0 ELSE f[Taken(m)] + Total(m \ {Taken(m)}, f)
          /\ Total(m, g) = IF m = {} THEN 0 ELSE g[Taken(m)] + Total(m \ {Taken(m)}, g)
      BY TotalTaken
    <2>4. m # {}
      BY <2>3
    <2>5. Taken(m) \in m
      BY <2>4, TakenIn
    <2>6. Total(m \ {Taken(m)}, f) = Total(m \ {Taken(m)}, g)
      BY <2>1, <2>5 DEF Minimal
    <2>7. f[Taken(m)] = g[Taken(m)]
      BY <2>5
    <2> HIDE DEF C
    <2> QED BY <2>3, <2>4, <2>6, <2>7
  <1> QED BY <1>1

LEMMA TotalOnes ==
  ASSUME NEW S, IsFiniteSet(S), NEW f, \A x \in S : f[x] = 1
  PROVE  Total(S, f) = Cardinality(S)
  <1> DEFINE C == {s \in SUBSET S : Total(s, f) # Cardinality(s)}
  <1>1. ASSUME C # {} PROVE FALSE
    <2>0. \A s \in C : s \in SUBSET S
      OBVIOUS
    <2>1. PICK m \in C : Minimal(m, C)
      <3> HIDE DEF C
      <3> QED BY <1>1, <2>0, MinimalSubset
    <2>2. IsFiniteSet(m) /\ m \in SUBSET S /\ Total(m, f) # Cardinality(m)
      BY <2>1, FS_Subset
    <2> USE <2>2
    <2>3. Total(m, f) = IF m = {} THEN 0 ELSE f[Taken(m)] + Total(m \ {Taken(m)}, f)
      BY TotalTaken
    <2>4. m # {}
      BY <2>3, FS_EmptySet
    <2>5. Taken(m) \in m
      BY <2>4, TakenIn
    <2>6. Total(m \ {Taken(m)}, f) = Cardinality(m \ {Taken(m)})
      BY <2>1, <2>5 DEF Minimal
    <2>7. f[Taken(m)] = 1
      BY <2>5
    <2>8. Cardinality(m \ {Taken(m)}) = Cardinality(m) - 1 /\ Cardinality(m) \in Nat
      BY <2>5, FS_RemoveElement, FS_CardinalityType
    <2> HIDE DEF C
    <2> QED BY <2>3, <2>4, <2>6, <2>7, <2>8, SMTT(20)
  <1> QED BY <1>1

-----------------------------------------------------------------------------
(* The wait table. *)

\* What resolve_index makes of one slot.
LEMMA ResolvedSlot ==
  ASSUME WaitsWell, NEW S \in SUBSET Held, NEW w \in WaitSlots
  PROVE  /\ w \notin S => Resolved(S)[w] = waits[w]
         /\ w \in S =>
              /\ Resolved(S)[w] \in WaitSlot
              /\ Resolved(S)[w].record = NoWait
              /\ \/ /\ ~ Resolved(S)[w].retired
                    /\ Resolved(S)[w].generation = waits[w].generation + 1
                 \/ /\ Resolved(S)[w].retired
                    /\ Resolved(S)[w].generation = waits[w].generation
                    /\ waits[w].generation = LastGeneration
  <1>1. CASE w \notin S
    BY <1>1, SMTT(20) DEF Resolved
  <1>2. CASE w \in S
    <2>1. waits[w] \in WaitSlot /\ ~ waits[w].retired
      BY <1>2 DEF WaitsWell, Held
    <2> USE <2>1
    <2>4. waits[w].generation \in 1 .. LastGeneration /\ LastGeneration \in Nat
      BY NativeAssumption, SMTT(20) DEF WaitSlot
    <2>2. CASE waits[w].generation < LastGeneration
      <3> DEFINE g == waits[w].generation + 1
      <3>1. Resolved(S)[w] = [waits[w] EXCEPT !.record = NoWait, !.generation = g]
        BY <1>2, <2>2 DEF Resolved
      <3>2. g \in 1 .. LastGeneration
        BY <2>2, <2>4, SMTT(20)
      <3> HIDE DEF g
      <3>3. Resolved(S)[w].generation = g /\ Resolved(S)[w].record = NoWait
        BY <3>1, SMTT(20) DEF WaitSlot
      <3>4. Resolved(S)[w].retired = waits[w].retired
        BY <3>1, SMTT(20) DEF WaitSlot
      <3>5. Resolved(S)[w] \in WaitSlot
        BY <3>1, <3>2 DEF WaitSlot
      <3> QED BY <1>2, <3>3, <3>4, <3>5 DEF g
    <2>3. CASE ~ (waits[w].generation < LastGeneration)
      <3>1. Resolved(S)[w] = [waits[w] EXCEPT !.record = NoWait, !.retired = TRUE]
        BY <1>2, <2>3 DEF Resolved
      <3>2. waits[w].generation = LastGeneration
        BY <2>3, <2>4, SMTT(20)
      <3>3. Resolved(S)[w].generation = waits[w].generation /\ Resolved(S)[w].record = NoWait
        BY <3>1, SMTT(20) DEF WaitSlot
      <3>4. Resolved(S)[w].retired = TRUE
        BY <3>1, SMTT(20) DEF WaitSlot
      <3>5. Resolved(S)[w] \in WaitSlot
        BY <3>1 DEF WaitSlot
      <3> QED BY <1>2, <3>2, <3>3, <3>4, <3>5
    <2> QED BY <2>2, <2>3
  <1> QED BY <1>1, <1>2

\* Completing registrations, with whichever operation: their keys are over,
\* and nothing else changes.
LEMMA ResolvedIs ==
  ASSUME WaitsWell, NEW S \in SUBSET Held, waits' = Resolved(S)
  PROVE  /\ WaitsWell' /\ Held' = Held \ S /\ KeyNamesOneWait
         /\ \A w \in WaitSlots \ S : waits'[w] = waits[w]
         /\ \A w \in S, k \in Identity : k = Key(w) => Over(k)'
         /\ \A k \in Identity : Over(k) => Over(k)'
  <1>1. \A w \in WaitSlots : w \notin S => waits'[w] = waits[w]
    BY ResolvedSlot
  <1> USE <1>1
  <1>2. \A w \in S :
          /\ w \in WaitSlots /\ waits'[w] \in WaitSlot /\ waits'[w].record = NoWait
          /\ \/ ~ waits'[w].retired /\ waits'[w].generation = waits[w].generation + 1
             \/ /\ waits'[w].retired /\ waits'[w].generation = waits[w].generation
                /\ waits[w].generation = LastGeneration
    BY ResolvedSlot DEF Held
  <1> USE <1>2
  <1>3. \A w \in WaitSlots : waits[w] \in WaitSlot /\ waits[w].generation \in Nat
    BY NativeAssumption, SMTT(20) DEF WaitsWell, WaitSlot
  <1> USE <1>3
  <1>4. Held' = Held \ S
    BY DEF Held
  <1>5. waits' \in [WaitSlots -> WaitSlot]
    <2>1. waits' = [w \in WaitSlots |-> waits'[w]]
      BY DEF Resolved
    <2> QED BY <2>1
  <1>6. WaitsWell'
    <2>1. \A w \in WaitSlots : waits'[w].retired => waits'[w].record = NoWait
                                                    /\ waits'[w].generation = LastGeneration
      BY DEF WaitsWell
    <2>2. \A w \in Held' : ValidSpec(waits'[w].record) /\ waits'[w].record.caller.task = OwnTask
      <3> SUFFICES ASSUME NEW w \in Held \ S
                   PROVE  ValidSpec(waits'[w].record) /\ waits'[w].record.caller.task = OwnTask
        BY <1>4
      <3>1. waits'[w] = waits[w]
        BY DEF Held
      <3> QED BY <3>1 DEF WaitsWell
    <2> QED BY <1>5, <2>1, <2>2 DEF WaitsWell
  <1>7. ASSUME NEW w \in S, NEW k \in Identity, k = Key(w) PROVE Over(k)'
    <2>1. k.slot = w /\ k.generation = waits[w].generation
      BY <1>7, SMTT(20) DEF Key
    <2>2. waits[w].generation + 1 > waits[w].generation
      BY SMTT(20)
    <2> QED BY <2>1, <2>2 DEF Over
  <1>8. ASSUME NEW k \in Identity, Over(k) PROVE Over(k)'
    <2> SUFFICES ASSUME NEW w \in WaitSlots, k.slot = w
                 PROVE  waits'[w].retired \/ waits'[w].generation > k.generation
      BY DEF Over
    <2>1. waits[w].retired \/ waits[w].generation > k.generation
      BY <1>8 DEF Over
    <2>2. k.generation \in Nat
      BY SMTT(20) DEF Identity
    <2>3. CASE w \notin S
      BY <2>1, <2>3
    <2>4. CASE w \in S
      <3>1. ~ waits[w].retired
        BY <2>4 DEF WaitsWell, Held
      <3>2. waits[w].generation > k.generation
        BY <2>1, <3>1
      <3>3. waits[w].generation + 1 > k.generation
        BY <2>2, <3>2, SMTT(20)
      <3> QED BY <2>4, <3>3
    <2> QED BY <2>3, <2>4
  <1>9. KeyNamesOneWait
    <2> SUFFICES ASSUME NEW w \in WaitSlots
                 PROVE  /\ waits'[w].generation >= waits[w].generation
                        /\ waits[w].retired => waits'[w] = waits[w]
                        /\ (waits[w].record # NoWait /\ waits'[w].record # waits[w].record)
                              => /\ waits'[w].record = NoWait
                                 /\ waits'[w].retired \/ waits'[w].generation > waits[w].generation
      BY DEF KeyNamesOneWait
    <2>1. CASE w \notin S
      BY <2>1, SMTT(20)
    <2>2. CASE w \in S
      <3>1. ~ waits[w].retired
        BY <2>2 DEF WaitsWell, Held
      <3> QED BY <2>2, <3>1, SMTT(20)
    <2> QED BY <2>1, <2>2
  <1> QED BY <1>4, <1>6, <1>7, <1>8, <1>9

\* `register' publishes in a free slot, whose key nobody holds.
LEMMA PublishIs ==
  ASSUME WaitsWell, NEW spec \in Registration, ValidSpec(spec), spec.caller.task = OwnTask,
         NEW w, Publish(spec, w)
  PROVE  /\ WaitsWell' /\ w \in WaitSlots /\ w \notin Held /\ Held' = Held \cup {w}
         /\ ~ waits[w].retired /\ KeyNamesOneWait
         /\ waits'[w].record = spec /\ ~ waits'[w].retired
         /\ waits'[w].generation = waits[w].generation
         /\ \A x \in WaitSlots : Key(x)' = Key(x)
         /\ \A x \in WaitSlots \ {w} : waits'[x] = waits[x]
         /\ \A k \in Identity : Over(k) => Over(k)'
  <1>1. /\ w \in WaitSlots /\ waits[w].record = NoWait /\ ~ waits[w].retired
        /\ waits' = [waits EXCEPT ![w].record = spec]
    BY DEF Publish, FreeWaits
  <1> USE <1>1
  <1>2. waits \in [WaitSlots -> WaitSlot] /\ spec # NoWait
    BY AbsenceAssumption, SMTT(20) DEF WaitsWell
  <1> USE <1>2
  <1>3. /\ waits'[w] \in WaitSlot /\ waits'[w].record = spec /\ waits'[w].retired = waits[w].retired
        /\ waits'[w].generation = waits[w].generation
    BY SMTT(20) DEF WaitSlot
  <1> USE <1>3
  <1>4. \A x \in WaitSlots \ {w} : waits'[x] = waits[x]
    OBVIOUS
  <1> USE <1>4
  <1>5. Held' = Held \cup {w}
    BY DEF Held
  <1>6. waits' \in [WaitSlots -> WaitSlot]
    <2>1. waits' = [x \in WaitSlots |-> waits'[x]]
      OBVIOUS
    <2> QED BY <2>1
  <1>7. WaitsWell'
    <2>1. \A x \in WaitSlots : waits'[x].retired => waits'[x].record = NoWait
                                                    /\ waits'[x].generation = LastGeneration
      BY DEF WaitsWell
    <2>2. \A x \in Held' : ValidSpec(waits'[x].record) /\ waits'[x].record.caller.task = OwnTask
      BY <1>5 DEF WaitsWell, Held
    <2> QED BY <1>6, <2>1, <2>2 DEF WaitsWell
  <1>8. \A x \in WaitSlots : Key(x)' = Key(x) /\ waits'[x].retired = waits[x].retired
                             /\ waits'[x].generation = waits[x].generation
    BY DEF Key
  <1>9. KeyNamesOneWait
    <2>1. \A x \in WaitSlots : waits[x].generation \in Nat
      BY NativeAssumption, SMTT(20) DEF WaitSlot
    <2>2. \A x \in WaitSlots : waits'[x].generation >= waits[x].generation
      BY <1>8, <2>1, SMTT(20)
    <2> QED BY <2>2 DEF KeyNamesOneWait
  <1>10. \A k \in Identity : Over(k) => Over(k)'
    BY <1>8 DEF Over
  <1> QED BY <1>5, <1>7, <1>8, <1>9, <1>10 DEF Held

-----------------------------------------------------------------------------
(* The pending calls. *)

LEMMA CallSlotsFinite == IsFiniteSet(CallSlots) /\ \A S \in SUBSET CallSlots : IsFiniteSet(S)
  <1>1. IsFiniteSet(CallSlots)
    BY NativeAssumption, FS_Interval, SMTT(20) DEF CallSlots
  <1> QED BY <1>1, FS_Subset

\* The bytes that table c charges to some slots, and the same as a total.
Charged(c, S) == MapThenSumSet(LAMBDA s : c[s].record.bytes, S)

LEMMA ChargedTotal ==
  ASSUME NEW c, NEW S, NEW g, g = [s \in S |-> c[s].record.bytes]
  PROVE  Charged(c, S) = Total(S, g)
  BY DEF Charged, MapThenSumSet, MapThenFoldSet, Total, Running, Adds, Taken

LEMMA BytesAre ==
  ASSUME NEW S \in SUBSET CallSlots, NEW f, \A s \in S : f[s] = calls[s].record.bytes
  PROVE  BytesOf(S) = Total(S, f)
  <1> DEFINE g == [s \in S |-> calls[s].record.bytes]
  <1>1. BytesOf(S) = Charged(calls, S)
    BY DEF BytesOf, Charged
  <1>2. Total(S, g) = Total(S, f)
    <2>1. \A s \in S : g[s] = f[s]
      OBVIOUS
    <2> HIDE DEF g
    <2> QED BY <2>1, CallSlotsFinite, TotalSame
  <1>3. Charged(calls, S) = Total(S, g)
    BY ChargedTotal
  <1> QED BY <1>1, <1>2, <1>3

\* The same after a step.
LEMMA BytesWillBe ==
  ASSUME NEW S \in SUBSET CallSlots, Pending' = S, NEW f, \A s \in S : f[s] = calls'[s].record.bytes
  PROVE  BytesOf(Pending)' = Total(S, f)
  <1> DEFINE g == [s \in S |-> calls'[s].record.bytes]
  <1>1. BytesOf(Pending)' = Charged(calls', S)
    BY DEF BytesOf, Charged, MapThenSumSet, MapThenFoldSet
  <1>2. Total(S, g) = Total(S, f)
    <2>1. \A s \in S : g[s] = f[s]
      OBVIOUS
    <2> HIDE DEF g
    <2> QED BY <2>1, CallSlotsFinite, TotalSame
  <1>3. Charged(calls', S) = Total(S, g)
    BY ChargedTotal
  <1> QED BY <1>1, <1>2, <1>3

\* Each call is charged a number of bytes.
LEMMA CallsTyped ==
  ASSUME CallsWell
  PROVE  /\ \A s \in CallSlots : calls[s] \in CallSlot /\ calls[s].generation \in Nat
         /\ Pending \in SUBSET CallSlots
         /\ \A s \in Pending : /\ calls[s].record \in CallRecord /\ calls[s].record.bytes \in Nat
                               /\ ~ calls[s].retired
  <1>1. \A s \in CallSlots : calls[s] \in CallSlot
    BY DEF CallsWell
  <1>2. \A s \in CallSlots : calls[s].generation \in Nat
    BY <1>1, NativeAssumption, SMTT(20) DEF CallSlot
  <1>3. \A s \in Pending : s \in CallSlots /\ ~ calls[s].retired /\ calls[s].record # NoCall
    BY DEF Pending, CallsWell
  <1>4. \A s \in Pending : calls[s].record \in CallRecord
    BY <1>1, <1>3, SMTT(20) DEF CallSlot
  <1>5. \A s \in Pending : calls[s].record.bytes \in Nat
    BY <1>4, SMTT(20) DEF CallRecord
  <1> QED BY <1>1, <1>2, <1>3, <1>4, <1>5

\* What release_index makes of one slot.
LEMMA ReleasedSlot ==
  ASSUME CallsWell, NEW S \in SUBSET Pending, Release(S), NEW s \in CallSlots
  PROVE  /\ s \notin S => calls'[s] = calls[s]
         /\ s \in S =>
              /\ calls'[s] \in CallSlot
              /\ calls'[s].record = NoCall
              /\ \/ ~ calls'[s].retired /\ calls'[s].generation = calls[s].generation + 1
                 \/ /\ calls'[s].retired /\ calls'[s].generation = calls[s].generation
                    /\ calls[s].generation = LastGeneration
  <1>1. CASE s \notin S
    BY <1>1 DEF Release
  <1>2. CASE s \in S
    <2>1. calls[s] \in CallSlot /\ ~ calls[s].retired
      BY <1>2, CallsTyped
    <2> USE <2>1
    <2>2. calls[s].generation \in 1 .. LastGeneration /\ LastGeneration \in Nat
      BY NativeAssumption, SMTT(20) DEF CallSlot
    <2>3. CASE calls[s].generation < LastGeneration
      <3> DEFINE g == calls[s].generation + 1
      <3>1. calls'[s] = [calls[s] EXCEPT !.record = NoCall, !.generation = g]
        BY <1>2, <2>3 DEF Release
      <3>2. g \in 1 .. LastGeneration
        BY <2>2, <2>3, SMTT(20)
      <3> HIDE DEF g
      <3>3. calls'[s].generation = g /\ calls'[s].record = NoCall
        BY <3>1, SMTT(20) DEF CallSlot
      <3>4. calls'[s].retired = calls[s].retired
        BY <3>1, SMTT(20) DEF CallSlot
      <3>5. calls'[s] \in CallSlot
        BY <3>1, <3>2 DEF CallSlot
      <3> QED BY <1>2, <3>3, <3>4, <3>5 DEF g
    <2>4. CASE ~ (calls[s].generation < LastGeneration)
      <3>1. calls'[s] = [calls[s] EXCEPT !.record = NoCall, !.retired = TRUE]
        BY <1>2, <2>4 DEF Release
      <3>2. calls[s].generation = LastGeneration
        BY <2>2, <2>4, SMTT(20)
      <3>3. calls'[s].generation = calls[s].generation /\ calls'[s].record = NoCall
        BY <3>1, SMTT(20) DEF CallSlot
      <3>4. calls'[s].retired = TRUE
        BY <3>1, SMTT(20) DEF CallSlot
      <3>5. calls'[s] \in CallSlot
        BY <3>1 DEF CallSlot
      <3> QED BY <1>2, <3>2, <3>3, <3>4, <3>5
    <2> QED BY <2>3, <2>4
  <1> QED BY <1>1, <1>2

\* Releasing calls: record and bytes leave together, and nothing else changes.
LEMMA ReleaseIs ==
  ASSUME CallsWell, NEW S \in SUBSET Pending, Release(S)
  PROVE  /\ CallsWell' /\ Pending' = Pending \ S /\ lastRequest' = lastRequest
         /\ OperationNamesOneCall
         /\ \A s \in CallSlots \ S : calls'[s] = calls[s]
  <1>1. \A s \in CallSlots : s \notin S => calls'[s] = calls[s]
    BY ReleasedSlot
  <1> USE <1>1
  <1>2. \A s \in S :
          /\ s \in CallSlots /\ calls'[s] \in CallSlot /\ calls'[s].record = NoCall
          /\ \/ ~ calls'[s].retired /\ calls'[s].generation = calls[s].generation + 1
             \/ /\ calls'[s].retired /\ calls'[s].generation = calls[s].generation
                /\ calls[s].generation = LastGeneration
    BY CallsTyped, ReleasedSlot
  <1> USE <1>2
  <1>3. Pending' = Pending \ S
    BY DEF Pending
  <1> USE <1>3
  <1>4. lastRequest' = lastRequest /\ retained' = retained - BytesOf(S)
    BY DEF Release
  <1> USE <1>4
  <1>5. calls' \in [CallSlots -> CallSlot]
    <2>1. calls' = [s \in CallSlots |-> calls'[s]]
      BY DEF Release
    <2> QED BY <2>1, CallsTyped
  <1>6. retained' = BytesOf(Pending)' /\ retained' <= ByteCapacity
    <2> DEFINE f == [s \in CallSlots |-> calls[s].record.bytes]
    <2>1. Pending \in SUBSET CallSlots /\ S \in SUBSET CallSlots /\ IsFiniteSet(Pending)
          /\ IsFiniteSet(S) /\ Pending \ S \in SUBSET CallSlots /\ IsFiniteSet(Pending \ S)
      BY CallsTyped, CallSlotsFinite
    <2> USE <2>1
    <2>2. \A s \in Pending : f[s] \in Nat
      BY CallsTyped
    <2>3. \A s \in CallSlots : f[s] = calls[s].record.bytes
      OBVIOUS
    <2>4. \A s \in Pending \ S : f[s] = calls'[s].record.bytes
      BY <2>3
    <2> HIDE DEF f
    <2>5. BytesOf(Pending) = Total(Pending, f) /\ BytesOf(S) = Total(S, f)
      BY <2>3, BytesAre
    <2>6. BytesOf(Pending)' = Total(Pending \ S, f)
      BY <2>4, BytesWillBe
    <2>7. Total(Pending, f) = Total(S, f) + Total(Pending \ S, f)
      BY <2>2, TotalSplit
    <2>8. Total(S, f) \in Nat /\ Total(Pending \ S, f) \in Nat
      BY <2>2, TotalNat
    <2>9. retained = Total(Pending, f) /\ retained <= ByteCapacity
      BY <2>5 DEF CallsWell
    <2>10. retained' = Total(Pending, f) - Total(S, f)
      BY <2>5, <2>9
    <2> QED BY <2>6, <2>7, <2>8, <2>9, <2>10, NativeAssumption, SMTT(20)
  <1>7. CallsWell'
    <2>1. \A s \in CallSlots : calls'[s].retired => calls'[s].record = NoCall
                                                    /\ calls'[s].generation = LastGeneration
      BY DEF CallsWell
    <2>2. \A s \in Pending \ S : s \in CallSlots /\ calls'[s] = calls[s]
      BY CallsTyped
    <2>3. \A s \in Pending' :
            /\ calls'[s].record.caller.task = OwnTask
            /\ calls'[s].record.request \in 1 .. lastRequest'
            /\ calls'[s].record.state = "Waiting" => calls'[s].record.key \in Identity
      BY <2>2 DEF CallsWell
    <2>4. Apart'
      <3> SUFFICES ASSUME NEW r \in Pending \ S, NEW s \in Pending \ S, r # s
                   PROVE  /\ ~Conflicts(calls'[r].record.caller, calls'[s].record.caller)
                          /\ calls'[r].record.request # calls'[s].record.request
        BY DEF Apart
      <3> QED BY <2>2, SMTT(20) DEF CallsWell, Apart
    <2> QED BY <1>5, <1>6, <2>1, <2>3, <2>4 DEF CallsWell
  <1>8. OperationNamesOneCall
    <2>1. ASSUME NEW s \in S
          PROVE  calls'[s].record = NoCall
                 /\ (calls'[s].generation > calls[s].generation \/ calls'[s].retired)
      <3>1. calls[s].generation + 1 > calls[s].generation
        BY CallsTyped, SMTT(20)
      <3> QED BY <3>1
    <2>2. ASSUME NEW s \in Pending \ S
          PROVE  calls'[s] = calls[s] /\ calls[s].record # NoCall
      BY DEF Pending
    <2> QED BY <2>1, <2>2 DEF OperationNamesOneCall
  <1> QED BY <1>7, <1>8

\* bind_wait, mark_ready and resolve move one call on and leave its caller, its
\* request and its bytes alone.
LEMMA MoveIs ==
  ASSUME CallsWell, NEW s \in Pending, NEW new \in CallRecord,
         new.caller = calls[s].record.caller, new.request = calls[s].record.request,
         new.bytes = calls[s].record.bytes, new.state = "Waiting" => new.key \in Identity,
         calls' = [calls EXCEPT ![s].record = new], UNCHANGED <<lastRequest, retained>>
  PROVE  /\ CallsWell' /\ Pending' = Pending /\ calls'[s].record = new
         /\ \A x \in CallSlots : Operation(x)' = Operation(x)
         /\ \A x \in CallSlots \ {s} : calls'[x] = calls[x]
         /\ calls'[s].generation = calls[s].generation
  <1>1. calls \in [CallSlots -> CallSlot] /\ s \in CallSlots /\ new # NoCall
    BY CallsTyped, AbsenceAssumption DEF CallsWell
  <1> USE <1>1
  <1>2. /\ calls'[s] \in CallSlot /\ calls'[s].record = new
        /\ calls'[s].retired = calls[s].retired /\ calls'[s].generation = calls[s].generation
    BY SMTT(20) DEF CallSlot
  <1> USE <1>2
  <1>3. \A x \in CallSlots \ {s} : calls'[x] = calls[x]
    OBVIOUS
  <1> USE <1>3
  <1>4. Pending' = Pending
    BY DEF Pending
  <1> USE <1>4
  <1>5. calls' \in [CallSlots -> CallSlot]
    <2>1. calls' = [x \in CallSlots |-> calls'[x]]
      OBVIOUS
    <2> QED BY <2>1
  <1>6. \A x \in Pending : /\ calls'[x].record.caller = calls[x].record.caller
                           /\ calls'[x].record.request = calls[x].record.request
                           /\ calls'[x].record.bytes = calls[x].record.bytes
    BY CallsTyped
  <1>7. BytesOf(Pending)' = BytesOf(Pending)
    <2> DEFINE f == [x \in CallSlots |-> calls[x].record.bytes]
    <2>1. \A x \in Pending : f[x] = calls[x].record.bytes
      BY CallsTyped
    <2> HIDE DEF f
    <2>2. \A x \in Pending : f[x] = calls'[x].record.bytes
      BY <1>6, <2>1
    <2>3. Pending \in SUBSET CallSlots
      BY CallsTyped
    <2>4. BytesOf(Pending) = Total(Pending, f)
      BY <2>1, <2>3, BytesAre
    <2>5. BytesOf(Pending)' = Total(Pending, f)
      BY <2>2, <2>3, BytesWillBe
    <2> QED BY <2>4, <2>5
  <1>8. CallsWell'
    <2>1. \A x \in CallSlots : calls'[x].retired => calls'[x].record = NoCall
                                                    /\ calls'[x].generation = LastGeneration
      BY CallsTyped DEF CallsWell
    <2>2. \A x \in Pending' :
            /\ calls'[x].record.caller.task = OwnTask
            /\ calls'[x].record.request \in 1 .. lastRequest'
            /\ calls'[x].record.state = "Waiting" => calls'[x].record.key \in Identity
      <3>1. \A x \in Pending : /\ calls[x].record.caller.task = OwnTask
                               /\ calls[x].record.request \in 1 .. lastRequest
                               /\ calls[x].record.state = "Waiting" => calls[x].record.key \in Identity
        BY DEF CallsWell
      <3>2. \A x \in Pending : calls'[x].record.state = "Waiting" => calls'[x].record.key \in Identity
        BY <3>1, CallsTyped
      <3>3. lastRequest' = lastRequest
        OBVIOUS
      <3> QED BY <1>6, <3>1, <3>2, <3>3
    <2>3. Apart'
      <3> SUFFICES ASSUME NEW x \in Pending, NEW y \in Pending, x # y
                   PROVE  /\ ~Conflicts(calls'[x].record.caller, calls'[y].record.caller)
                          /\ calls'[x].record.request # calls'[y].record.request
        BY DEF Apart
      <3>1. /\ ~Conflicts(calls[x].record.caller, calls[y].record.caller)
            /\ calls[x].record.request # calls[y].record.request
        BY DEF CallsWell, Apart
      <3> QED BY <1>6, <3>1
    <2> QED BY <1>5, <1>7, <2>1, <2>2, <2>3 DEF CallsWell
  <1>9. \A x \in CallSlots : Operation(x)' = Operation(x)
    BY DEF Operation
  <1> QED BY <1>8, <1>9

LEMMA ConflictsEitherWay ==
  ASSUME NEW a, NEW b, Conflicts(a, b)
  PROVE  Conflicts(b, a)
  BY DEF Conflicts

\* begin_for copies a request into a free slot, and charges its bytes.
LEMMA BeginIs ==
  ASSUME CallsWell, NEW s, NEW caller, NEW request \in Nat, NEW bytes \in Nat, NEW state, NEW key,
         Copied(caller, request, bytes, state, key) \in CallRecord, caller.task = OwnTask,
         state = "Waiting" => key \in Identity,
         BeginIn(s, caller, request, bytes, state, key)
  PROVE  /\ CallsWell' /\ s \in CallSlots /\ s \notin Pending /\ Pending' = Pending \cup {s}
         /\ ~ calls[s].retired /\ ~ calls'[s].retired /\ calls'[s].generation = calls[s].generation
         /\ calls'[s].record = Copied(caller, request, bytes, state, key)
         /\ \A x \in CallSlots : Operation(x)' = Operation(x)
         /\ \A x \in CallSlots \ {s} : calls'[x] = calls[x]
         /\ lastRequest' = request /\ request > lastRequest
  <1> DEFINE new == Copied(caller, request, bytes, state, key)
  <1>1. /\ new.caller = caller /\ new.request = request /\ new.bytes = bytes
        /\ new.state = state /\ new.key = key /\ new # NoCall /\ new \in CallRecord
    BY AbsenceAssumption, SMTT(20) DEF Copied
  <1> USE <1>1
  <1>2. /\ calls \in [CallSlots -> CallSlot] /\ s \in CallSlots /\ calls[s].record = NoCall
        /\ ~ calls[s].retired /\ calls' = [calls EXCEPT ![s].record = new]
        /\ lastRequest' = request /\ retained' = retained + bytes
        /\ request > lastRequest /\ retained + bytes <= ByteCapacity
        /\ \A x \in Pending : ~Conflicts(calls[x].record.caller, caller)
    BY DEF CallsWell, BeginIn, FreeCalls, CanBegin
  <1> USE <1>2
  <1> HIDE DEF new
  <1>3. /\ calls'[s] \in CallSlot /\ calls'[s].record = new
        /\ calls'[s].retired = calls[s].retired /\ calls'[s].generation = calls[s].generation
    BY SMTT(20) DEF CallSlot
  <1> USE <1>3
  <1>4. \A x \in CallSlots \ {s} : calls'[x] = calls[x]
    OBVIOUS
  <1> USE <1>4
  <1>5. Pending' = Pending \cup {s} /\ s \notin Pending
    BY DEF Pending
  <1> USE <1>5
  <1>6. calls' \in [CallSlots -> CallSlot]
    <2>1. calls' = [x \in CallSlots |-> calls'[x]]
      OBVIOUS
    <2> QED BY <2>1
  <1>7. \A x \in Pending : x \in CallSlots \ {s} /\ calls'[x] = calls[x]
    BY CallsTyped
  <1> USE <1>7
  <1>8. retained' = BytesOf(Pending)' /\ retained' <= ByteCapacity
    <2> DEFINE f == [x \in CallSlots |-> calls'[x].record.bytes]
               P == Pending \cup {s}
    <2>1. \A x \in CallSlots : f[x] = calls'[x].record.bytes
      OBVIOUS
    <2> USE <2>1
    <2> HIDE DEF f
    <2>2. Pending \in SUBSET CallSlots /\ P \in SUBSET CallSlots
      BY CallsTyped
    <2> USE <2>2
    <2>3. \A x \in Pending : f[x] = calls[x].record.bytes
      OBVIOUS
    <2>4. \A x \in P : f[x] \in Nat
      BY <2>3, CallsTyped
    <2>5. BytesOf(Pending) = Total(Pending, f)
      BY <2>3, BytesAre
    <2>6. BytesOf(Pending)' = Total(P, f)
      BY BytesWillBe
    <2>7. Total(P, f) = f[s] + Total(P \ {s}, f)
      <3>1. IsFiniteSet(P) /\ s \in P
        BY CallSlotsFinite
      <3> HIDE <1>1, <1>2, <1>3, <1>4, <1>5, <1>7, <2>1 DEF P
      <3> QED BY <2>4, <3>1, TotalRemove
    <2>8. P \ {s} = Pending
      BY SMTT(20)
    <2>9. f[s] = bytes
      OBVIOUS
    <2>10. Total(Pending, f) \in Nat
      BY <2>4, CallSlotsFinite, TotalNat
    <2>11. retained = Total(Pending, f) /\ BytesOf(Pending)' = bytes + Total(Pending, f)
      BY <2>5, <2>6, <2>7, <2>8, <2>9 DEF CallsWell
    <2> QED BY <2>10, <2>11, SMTT(20)
  <1>9. CallsWell'
    <2>1. \A x \in CallSlots : calls'[x].retired => calls'[x].record = NoCall
                                                    /\ calls'[x].generation = LastGeneration
      BY DEF CallsWell
    <2>2. request \in 1 .. request /\ lastRequest \in Nat /\ \A n \in 1 .. lastRequest : n \in 1 .. request /\ n # request
      BY SMTT(20) DEF CallsWell
    <2>3. \A x \in Pending : /\ calls[x].record.caller.task = OwnTask
                             /\ calls[x].record.request \in 1 .. lastRequest
                             /\ calls[x].record.state = "Waiting" => calls[x].record.key \in Identity
      BY DEF CallsWell
    <2>4. \A x \in Pending' :
            /\ calls'[x].record.caller.task = OwnTask
            /\ calls'[x].record.request \in 1 .. lastRequest'
            /\ calls'[x].record.state = "Waiting" => calls'[x].record.key \in Identity
      BY <2>2, <2>3
    <2>5. Apart'
      <3> SUFFICES ASSUME NEW x \in Pending \cup {s}, NEW y \in Pending \cup {s}, x # y
                   PROVE  /\ ~Conflicts(calls'[x].record.caller, calls'[y].record.caller)
                          /\ calls'[x].record.request # calls'[y].record.request
        BY DEF Apart
      <3>1. CASE x \in Pending /\ y \in Pending
        BY <3>1 DEF CallsWell, Apart
      <3>2. CASE x \in Pending /\ y = s
        BY <2>2, <2>3, <3>2
      <3>3. CASE y \in Pending /\ x = s
        BY <2>2, <2>3, <3>3, ConflictsEitherWay
      <3> QED BY <3>1, <3>2, <3>3
    <2> QED BY <1>6, <1>8, <2>1, <2>4, <2>5 DEF CallsWell
  <1>10. \A x \in CallSlots : Operation(x)' = Operation(x)
    BY DEF Operation
  <1> QED BY <1>9, <1>10 DEF new

\* A call that begins and ends in one step spends a generation of a free slot.
LEMMA BumpIs ==
  ASSUME CallsWell, NEW s \in FreeCalls, UNCHANGED retained, lastRequest' = lastRequest + 1,
         calls' = [calls EXCEPT ![s].generation = IF @ < LastGeneration THEN @ + 1 ELSE @,
                                ![s].retired = calls[s].generation = LastGeneration]
  PROVE  /\ CallsWell' /\ Pending' = Pending /\ s \notin Pending /\ s \in CallSlots
         /\ \A x \in CallSlots \ {s} : calls'[x] = calls[x]
         /\ calls'[s].record = NoCall /\ ~ calls[s].retired
         /\ \/ ~ calls'[s].retired /\ calls'[s].generation = calls[s].generation + 1
            \/ calls'[s].retired /\ calls'[s].generation = calls[s].generation
  <1>1. /\ calls \in [CallSlots -> CallSlot] /\ s \in CallSlots /\ calls[s].record = NoCall
        /\ ~ calls[s].retired /\ calls[s] \in CallSlot /\ lastRequest \in Nat
    BY DEF CallsWell, FreeCalls
  <1> USE <1>1
  <1>2. calls[s].generation \in 1 .. LastGeneration /\ LastGeneration \in Nat
    BY NativeAssumption, SMTT(20) DEF CallSlot
  <1> DEFINE g == IF calls[s].generation < LastGeneration THEN calls[s].generation + 1 ELSE calls[s].generation
             r == calls[s].generation = LastGeneration
  <1>3. g \in 1 .. LastGeneration /\ r \in BOOLEAN
    BY <1>2, SMTT(20)
  <1>4. calls' = [calls EXCEPT ![s] = [calls[s] EXCEPT !.generation = g, !.retired = r]]
    OBVIOUS
  <1>5. \/ r = FALSE /\ g = calls[s].generation + 1
        \/ r = TRUE /\ g = calls[s].generation /\ g = LastGeneration
    BY <1>2, SMTT(20)
  <1> HIDE DEF g, r
  <1>6. calls'[s] = [calls[s] EXCEPT !.generation = g, !.retired = r]
    BY <1>4
  <1>7. calls'[s] \in CallSlot /\ calls'[s].generation = g /\ calls'[s].record = NoCall
    BY <1>3, <1>6 DEF CallSlot
  <1> USE <1>7
  <1>8. calls'[s].retired = r
    BY <1>6 DEF CallSlot
  <1>9. \A x \in CallSlots \ {s} : calls'[x] = calls[x]
    BY <1>4
  <1> USE <1>9
  <1>10. Pending' = Pending /\ s \notin Pending
    BY DEF Pending
  <1> USE <1>10
  <1>11. calls' \in [CallSlots -> CallSlot]
    <2>1. calls' = [x \in CallSlots |-> calls'[x]]
      BY <1>4
    <2> QED BY <2>1
  <1>12. \A x \in Pending : x \in CallSlots /\ calls'[x] = calls[x]
    BY CallsTyped
  <1>13. BytesOf(Pending)' = BytesOf(Pending)
    <2> DEFINE f == [x \in CallSlots |-> calls[x].record.bytes]
    <2>1. \A x \in Pending : f[x] = calls[x].record.bytes
      BY CallsTyped
    <2> HIDE DEF f
    <2>2. \A x \in Pending : f[x] = calls'[x].record.bytes
      BY <1>12, <2>1
    <2>3. Pending \in SUBSET CallSlots
      BY CallsTyped
    <2>4. BytesOf(Pending) = Total(Pending, f)
      BY <2>1, <2>3, BytesAre
    <2>5. BytesOf(Pending)' = Total(Pending, f)
      BY <2>2, <2>3, BytesWillBe
    <2> QED BY <2>4, <2>5
  <1>14. CallsWell'
    <2>1. \A x \in CallSlots : calls'[x].retired => calls'[x].record = NoCall
                                                    /\ calls'[x].generation = LastGeneration
      BY <1>5, <1>8 DEF CallsWell
    <2>2. lastRequest' \in Nat /\ \A n \in 1 .. lastRequest : n \in 1 .. lastRequest'
      BY SMTT(20)
    <2>3. \A x \in Pending' :
            /\ calls'[x].record.caller.task = OwnTask
            /\ calls'[x].record.request \in 1 .. lastRequest'
            /\ calls'[x].record.state = "Waiting" => calls'[x].record.key \in Identity
      BY <1>12, <2>2 DEF CallsWell
    <2>4. Apart'
      <3> SUFFICES ASSUME NEW x \in Pending, NEW y \in Pending, x # y
                   PROVE  /\ ~Conflicts(calls'[x].record.caller, calls'[y].record.caller)
                          /\ calls'[x].record.request # calls'[y].record.request
        BY DEF Apart
      <3>1. /\ ~Conflicts(calls[x].record.caller, calls[y].record.caller)
            /\ calls[x].record.request # calls[y].record.request
        BY DEF CallsWell, Apart
      <3> QED BY <1>12, <3>1
    <2> QED BY <1>11, <1>13, <2>1, <2>2, <2>3, <2>4 DEF CallsWell
  <1> QED BY <1>5, <1>8, <1>14

-----------------------------------------------------------------------------
(* The two tables used in every order.                                       *)

LEMMA HeldLive ==
  ASSUME WaitsWell, NEW w \in Held
  PROVE  /\ w \in WaitSlots /\ ~ waits[w].retired /\ waits[w] \in WaitSlot
         /\ waits[w].record \in Registration /\ Key(w) \in Identity
  <1>1. w \in WaitSlots /\ waits[w] \in WaitSlot /\ waits[w].record # NoWait
    BY DEF WaitsWell, Held
  <1> USE <1>1
  <1>2. ~ waits[w].retired
    BY DEF WaitsWell
  <1>3. waits[w].record \in Registration
    BY SMTT(20) DEF WaitSlot
  <1>4. w \in Nat /\ waits[w].generation \in Nat
    BY NativeAssumption, SMTT(20) DEF WaitSlot, WaitSlots
  <1> QED BY <1>2, <1>3, <1>4, SMTT(20) DEF Key, Identity

\* A live key is not over.
LEMMA LiveNotOver ==
  ASSUME WaitsWell, NEW w \in Held, NEW k, k = Key(w)
  PROVE  ~ Over(k)
  <1>1. w \in WaitSlots /\ ~ waits[w].retired /\ waits[w].generation \in Nat
    BY HeldLive, NativeAssumption, SMTT(20) DEF WaitSlot
  <1>2. k.slot = w /\ k.generation = waits[w].generation
    BY SMTT(20) DEF Key
  <1>3. ~ (waits[w].generation > k.generation)
    BY <1>1, <1>2, SMTT(20)
  <1> QED BY <1>1, <1>2, <1>3 DEF Over

LEMMA WaitsSame ==
  ASSUME WaitsWell, waits' = waits
  PROVE  WaitsWell' /\ KeyNamesOneWait /\ Held' = Held /\ \A k : Over(k)' <=> Over(k)
  <1>1. WaitsWell' /\ Held' = Held
    BY DEF WaitsWell, Held
  <1>2. \A k : Over(k)' <=> Over(k)
    BY DEF Over
  <1>3. ASSUME NEW s \in WaitSlots
        PROVE  waits[s].generation \in Nat /\ waits[s].generation >= waits[s].generation
    <2>1. waits[s] \in WaitSlot
      BY DEF WaitsWell
    <2> QED BY <2>1, NativeAssumption, SMTT(20) DEF WaitSlot
  <1> QED BY <1>1, <1>2, <1>3 DEF KeyNamesOneWait

LEMMA CallsSame ==
  ASSUME CallsWell, UNCHANGED callVars
  PROVE  CallsWell' /\ OperationNamesOneCall /\ Pending' = Pending
  <1>1. calls' = calls /\ lastRequest' = lastRequest /\ retained' = retained
    BY DEF callVars
  <1> USE <1>1
  <1>2. Pending' = Pending /\ Apart' = Apart
    BY DEF Pending, Apart
  <1>3. BytesOf(Pending)' = BytesOf(Pending)
    BY <1>2 DEF BytesOf, MapThenSumSet, MapThenFoldSet
  <1>4. CallsWell'
    BY <1>2, <1>3 DEF CallsWell
  <1>5. OperationNamesOneCall
    BY DEF OperationNamesOneCall, Pending
  <1> QED BY <1>2, <1>4, <1>5

\* A wait keeps its call when neither is touched.
LEMMA LinkSurvives ==
  ASSUME NEW w \in WaitSlots, NEW s \in Named(waits[w].record.operation), Waits(s, w),
         waits'[w] = waits[w], calls'[s] = calls[s]
  PROVE  \E x \in Named(waits[w].record.operation)' : Waits(x, w)'
  <1>1. s \in Named(waits[w].record.operation)'
    BY DEF Named, Pending, Operation
  <1>2. Waits(s, w)'
    BY DEF Waits, Key
  <1> QED BY <1>1, <1>2

\* The waits of S end; their completions are handed out or dropped.
LEMMA ResolveKeepsTables ==
  ASSUME TablesInv, NEW S \in SUBSET Held, waits' = Resolved(S), UNCHANGED callVars,
         \A c \in completions' \ completions : \E w \in S : c.key = Key(w)
  PROVE  TablesInv' /\ KeyNamesOneWait /\ OperationNamesOneCall
  <1>1. WaitsWell /\ CallsWell /\ Linked /\ CompletionsOver
    BY DEF TablesInv
  <1> USE <1>1
  <1>2. /\ WaitsWell' /\ Held' = Held \ S /\ KeyNamesOneWait
        /\ \A w \in WaitSlots \ S : waits'[w] = waits[w]
        /\ \A w \in S, k \in Identity : k = Key(w) => Over(k)'
        /\ \A k \in Identity : Over(k) => Over(k)'
    BY ResolvedIs
  <1> USE <1>2
  <1>3. CallsWell' /\ OperationNamesOneCall /\ calls' = calls
    BY CallsSame DEF callVars
  <1>4. Linked'
    <2> SUFFICES ASSUME NEW w \in Held'
                 PROVE  \E x \in Named(waits[w].record.operation)' : Waits(x, w)'
      BY DEF Linked
    <2>1. w \in Held /\ w \in WaitSlots \ S
      BY DEF Held
    <2>2. waits'[w] = waits[w]
      BY <2>1
    <2>3. PICK s \in Named(waits[w].record.operation) : Waits(s, w)
      BY <2>1 DEF Linked
    <2> QED BY <1>3, <2>1, <2>2, <2>3, LinkSurvives
  <1>5. CompletionsOver'
    <2> SUFFICES ASSUME NEW c \in completions'
                 PROVE  c.key \in Identity /\ Over(c.key)'
      BY DEF CompletionsOver, Over
    <2>1. CASE c \in completions
      BY <2>1 DEF CompletionsOver
    <2>2. CASE c \notin completions
      <3>1. PICK w \in S : c.key = Key(w)
        BY <2>2
      <3>2. Key(w) \in Identity
        BY <3>1, HeldLive
      <3> QED BY <3>1, <3>2
    <2> QED BY <2>1, <2>2
  <1> QED BY <1>3, <1>4, <1>5 DEF TablesInv

LEMMA NothingResolved ==
  ASSUME WaitsWell
  PROVE  waits = Resolved({})
  BY DEF WaitsWell, Resolved

LEMMA EndsResolve ==
  ASSUME WaitsWell, Ends
  PROVE  \E S \in SUBSET Held : waits' = Resolved(S)
  <1>1. ASSUME NEW k, NEW r, WakeKey(k, r)
        PROVE  \E S \in SUBSET Held : waits' = Resolved(S)
    BY <1>1 DEF WakeKey
  <1>2. ASSUME NEW r, NEW x, WakeResource(r, x)
        PROVE  \E S \in SUBSET Held : waits' = Resolved(S)
    BY <1>2 DEF WakeResource, Matching
  <1>3. ASSUME NEW o, NEW r, NEW b, ObserveOperation(o, r, b, now)
        PROVE  \E S \in SUBSET Held : waits' = Resolved(S)
    <2>1. PICK s \in OfOperation(o) : waits' = waits \/ waits' = Resolved({s})
      BY <1>3 DEF ObserveOperation
    <2>2. s \in Held
      BY <2>1 DEF OfOperation
    <2> QED BY <2>1, <2>2, NothingResolved
  <1>4. ASSUME Expire(now)
        PROVE  \E S \in SUBSET Held : waits' = Resolved(S)
    BY <1>4 DEF Expire, Expired
  <1>5. ASSUME NEW o, CancelOperation(o, "Cancelled")
        PROVE  \E S \in SUBSET Held : waits' = Resolved(S)
    BY <1>5 DEF CancelOperation, OfOperation
  <1>6. ASSUME CancelOwner(1, "Revoked")
        PROVE  \E S \in SUBSET Held : waits' = Resolved(S)
    <2>1. {s \in OfTask(1) : \A r \in OfTask(1) : s <= r} \in SUBSET Held
      BY DEF OfTask
    <2> QED BY <1>6, <2>1 DEF CancelOwner
  <1> QED BY <1>1, <1>2, <1>3, <1>4, <1>5, <1>6 DEF Ends

\* Every wait and every call of the task leaves.
LEMMA RevokeKeepsTables ==
  ASSUME TablesInv, completions' = completions, DiscardOwner(OwnTask, "Revoked"),
         TeardownOwner(OwnTask, "Revoked")
  PROVE  /\ TablesInv' /\ KeyNamesOneWait /\ OperationNamesOneCall
         /\ Held' = {} /\ Pending' = {} /\ lastRequest' = lastRequest
         /\ waits' = Resolved(Held) /\ Release(Pending)
  <1>1. WaitsWell /\ CallsWell /\ CompletionsOver
    BY DEF TablesInv
  <1> USE <1>1
  <1>2. OfTask(OwnTask) = Held /\ CallsOf(OwnTask) = Pending
    BY DEF OfTask, CallsOf, WaitsWell, CallsWell
  <1>3. waits' = Resolved(Held) /\ Release(Pending)
    BY <1>2 DEF DiscardOwner, TeardownOwner
  <1>4. /\ WaitsWell' /\ Held' = {} /\ KeyNamesOneWait
        /\ \A k \in Identity : Over(k) => Over(k)'
    BY <1>3, ResolvedIs
  <1>5. CallsWell' /\ Pending' = {} /\ OperationNamesOneCall /\ lastRequest' = lastRequest
    BY <1>3, ReleaseIs
  <1>6. Linked' /\ CompletionsOver'
    BY <1>4 DEF Linked, CompletionsOver
  <1> QED BY <1>3, <1>4, <1>5, <1>6 DEF TablesInv

\* Calls that no wait is bound to change or leave.
LEMMA CallsKeepTables ==
  ASSUME TablesInv, CallsWell', UNCHANGED <<waits, completions>>, NEW s,
         \A x \in Pending \ {s} : calls'[x] = calls[x],
         \A w \in Held : s \in Pending => ~ Waits(s, w)
  PROVE  TablesInv' /\ KeyNamesOneWait
  <1>1. WaitsWell /\ CallsWell /\ Linked /\ CompletionsOver /\ waits' = waits
    BY DEF TablesInv
  <1> USE <1>1
  <1>2. WaitsWell' /\ KeyNamesOneWait /\ Held' = Held /\ \A k : Over(k)' <=> Over(k)
    BY WaitsSame
  <1>3. Linked'
    <2> SUFFICES ASSUME NEW w \in Held
                 PROVE  \E x \in Named(waits[w].record.operation)' : Waits(x, w)'
      BY <1>2 DEF Linked
    <2>1. PICK r \in Named(waits[w].record.operation) : Waits(r, w)
      BY DEF Linked
    <2>2. r \in Pending /\ calls'[r] = calls[r]
      BY <2>1 DEF Named
    <2>3. w \in WaitSlots /\ waits'[w] = waits[w]
      BY DEF Held
    <2> QED BY <2>1, <2>2, <2>3, LinkSurvives
  <1>4. CompletionsOver'
    BY <1>2 DEF CompletionsOver
  <1> QED BY <1>2, <1>3, <1>4 DEF TablesInv

LEMMA FinishKeepsTables ==
  ASSUME TablesInv, UNCHANGED <<waits, completions>>, NEW o, FinishCall(o)
  PROVE  TablesInv' /\ KeyNamesOneWait /\ OperationNamesOneCall
  <1>1. CallsWell
    BY DEF TablesInv
  <1>2. PICK s \in Pending : calls[s].record.state = "Ready" /\ Release({s})
    BY DEF FinishCall, Named
  <1>3. CallsWell' /\ OperationNamesOneCall /\ \A x \in CallSlots \ {s} : calls'[x] = calls[x]
    BY <1>1, <1>2, ReleaseIs
  <1>4. \A x \in Pending \ {s} : calls'[x] = calls[x]
    BY <1>3 DEF Pending
  <1>5. \A w \in Held : ~ Waits(s, w)
    BY <1>2, SMTT(20) DEF Waits
  <1> QED BY <1>3, <1>4, <1>5, CallsKeepTables

\* A call that goes on to be ready.
LEMMA ReadyIs ==
  ASSUME CallsWell, NEW s \in Pending, calls[s].record.state # "Ready",
         calls' = [calls EXCEPT ![s].record.state = "Ready"], UNCHANGED <<lastRequest, retained>>
  PROVE  /\ CallsWell' /\ Pending' = Pending /\ OperationNamesOneCall
         /\ \A x \in Pending \ {s} : calls'[x] = calls[x]
  <1> DEFINE new == [calls[s].record EXCEPT !.state = "Ready"]
  <1>1. /\ calls \in [CallSlots -> CallSlot] /\ s \in CallSlots /\ calls[s] \in CallSlot
        /\ calls[s].record \in CallRecord
    BY CallsTyped DEF CallsWell
  <1>2. calls' = [calls EXCEPT ![s].record = new]
    BY <1>1, SMTT(20) DEF CallSlot
  <1>3. new \in CallRecord /\ new.caller = calls[s].record.caller /\ new.state # "Waiting"
    BY <1>1, SMTT(20) DEF CallRecord
  <1>4. new.request = calls[s].record.request /\ new.bytes = calls[s].record.bytes
    BY <1>1, SMTT(20) DEF CallRecord
  <1>5. new = [calls[s].record EXCEPT !.state = "Ready"] /\ new # NoCall
    BY <1>3, AbsenceAssumption
  <1> HIDE DEF new
  <1>6. /\ CallsWell' /\ Pending' = Pending /\ calls'[s].record = new
        /\ \A x \in CallSlots : Operation(x)' = Operation(x)
        /\ \A x \in CallSlots \ {s} : calls'[x] = calls[x]
        /\ calls'[s].generation = calls[s].generation
    BY <1>2, <1>3, <1>4, MoveIs
  <1>7. \A x \in Pending \ {s} : calls'[x] = calls[x] /\ calls[x].record # NoCall
    BY <1>6 DEF Pending
  <1>8. OperationNamesOneCall
    BY <1>5, <1>6, <1>7 DEF OperationNamesOneCall
  <1> QED BY <1>6, <1>7, <1>8

LEMMA DeliverKeepsTables ==
  ASSUME TablesInv, Deliver
  PROVE  TablesInv' /\ KeyNamesOneWait /\ OperationNamesOneCall
  <1>1. WaitsWell /\ CallsWell /\ CompletionsOver /\ UNCHANGED <<waits, completions>>
    BY DEF TablesInv, Deliver
  <1>2. PICK c \in completions : ResolveCall(c.operation, c.caller, c.key)
    BY DEF Deliver
  <1>3. PICK s \in Pending : /\ calls[s].record.state = "Waiting" /\ calls[s].record.key = c.key
                             /\ calls' = [calls EXCEPT ![s].record.state = "Ready"]
    BY <1>2 DEF ResolveCall, Resolvable, Named
  <1>4. UNCHANGED <<lastRequest, retained>> /\ calls[s].record.state # "Ready"
    BY <1>2, <1>3, SMTT(20) DEF ResolveCall
  <1>5. /\ CallsWell' /\ OperationNamesOneCall
        /\ \A x \in Pending \ {s} : calls'[x] = calls[x]
    BY <1>1, <1>3, <1>4, ReadyIs
  <1>6. \A w \in Held : ~ Waits(s, w)
    <2> SUFFICES ASSUME NEW w \in Held, Waits(s, w)
                 PROVE  FALSE
      OBVIOUS
    <2>1. c.key = Key(w)
      BY <1>3 DEF Waits
    <2> QED BY <1>1, <1>2, <2>1, LiveNotOver DEF CompletionsOver
  <1> QED BY <1>1, <1>5, <1>6, CallsKeepTables

LEMMA BeginKeepsTables ==
  ASSUME TablesInv, UNCHANGED <<waits, completions>>, NEW c \in Callers, NEW n \in 1 .. MaxRequest,
         NEW b \in 1 .. ByteCapacity, Begin(c, n, b)
  PROVE  TablesInv' /\ KeyNamesOneWait /\ OperationNamesOneCall
  <1>1. CallsWell
    BY DEF TablesInv
  <1>2. PICK s \in FreeCalls : BeginIn(s, c, n, b, "New", NoWait)
    BY DEF Begin
  <1>3. c \in CallerId /\ c.task = OwnTask /\ n \in Nat /\ b \in Nat
    BY NativeAssumption, SMTT(20) DEF Callers, CallerOf, CallerId, OwnTask
  <1>4. Copied(c, n, b, "New", NoWait) \in CallRecord
    BY <1>3, SMTT(20) DEF Copied, CallRecord
  <1>5. /\ CallsWell' /\ s \in CallSlots /\ s \notin Pending
        /\ \A x \in CallSlots \ {s} : calls'[x] = calls[x]
    BY <1>1, <1>2, <1>3, <1>4, BeginIs
  <1>6. \A x \in Pending : calls'[x] = calls[x] /\ calls[x].record # NoCall
    BY <1>5 DEF Pending
  <1>7. OperationNamesOneCall
    BY <1>6 DEF OperationNamesOneCall
  <1> QED BY <1>5, <1>6, <1>7, CallsKeepTables

\* A new call is bound to the wait that was just published for it.
LEMMA BindIs ==
  ASSUME CallsWell, NEW s \in Pending, calls[s].record.state = "New", NEW k \in Identity,
         calls' = [calls EXCEPT ![s].record.state = "Waiting", ![s].record.key = k],
         UNCHANGED <<lastRequest, retained>>
  PROVE  /\ CallsWell' /\ Pending' = Pending /\ OperationNamesOneCall
         /\ Operation(s)' = Operation(s)
         /\ calls'[s].record.state = "Waiting" /\ calls'[s].record.key = k
         /\ calls'[s].record.caller = calls[s].record.caller
         /\ \A x \in Pending \ {s} : calls'[x] = calls[x]
  <1> DEFINE new == [calls[s].record EXCEPT !.state = "Waiting", !.key = k]
  <1>1. /\ calls \in [CallSlots -> CallSlot] /\ s \in CallSlots /\ calls[s] \in CallSlot
        /\ calls[s].record \in CallRecord
    BY CallsTyped DEF CallsWell
  <1> USE <1>1
  <1>2. calls' = [calls EXCEPT ![s].record = new]
    BY DEF CallSlot
  <1>3. /\ new \in CallRecord /\ new.caller = calls[s].record.caller
        /\ new.state = "Waiting" /\ new.key = k
    BY DEF CallRecord
  <1> USE <1>3
  <1>4. new.request = calls[s].record.request /\ new.bytes = calls[s].record.bytes
    BY SMTT(20) DEF CallRecord
  <1>5. new = [calls[s].record EXCEPT !.state = "Waiting", !.key = k] /\ new # NoCall
    BY AbsenceAssumption
  <1> HIDE DEF new
  <1>6. /\ CallsWell' /\ Pending' = Pending /\ calls'[s].record = new
        /\ \A x \in CallSlots : Operation(x)' = Operation(x)
        /\ \A x \in CallSlots \ {s} : calls'[x] = calls[x]
        /\ calls'[s].generation = calls[s].generation
    BY <1>2, <1>4, MoveIs
  <1>7. \A x \in Pending \ {s} : calls'[x] = calls[x] /\ calls[x].record # NoCall
    BY <1>6 DEF Pending
  <1>8. OperationNamesOneCall
    BY <1>5, <1>6, <1>7 DEF OperationNamesOneCall
  <1> QED BY <1>6, <1>7, <1>8

\* A published wait and the call that is bound to it keep the tables linked.
LEMMA PublishKeepsTables ==
  ASSUME TablesInv, NEW spec \in Registration, ValidSpec(spec), spec.caller.task = OwnTask,
         NEW w, Publish(spec, w), completions' = completions, CallsWell', NEW s,
         \A x \in Pending \ {s} : calls'[x] = calls[x],
         \A x \in Held : s \in Pending => ~ Waits(s, x),
         s \in Named(spec.operation)', calls'[s].record.state = "Waiting",
         calls'[s].record.key = Key(w), calls'[s].record.caller = spec.caller
  PROVE  TablesInv' /\ KeyNamesOneWait
  <1>1. WaitsWell /\ CallsWell /\ Linked /\ CompletionsOver
    BY DEF TablesInv
  <1>2. /\ WaitsWell' /\ w \in WaitSlots /\ w \notin Held /\ Held' = Held \cup {w}
        /\ KeyNamesOneWait /\ waits'[w].record = spec
        /\ \A x \in WaitSlots : Key(x)' = Key(x)
        /\ \A x \in WaitSlots \ {w} : waits'[x] = waits[x]
        /\ \A k \in Identity : Over(k) => Over(k)'
    BY <1>1, PublishIs
  <1> USE <1>2
  <1>3. ASSUME NEW x \in Held
        PROVE  \E r \in Named(waits[x].record.operation)' : Waits(r, x)'
    <2>1. PICK r \in Named(waits[x].record.operation) : Waits(r, x)
      BY <1>1 DEF Linked
    <2>2. r \in Pending /\ calls'[r] = calls[r]
      BY <2>1 DEF Named
    <2>3. x \in WaitSlots /\ waits'[x] = waits[x]
      BY DEF Held
    <2> QED BY <2>1, <2>2, <2>3, LinkSurvives
  <1>4. s \in Named(waits[w].record.operation)' /\ Waits(s, w)'
    BY DEF Named, Waits
  <1>5. Linked'
    BY <1>3, <1>4 DEF Linked
  <1>6. CompletionsOver'
    BY <1>1 DEF CompletionsOver
  <1> QED BY <1>5, <1>6 DEF TablesInv

LEMMA SpecsRegister ==
  ASSUME CallsWell, NEW s \in Pending, NEW spec \in Specs(s)
  PROVE  /\ spec \in Registration /\ ValidSpec(spec) /\ spec.caller = calls[s].record.caller
         /\ spec.caller.task = OwnTask /\ spec.operation = Operation(s)
  <1>1. /\ calls[s].record \in CallRecord /\ calls[s].record.caller.task = OwnTask
        /\ s \in CallSlots /\ calls[s].generation \in Nat
    BY CallsTyped DEF CallsWell
  <1>2. calls[s].record.caller \in CallerId
    BY <1>1, SMTT(20) DEF CallRecord
  <1>3. Operation(s) \in Identity
    BY <1>1, NativeAssumption, SMTT(20) DEF Operation, Identity, CallSlots
  <1>4. MaxTime \in Nat /\ NoDeadline # MaxTime /\ NoResource # 1
    BY AbsenceAssumption, NativeAssumption, SMTT(20)
  <1>5. PICK x \in {<<NoResource, {"Deadline"}>>, <<1, {"ResourceReady", "Deadline"}>>,
                    <<1, {"ResourceReady"}>>} :
          spec = [caller |-> calls[s].record.caller, operation |-> Operation(s), resource |-> x[1],
                  interests |-> x[2], deadline |-> MaxTime]
    BY DEF Specs
  <1>6. /\ x[1] \in {NoResource, 1} /\ x[2] \in SUBSET {"ResourceReady", "Deadline"}
        /\ x[2] # {} /\ ("ResourceReady" \in x[2] => x[1] # NoResource)
    BY <1>4, <1>5, SMTT(20)
  <1> QED BY <1>1, <1>2, <1>3, <1>4, <1>5, <1>6, SMTT(20) DEF Registration, ValidSpec

LEMMA SuspendKeepsTables ==
  ASSUME TablesInv, AnySuspend
  PROVE  TablesInv' /\ KeyNamesOneWait /\ OperationNamesOneCall
  <1>1. WaitsWell /\ CallsWell /\ completions' = completions
    BY DEF TablesInv, AnySuspend
  <1> USE <1>1
  <1>2. PICK s \in Pending, o \in {"Pending", "ResourceReady"} : \E spec \in Specs(s) :
        /\ Register(spec, o, now)
        /\ \/ MarkReady(Operation(s)) /\ waits' = waits
           \/ \E w \in FreeWaits : waits'[w] # waits[w] /\ BindWait(Operation(s), Key(w))
    BY DEF AnySuspend
  <1>3. PICK spec \in Specs(s) :
        /\ Register(spec, o, now)
        /\ \/ MarkReady(Operation(s)) /\ waits' = waits
           \/ \E w \in FreeWaits : waits'[w] # waits[w] /\ BindWait(Operation(s), Key(w))
    BY <1>2
  <1>4. \A x \in Named(Operation(s)) : x = s
    BY SMTT(20) DEF Named, Operation
  <1>5. CASE MarkReady(Operation(s)) /\ waits' = waits
    <2>1. /\ calls[s].record.state = "New" /\ UNCHANGED <<lastRequest, retained>>
          /\ calls' = [calls EXCEPT ![s].record.state = "Ready"]
      BY <1>4, <1>5 DEF MarkReady
    <2>2. calls[s].record.state # "Ready" /\ \A w \in Held : ~ Waits(s, w)
      BY <2>1, SMTT(20) DEF Waits
    <2>3. CallsWell' /\ OperationNamesOneCall /\ \A x \in Pending \ {s} : calls'[x] = calls[x]
      BY <2>1, <2>2, ReadyIs
    <2> QED BY <1>5, <2>2, <2>3, CallsKeepTables
  <1>6. ASSUME NEW w \in FreeWaits, waits'[w] # waits[w], BindWait(Operation(s), Key(w))
        PROVE  TablesInv' /\ KeyNamesOneWait /\ OperationNamesOneCall
    <2>1. /\ spec \in Registration /\ ValidSpec(spec) /\ spec.caller = calls[s].record.caller
          /\ spec.caller.task = OwnTask /\ spec.operation = Operation(s)
      BY SpecsRegister
    <2>2. PICK v \in FreeWaits : Publish(spec, v)
      BY <1>3, <1>6 DEF Register
    <2>3. w = v
      <3>1. \A x \in WaitSlots \ {v} : waits'[x] = waits[x]
        BY <2>1, <2>2, PublishIs
      <3> QED BY <1>6, <3>1 DEF FreeWaits
    <2>4. Key(w) \in Identity
      <3>1. w \in WaitSlots /\ waits[w] \in WaitSlot
        BY DEF FreeWaits, WaitsWell
      <3> QED BY <3>1, NativeAssumption, SMTT(20) DEF WaitSlots, WaitSlot, Key, Identity
    <2>5. /\ calls[s].record.state = "New" /\ UNCHANGED <<lastRequest, retained>>
          /\ calls' = [calls EXCEPT ![s].record.state = "Waiting", ![s].record.key = Key(w)]
      BY <1>4, <1>6 DEF BindWait
    <2>6. /\ CallsWell' /\ Pending' = Pending /\ OperationNamesOneCall
          /\ Operation(s)' = Operation(s)
          /\ calls'[s].record.state = "Waiting" /\ calls'[s].record.key = Key(w)
          /\ calls'[s].record.caller = calls[s].record.caller
          /\ \A x \in Pending \ {s} : calls'[x] = calls[x]
      BY <2>4, <2>5, BindIs
    <2>7. \A x \in Held : ~ Waits(s, x)
      BY <2>5, SMTT(20) DEF Waits
    <2>8. s \in Named(spec.operation)'
      BY <2>1, <2>6 DEF Named
    <2>9. TablesInv' /\ KeyNamesOneWait
      BY <2>1, <2>2, <2>3, <2>6, <2>7, <2>8, PublishKeepsTables
    <2> QED BY <2>6, <2>9
  <1> QED BY <1>3, <1>5, <1>6

\* Nothing happens to the tables.
LEMMA IdleKeepsTables ==
  ASSUME TablesInv, UNCHANGED <<waits, completions>>, UNCHANGED callVars
  PROVE  TablesInv' /\ KeyNamesOneWait /\ OperationNamesOneCall
  <1>1. waits' = Resolved({}) /\ completions' \ completions = {}
    BY NothingResolved DEF TablesInv
  <1> QED BY <1>1, ResolveKeepsTables

LEMMA AnyKeepsTables ==
  ASSUME TablesInv, AnyUse
  PROVE  TablesInv' /\ KeyNamesOneWait /\ OperationNamesOneCall
  <1>1. CASE AnyWake
    <2>1. PICK S \in SUBSET Held : waits' = Resolved(S)
      BY <1>1, EndsResolve DEF AnyWake, TablesInv
    <2>2. \A c \in completions' \ completions : \E w \in S : c.key = Key(w)
      <3> SUFFICES ASSUME NEW c \in completions' \ completions
                   PROVE  \E w \in S : c.key = Key(w)
        OBVIOUS
      <3>1. PICK w \in Held : /\ waits'[w].record = NoWait
                              /\ c = [operation |-> waits[w].record.operation,
                                      caller |-> waits[w].record.caller, key |-> Key(w)]
        BY <1>1 DEF AnyWake
      <3>2. c.key = Key(w)
        BY <3>1, SMTT(20)
      <3>3. w \in S
        BY <2>1, <3>1, ResolvedSlot DEF TablesInv, Held
      <3> QED BY <3>2, <3>3
    <2>3. UNCHANGED callVars
      BY <1>1 DEF AnyWake
    <2> QED BY <2>1, <2>2, <2>3, ResolveKeepsTables
  <1>2. CASE AnyRevoke
    <2>1. /\ completions' = completions /\ DiscardOwner(OwnTask, "Revoked")
          /\ TeardownOwner(OwnTask, "Revoked")
      BY <1>2 DEF AnyRevoke, OwnTask
    <2> QED BY <2>1, RevokeKeepsTables
  <1>3. CASE AnyTick
    <2>1. UNCHANGED <<waits, completions>> /\ UNCHANGED callVars
      BY <1>3 DEF AnyTick
    <2> QED BY <2>1, IdleKeepsTables
  <1> QED BY <1>1, <1>2, <1>3, SuspendKeepsTables, DeliverKeepsTables, BeginKeepsTables,
             FinishKeepsTables DEF AnyUse

-----------------------------------------------------------------------------
(* The suspended calls of a native process.                                  *)

LEMMA CountedBy ==
  ASSUME NEW n \in Nat, NEW T, NEW f \in [1 .. n -> T],
         \A i, j \in 1 .. n : f[i] = f[j] => i = j, \A x \in T : \E i \in 1 .. n : f[i] = x
  PROVE  IsFiniteSet(T) /\ Cardinality(T) = n
  <1>1. f \in Surjection(1 .. n, T) /\ f \in Injection(1 .. n, T)
    BY DEF Surjection, Injection, IsInjective
  <1>2. IsFiniteSet(1 .. n) /\ Cardinality(1 .. n) = n
    BY FS_Interval, SMTT(20)
  <1> QED BY <1>1, <1>2, FS_Surjection

LEMMA EntriesTyped ==
  ASSUME EntriesExact
  PROVE  /\ Len(suspended) \in Nat /\ Indices = 1 .. Len(suspended)
         /\ \A i \in Indices : /\ suspended[i] \in Entry /\ suspended[i].thread \in Thread
                               /\ suspended[i].kind \in Kind /\ suspended[i].operation \in Identity
  <1>1. suspended \in Seq(Entry)
    BY DEF EntriesExact
  <1>2. Len(suspended) \in Nat /\ Indices = 1 .. Len(suspended)
    BY <1>1, SMTT(20) DEF Indices
  <1>3. \A i \in Indices : suspended[i] \in Entry
    BY <1>1, <1>2, SMTT(20)
  <1>4. \A e \in Entry : e.thread \in Thread /\ e.kind \in Kind /\ e.operation \in Identity
    BY SMTT(20) DEF Entry
  <1> QED BY <1>2, <1>3, <1>4

LEMMA OperationSlot ==
  ASSUME NEW s, NEW r, Operation(s) = Operation(r)
  PROVE  s = r
  BY SMTT(20) DEF Operation

LEMMA KeySlot ==
  ASSUME NEW v, NEW w, Key(v) = Key(w)
  PROVE  v = w
  BY SMTT(20) DEF Key

\* The call and the wait of a suspended call are the only ones with its identity.
LEMMA BoundAlone ==
  ASSUME TablesInv, NEW e, NEW s, NEW w, Bound(e, s, w)
  PROVE  Named(e.operation) = {s} /\ OfOperation(e.operation) = {w}
  <1>1. s \in Pending /\ w \in Held /\ e.operation = Operation(s) /\ Waits(s, w)
    BY DEF Bound
  <1>2. waits[w].record.operation = e.operation
    BY SMTT(20) DEF Bound, SpecFor
  <1>3. Named(e.operation) = {s}
    BY <1>1, OperationSlot DEF Named
  <1>4. ASSUME NEW v \in OfOperation(e.operation)
        PROVE  v = w
    <2>1. v \in Held /\ waits[v].record.operation = e.operation
      BY DEF OfOperation
    <2>2. Waits(s, v)
      BY <1>3, <2>1 DEF TablesInv, Linked
    <2> QED BY <1>1, <2>2, KeySlot DEF Waits
  <1>5. w \in OfOperation(e.operation)
    BY <1>1, <1>2 DEF OfOperation
  <1> QED BY <1>3, <1>4, <1>5

LEMMA BoundCaller ==
  ASSUME NEW e, NEW s, NEW w, Bound(e, s, w)
  PROVE  /\ calls[s].record.caller = CallerOf(e.thread)
         /\ waits[w].record.caller = CallerOf(e.thread)
         /\ calls[s].record.caller.thread = e.thread
  <1>1. waits[w].record.caller = CallerOf(e.thread)
    BY SMTT(20) DEF Bound, SpecFor
  <1>2. calls[s].record.caller = CallerOf(e.thread)
    BY <1>1 DEF Bound, Waits
  <1> QED BY <1>1, <1>2, SMTT(20) DEF CallerOf

\* No two suspended calls have one identity.
LEMMA EntriesDiffer ==
  ASSUME TablesInv, EntriesExact, NEW i \in Indices, NEW j \in Indices,
         suspended[i].operation = suspended[j].operation
  PROVE  i = j
  <1>1. PICK s \in CallSlots, w \in WaitSlots : Bound(suspended[i], s, w)
    BY DEF EntriesExact
  <1>2. PICK r \in CallSlots, v \in WaitSlots : Bound(suspended[j], r, v)
    BY DEF EntriesExact
  <1>3. s = r
    BY <1>1, <1>2, OperationSlot DEF Bound
  <1>4. calls[s].record.caller.thread = suspended[i].thread
    BY <1>1, BoundCaller
  <1>5. calls[r].record.caller.thread = suspended[j].thread
    BY <1>2, BoundCaller
  <1> QED BY <1>3, <1>4, <1>5 DEF EntriesExact

\* Every published wait belongs to a suspended call.
LEMMA HeldSuspended ==
  ASSUME TablesInv, EntriesExact, NEW w \in Held
  PROVE  \E i \in Indices : \E s \in CallSlots : Bound(suspended[i], s, w)
  <1>1. PICK s \in Named(waits[w].record.operation) : Waits(s, w)
    BY DEF TablesInv, Linked
  <1>2. s \in Pending /\ Operation(s) = waits[w].record.operation
    BY <1>1 DEF Named
  <1>3. PICK i \in Indices : suspended[i].operation = Operation(s)
    BY <1>2 DEF EntriesExact
  <1>4. PICK r \in CallSlots, v \in WaitSlots : Bound(suspended[i], r, v)
    BY DEF EntriesExact
  <1>5. w \in OfOperation(suspended[i].operation)
    BY <1>2, <1>3 DEF OfOperation
  <1>6. w = v
    BY <1>4, <1>5, BoundAlone
  <1> QED BY <1>4, <1>6

\* Each suspended call counts once in every table.
LEMMA Counts ==
  ASSUME TablesInv, EntriesExact
  PROVE  /\ IsFiniteSet(Pending) /\ Cardinality(Pending) = Len(suspended)
         /\ IsFiniteSet(Held) /\ Cardinality(Held) = Len(suspended)
         /\ IsFiniteSet(Suspended) /\ Cardinality(Suspended) = Len(suspended)
  <1> DEFINE n == Len(suspended)
  <1>1. n \in Nat /\ Indices = 1 .. n
    BY EntriesTyped
  <1> USE <1>1
  <1>2. \A i \in Indices : \E s \in CallSlots, w \in WaitSlots : Bound(suspended[i], s, w)
    BY DEF EntriesExact
  <1> HIDE DEF n
  <1>3. IsFiniteSet(Suspended) /\ Cardinality(Suspended) = n
    <2> DEFINE f == [i \in 1 .. n |-> suspended[i].thread]
    <2>1. \A i \in 1 .. n : f[i] = suspended[i].thread /\ f[i] \in Suspended
      BY DEF Suspended
    <2>2. f \in [1 .. n -> Suspended]
      BY <2>1
    <2> HIDE DEF f
    <2>3. \A x \in Suspended : \E i \in 1 .. n : f[i] = x
      BY <2>1 DEF Suspended
    <2>4. \A i, j \in 1 .. n : f[i] = f[j] => i = j
      BY <2>1 DEF EntriesExact
    <2> QED BY <2>2, <2>3, <2>4, CountedBy
  <1>4. IsFiniteSet(Pending) /\ Cardinality(Pending) = n
    <2> DEFINE f == [i \in 1 .. n |-> suspended[i].operation.slot]
    <2>1. \A i \in 1 .. n : f[i] = suspended[i].operation.slot
      OBVIOUS
    <2>2. \A i \in 1 .. n : f[i] \in Pending /\ suspended[i].operation = Operation(f[i])
      <3> TAKE i \in 1 .. n
      <3>1. PICK s \in CallSlots, w \in WaitSlots : Bound(suspended[i], s, w)
        BY <1>2
      <3>2. suspended[i].operation = Operation(s) /\ s \in Pending
        BY <3>1 DEF Bound
      <3>3. suspended[i].operation.slot = s
        BY <3>2, SMTT(20) DEF Operation
      <3> QED BY <2>1, <3>2, <3>3
    <2>3. f \in [1 .. n -> Pending]
      BY <2>2
    <2> HIDE DEF f
    <2>4. \A x \in Pending : \E i \in 1 .. n : f[i] = x
      <3> TAKE x \in Pending
      <3>1. PICK i \in Indices : suspended[i].operation = Operation(x)
        BY DEF EntriesExact
      <3>2. i \in 1 .. n /\ Operation(f[i]) = Operation(x)
        BY <2>2, <3>1
      <3>3. f[i] = x
        BY <3>2, OperationSlot
      <3> QED BY <3>2, <3>3
    <2>5. \A i, j \in 1 .. n : f[i] = f[j] => i = j
      BY <2>2, EntriesDiffer
    <2> QED BY <2>3, <2>4, <2>5, CountedBy
  <1>5. IsFiniteSet(Held) /\ Cardinality(Held) = n
    <2> DEFINE f == [i \in 1 .. n |-> CHOOSE w \in OfOperation(suspended[i].operation) : TRUE]
    <2>1. \A i \in 1 .. n : f[i] = CHOOSE w \in OfOperation(suspended[i].operation) : TRUE
      OBVIOUS
    <2>2. \A i \in 1 .. n : f[i] \in Held /\ OfOperation(suspended[i].operation) = {f[i]}
                            /\ \E s \in CallSlots : Bound(suspended[i], s, f[i])
      <3> TAKE i \in 1 .. n
      <3>1. PICK s \in CallSlots, w \in WaitSlots : Bound(suspended[i], s, w)
        BY <1>2
      <3>2. OfOperation(suspended[i].operation) = {w} /\ w \in Held
        BY <3>1, BoundAlone DEF Bound
      <3>3. f[i] = w
        BY <2>1, <3>2
      <3> QED BY <3>1, <3>2, <3>3
    <2> USE <2>2
    <2>3. f \in [1 .. n -> Held]
      OBVIOUS
    <2> HIDE DEF f
    <2>4. \A x \in Held : \E i \in 1 .. n : f[i] = x
      <3> TAKE x \in Held
      <3>1. PICK i \in Indices : \E s \in CallSlots : Bound(suspended[i], s, x)
        BY HeldSuspended
      <3>2. OfOperation(suspended[i].operation) = {x}
        BY <3>1, BoundAlone
      <3>3. f[i] = x
        BY <3>2
      <3> QED BY <3>3
    <2>5. \A i, j \in 1 .. n : f[i] = f[j] => i = j
      <3> TAKE i, j \in 1 .. n
      <3> HAVE f[i] = f[j]
      <3>1. PICK s \in CallSlots : Bound(suspended[i], s, f[i])
        OBVIOUS
      <3>2. PICK r \in CallSlots : Bound(suspended[j], r, f[i])
        OBVIOUS
      <3>3. waits[f[i]].record.caller = CallerOf(suspended[i].thread)
        BY <3>1, BoundCaller
      <3>4. waits[f[i]].record.caller = CallerOf(suspended[j].thread)
        BY <3>2, BoundCaller
      <3>5. suspended[i].thread = suspended[j].thread
        BY <3>3, <3>4, SMTT(20) DEF CallerOf
      <3> QED BY <3>5 DEF EntriesExact
    <2> QED BY <2>3, <2>4, <2>5, CountedBy
  <1> QED BY <1>3, <1>4, <1>5 DEF n

\* A byte is charged for each suspended call.
LEMMA BytesCounted ==
  ASSUME TablesInv, EntriesExact
  PROVE  retained = Len(suspended)
  <1>1. ASSUME NEW s \in Pending
        PROVE  s \in CallSlots /\ calls[s].record.bytes = 1
    <2>1. PICK i \in Indices : suspended[i].operation = Operation(s)
      BY DEF EntriesExact
    <2>2. PICK r \in CallSlots, w \in WaitSlots : Bound(suspended[i], r, w)
      BY DEF EntriesExact
    <2>3. r = s
      BY <2>1, <2>2, OperationSlot DEF Bound
    <2> QED BY <2>2, <2>3 DEF Bound
  <1> DEFINE f == [s \in Pending |-> 1]
  <1>2. \A s \in Pending : f[s] = 1 /\ f[s] = calls[s].record.bytes
    BY <1>1
  <1> HIDE DEF f
  <1>3. Pending \in SUBSET CallSlots
    BY <1>1
  <1>4. BytesOf(Pending) = Total(Pending, f)
    BY <1>2, <1>3, BytesAre
  <1>5. Total(Pending, f) = Cardinality(Pending)
    BY <1>2, Counts, TotalOnes
  <1> QED BY <1>4, <1>5, Counts DEF TablesInv, CallsWell

\* The tables of a native process agree.
LEMMA NativeAgrees ==
  ASSUME TablesInv, NativeInv
  PROVE  SuspendedExact
  <1>1. EntriesExact /\ (stopped # "No" => suspended = <<>> /\ clients = {})
    BY DEF NativeInv
  <1> USE <1>1
  <1>2. IoTypeOK
    BY EntriesTyped DEF NativeInv, IoTypeOK
  <1>3. stopped # "No" => suspended = <<>> /\ clients = {} /\ retained = 0
    <2>1. suspended = <<>> => Len(suspended) = 0
      BY SMTT(20)
    <2> QED BY <2>1, BytesCounted
  <1>4. \A i \in Indices :
          \E s \in Named(suspended[i].operation), w \in OfOperation(suspended[i].operation) :
              /\ calls[s].record.state = "Waiting"
              /\ calls[s].record.key = Key(w)
              /\ calls[s].record.caller = CallerOf(suspended[i].thread)
              /\ waits[w].record.caller = CallerOf(suspended[i].thread)
    <2> TAKE i \in Indices
    <2>1. PICK s \in CallSlots, w \in WaitSlots : Bound(suspended[i], s, w)
      BY DEF EntriesExact
    <2>2. Named(suspended[i].operation) = {s} /\ OfOperation(suspended[i].operation) = {w}
      BY <2>1, BoundAlone
    <2>3. /\ calls[s].record.caller = CallerOf(suspended[i].thread)
          /\ waits[w].record.caller = CallerOf(suspended[i].thread)
      BY <2>1, BoundCaller
    <2> QED BY <2>1, <2>2, <2>3 DEF Bound, Waits
  <1> QED BY <1>2, <1>3, <1>4, Counts DEF SuspendedExact

\* A slot that is not in use is not retired: there are generations enough.
LEMMA NotRetired ==
  ASSUME NEW x, NEW none, NEW n \in Nat, x.generation \in Nat, x.retired \in BOOLEAN,
         Spent(x, none, n), n < LastGeneration, x.retired => x.generation = LastGeneration
  PROVE  ~ x.retired
  BY NativeAssumption, SMTT(20) DEF Spent

LEMMA RoomLeft ==
  ASSUME NEW n \in Nat, NEW S \in SUBSET (1 .. n), Cardinality(S) < n
  PROVE  \E x \in 1 .. n : x \notin S
  <1>1. Cardinality(1 .. n) = n
    BY FS_Interval, SMTT(20)
  <1>2. S # 1 .. n
    BY <1>1, SMTT(20)
  <1> QED BY <1>2

\* Threads do not exclude each other.
LEMMA ThreadsApart ==
  ASSUME NEW t \in Thread, NEW u \in Thread, Conflicts(CallerOf(u), CallerOf(t))
  PROVE  u = t
  BY AbsenceAssumption, SMTT(20) DEF Conflicts, CallerOf

\* A running thread of a native process can always suspend a call.
LEMMA AlwaysRoom ==
  ASSUME TablesInv, NativeInv, NEW t \in Thread, t \notin Suspended, lastRequest < MaxRequest
  PROVE  CanSuspend(t)
  <1>1. EntriesExact /\ Frugal /\ WaitsWell /\ CallsWell
    BY DEF NativeInv, TablesInv
  <1> USE <1>1
  <1>2. \A i \in Indices : /\ suspended[i].thread \in Thread
                           /\ ~ Conflicts(CallerOf(suspended[i].thread), CallerOf(t))
    BY EntriesTyped, ThreadsApart DEF Suspended
  <1>3. Len(suspended) \in Nat /\ Len(suspended) < Cardinality(Thread)
    <2>1. Suspended \in SUBSET Thread /\ Suspended # Thread
      BY <1>2 DEF Suspended
    <2>2. Cardinality(Suspended) <= Cardinality(Thread) /\ Cardinality(Suspended) # Cardinality(Thread)
      BY <2>1, FS_Subset, NativeAssumption
    <2>3. Cardinality(Thread) \in Nat
      BY FS_CardinalityType, NativeAssumption
    <2> QED BY <2>2, <2>3, Counts, EntriesTyped, SMTT(20)
  <1> USE <1>3
  <1>4. Cardinality(Thread) \in Nat
    BY FS_CardinalityType, NativeAssumption
  <1>5. retained + 1 <= ByteCapacity
    BY <1>4, BytesCounted, RoomAssumption, NativeAssumption, SMTT(20)
  <1>6. lastRequest \in Nat /\ lastRequest < LastGeneration /\ lastRequest + 1 > lastRequest
    BY RoomAssumption, NativeAssumption, SMTT(20) DEF CallsWell
  <1>7. \A s \in Pending : ~ Conflicts(calls[s].record.caller, CallerOf(t))
    <2> TAKE s \in Pending
    <2>1. PICK i \in Indices : suspended[i].operation = Operation(s)
      BY DEF EntriesExact
    <2>2. PICK r \in CallSlots, w \in WaitSlots : Bound(suspended[i], r, w)
      BY DEF EntriesExact
    <2>3. r = s
      BY <2>1, <2>2, OperationSlot DEF Bound
    <2>4. calls[r].record.caller = CallerOf(suspended[i].thread)
      BY <2>2, BoundCaller
    <2> QED BY <1>2, <2>3, <2>4
  <1>8. \A w \in Held : ~ Conflicts(waits[w].record.caller, CallerOf(t))
    <2> TAKE w \in Held
    <2>1. PICK i \in Indices : \E s \in CallSlots : Bound(suspended[i], s, w)
      BY HeldSuspended
    <2>2. waits[w].record.caller = CallerOf(suspended[i].thread)
      BY <2>1, BoundCaller
    <2> QED BY <1>2, <2>2
  <1>9. FreeCalls # {}
    <2>1. PICK s \in CallSlots : s \notin Pending
      <3>1. CallCapacity \in Nat /\ Cardinality(Pending) < CallCapacity
        BY <1>4, Counts, RoomAssumption, NativeAssumption, SMTT(20)
      <3> QED BY <3>1, RoomLeft DEF CallSlots, Pending
    <2>2. /\ calls[s].generation \in Nat /\ calls[s].retired \in BOOLEAN
      BY CallsTyped, SMTT(20) DEF CallSlot
    <2>3. calls[s].retired => calls[s].generation = LastGeneration
      BY DEF CallsWell
    <2>4. ~ calls[s].retired
      BY <1>6, <2>2, <2>3, NotRetired DEF Frugal
    <2> QED BY <2>1, <2>4 DEF FreeCalls, Pending
  <1>10. FreeWaits # {}
    <2>1. PICK w \in WaitSlots : w \notin Held
      <3>1. WaitCapacity \in Nat /\ Cardinality(Held) < WaitCapacity
        BY <1>4, Counts, RoomAssumption, NativeAssumption, SMTT(20)
      <3> QED BY <3>1, RoomLeft DEF WaitSlots, Held
    <2>2. waits[w] \in WaitSlot /\ (waits[w].retired => waits[w].generation = LastGeneration)
      BY DEF WaitsWell
    <2>3. waits[w].generation \in Nat /\ waits[w].retired \in BOOLEAN
      BY <2>2, NativeAssumption, SMTT(20) DEF WaitSlot
    <2>4. ~ waits[w].retired
      BY <1>6, <2>2, <2>3, NotRetired DEF Frugal
    <2> QED BY <2>1, <2>4 DEF FreeWaits, Held
  <1> QED BY <1>5, <1>6, <1>7, <1>8, <1>9, <1>10 DEF CanSuspend, CanBegin

-----------------------------------------------------------------------------
(* What the steps of a native process leave.                                 *)

LEMMA BoundStays ==
  ASSUME NEW e, NEW s \in CallSlots, NEW w \in WaitSlots, Bound(e, s, w),
         calls'[s] = calls[s], waits'[w] = waits[w]
  PROVE  Bound(e, s, w)'
  <1>1. s \in Pending' /\ w \in Held' /\ e.operation = Operation(s)' /\ Waits(s, w)'
    BY DEF Bound, Pending, Held, Operation, Waits, Key
  <1> QED BY <1>1 DEF Bound

LEMMA EntriesStay ==
  ASSUME EntriesExact, suspended' = suspended, Pending' = Pending,
         \A s \in Pending : calls'[s] = calls[s], \A w \in Held : waits'[w] = waits[w]
  PROVE  EntriesExact'
  <1>1. Indices' = Indices
    BY DEF Indices
  <1>2. ASSUME NEW i \in Indices, NEW e, e = suspended'[i]
        PROVE  \E s \in CallSlots, w \in WaitSlots : Bound(e, s, w)'
    <2>1. PICK s \in CallSlots, w \in WaitSlots : Bound(e, s, w)
      BY <1>2 DEF EntriesExact
    <2>2. calls'[s] = calls[s] /\ waits'[w] = waits[w]
      BY <2>1 DEF Bound
    <2> QED BY <2>1, <2>2, BoundStays
  <1>3. ASSUME NEW s \in Pending
        PROVE  \E i \in Indices : suspended'[i].operation = Operation(s)'
    <2>1. Operation(s)' = Operation(s)
      BY DEF Operation
    <2> QED BY <2>1 DEF EntriesExact
  <1>4. /\ suspended' \in Seq(Entry) /\ Len(suspended') <= Cardinality(Thread)
        /\ \A i, j \in Indices : suspended'[i].thread = suspended'[j].thread => i = j
    BY DEF EntriesExact
  <1> QED BY <1>1, <1>2, <1>3, <1>4 DEF EntriesExact

\* Generations: what a slot spends when it is taken, left or only looked at.
LEMMA SpentStill ==
  ASSUME NEW x, NEW none, NEW n \in Nat, NEW m \in Nat, Spent(x, none, n),
         x.generation \in Nat, m >= n
  PROVE  Spent(x, none, m)
  BY SMTT(20) DEF Spent

LEMMA SpentTaken ==
  ASSUME NEW x, NEW y, NEW none, NEW n \in Nat, NEW m \in Nat, Spent(x, none, n),
         x.generation \in Nat, ~ y.retired, y.generation = x.generation, m = n + 1
  PROVE  Spent(y, none, m)
  <1>1. x.generation <= n + 1
    BY SMTT(20) DEF Spent
  <1>2. y.generation + 0 + (IF y.record = none THEN 0 ELSE 1) <= m + 1
    BY <1>1, SMTT(20)
  <1> QED BY <1>2 DEF Spent

LEMMA SpentLeft ==
  ASSUME NEW x, NEW y, NEW none, NEW n \in Nat, NEW m \in Nat, Spent(x, none, n),
         x.generation \in Nat, y.record = none,
         \/ ~ y.retired /\ y.generation = x.generation + 1
         \/ y.retired /\ y.generation = x.generation,
         (x.record # none /\ m = n) \/ m = n + 1
  PROVE  Spent(y, none, m)
  <1>1. x.generation + 1 <= m + 1
    BY SMTT(20) DEF Spent
  <1>2. CASE ~ y.retired /\ y.generation = x.generation + 1
    <2>1. y.generation + 0 + 0 <= m + 1
      BY <1>1, <1>2, SMTT(20)
    <2> QED BY <1>2, <2>1 DEF Spent
  <1>3. CASE y.retired /\ y.generation = x.generation
    <2>1. y.generation + 1 + 0 <= m + 1
      BY <1>1, <1>3, SMTT(20)
    <2> QED BY <1>3, <2>1 DEF Spent
  <1> QED BY <1>2, <1>3

LEMMA FrugalTyped ==
  ASSUME TablesInv
  PROVE  /\ lastRequest \in Nat
         /\ \A s \in CallSlots : calls[s].generation \in Nat /\ calls[s].retired \in BOOLEAN
         /\ \A w \in WaitSlots : waits[w].generation \in Nat /\ waits[w].retired \in BOOLEAN
  <1>1. WaitsWell /\ CallsWell
    BY DEF TablesInv
  <1>2. lastRequest \in Nat /\ \A s \in CallSlots : calls[s] \in CallSlot
    BY <1>1, CallsTyped DEF CallsWell
  <1>3. \A w \in WaitSlots : waits[w] \in WaitSlot
    BY <1>1 DEF WaitsWell
  <1> QED BY <1>2, <1>3, NativeAssumption, SMTT(20) DEF CallSlot, WaitSlot

\* Waits and calls that end spend the generation that their request accounts for.
LEMMA FrugalEnds ==
  ASSUME TablesInv, Frugal, NEW S \in SUBSET Held, NEW T \in SUBSET Pending,
         waits' = Resolved(S), Release(T)
  PROVE  Frugal'
  <1>1. /\ lastRequest' = lastRequest /\ lastRequest' >= lastRequest /\ lastRequest' \in Nat
        /\ WaitsWell /\ CallsWell
    <2>1. lastRequest' = lastRequest /\ lastRequest \in Nat /\ WaitsWell /\ CallsWell
      BY FrugalTyped DEF Release, TablesInv
    <2>2. lastRequest' >= lastRequest
      BY <2>1, SMTT(20)
    <2> QED BY <2>1, <2>2
  <1> USE <1>1
  <1>2. ASSUME NEW s \in CallSlots
        PROVE  Spent(calls'[s], NoCall, lastRequest')
    <2>1. CASE s \notin T
      <3>1. calls'[s] = calls[s]
        BY <2>1, ReleasedSlot
      <3> QED BY <3>1, FrugalTyped, SpentStill DEF Frugal
    <2>2. CASE s \in T
      <3>1. calls[s].record # NoCall /\ ~ calls[s].retired
        BY <2>2, CallsTyped DEF Pending
      <3>2. /\ calls'[s].record = NoCall
            /\ \/ ~ calls'[s].retired /\ calls'[s].generation = calls[s].generation + 1
               \/ calls'[s].retired /\ calls'[s].generation = calls[s].generation
        BY <2>2, ReleasedSlot
      <3>3. /\ Spent(calls[s], NoCall, lastRequest) /\ calls[s].generation \in Nat
            /\ lastRequest \in Nat /\ lastRequest' \in Nat /\ lastRequest' = lastRequest
        BY FrugalTyped DEF Frugal
      <3> QED BY <3>1, <3>2, <3>3, SpentLeft
    <2> QED BY <2>1, <2>2
  <1>3. ASSUME NEW w \in WaitSlots
        PROVE  Spent(waits'[w], NoWait, lastRequest')
    <2>1. CASE w \notin S
      <3>1. waits'[w] = waits[w]
        BY <2>1, ResolvedSlot
      <3> QED BY <3>1, FrugalTyped, SpentStill DEF Frugal
    <2>2. CASE w \in S
      <3>1. waits[w].record # NoWait /\ ~ waits[w].retired
        BY <2>2, HeldLive DEF Held
      <3>2. /\ waits'[w].record = NoWait
            /\ \/ ~ waits'[w].retired /\ waits'[w].generation = waits[w].generation + 1
               \/ waits'[w].retired /\ waits'[w].generation = waits[w].generation
        BY <2>2, ResolvedSlot
      <3>3. /\ Spent(waits[w], NoWait, lastRequest) /\ waits[w].generation \in Nat
            /\ lastRequest \in Nat /\ lastRequest' \in Nat /\ lastRequest' = lastRequest
        BY FrugalTyped DEF Frugal
      <3> QED BY <3>1, <3>2, <3>3, SpentLeft
    <2> QED BY <2>1, <2>2
  <1> QED BY <1>2, <1>3 DEF Frugal

\* What a step of a native process preserves: the invariants, and the names
\* that waits and calls have had.
Preserved == TablesInv' /\ NativeInv' /\ KeyNamesOneWait /\ OperationNamesOneCall

\* A process that stops leaves nothing in the tables.
LEMMA RevokeKeepsNative ==
  ASSUME TablesInv, NativeInv, UNCHANGED harnessVars, NEW why \in {"Stopped", "Prepare", "Poll"},
         Revoke(why)
  PROVE  Preserved
  <1>1. /\ DiscardOwner(OwnTask, "Revoked") /\ TeardownOwner(OwnTask, "Revoked")
        /\ completions' = completions /\ suspended' = <<>> /\ clients' = {} /\ cursor' = 0
        /\ stopped' = why /\ answer' = answer /\ now' = now /\ inbox' = inbox
    BY DEF Revoke, harnessVars, worldVars
  <1> USE <1>1
  <1>2. /\ TablesInv' /\ KeyNamesOneWait /\ OperationNamesOneCall
        /\ Held' = {} /\ Pending' = {} /\ lastRequest' = lastRequest
        /\ waits' = Resolved(Held) /\ Release(Pending)
    BY RevokeKeepsTables
  <1>3. EntriesExact'
    <2>1. suspended' \in Seq(Entry) /\ Len(suspended') = 0 /\ Indices' = {}
      BY SMTT(20) DEF Indices
    <2>2. Cardinality(Thread) \in Nat
      BY FS_CardinalityType, NativeAssumption
    <2>3. Len(suspended)' <= Cardinality(Thread)
      BY <2>1, <2>2, SMTT(20)
    <2> QED BY <1>2, <2>1, <2>3 DEF EntriesExact
  <1>4. Frugal'
    BY <1>2, FrugalEnds DEF NativeInv
  <1>5. ClientsWell'
    <2>1. 0 <= ClientCapacity
      BY NativeAssumption, SMTT(20)
    <2> QED BY <2>1, FS_EmptySet DEF ClientsWell
  <1>6. cursor' \in 0 .. Cardinality(Thread)
    BY FS_CardinalityType, NativeAssumption, SMTT(20)
  <1> QED BY <1>2, <1>3, <1>4, <1>5, <1>6 DEF NativeInv, Preserved

\* The registrations that `prepare' publishes are valid.
LEMMA SpecIs ==
  ASSUME NEW t \in Thread, NEW kind \in Kind, NEW o \in Identity, NEW d \in Nat \cup {NoDeadline},
         kind \in {"timer", "datagram"} => d \in Nat
  PROVE  /\ SpecFor(t, kind, o, d) \in Registration /\ ValidSpec(SpecFor(t, kind, o, d))
         /\ SpecFor(t, kind, o, d).caller = CallerOf(t)
         /\ SpecFor(t, kind, o, d).caller.task = OwnTask
         /\ SpecFor(t, kind, o, d).operation = o /\ SpecFor(t, kind, o, d).deadline = d
  <1>1. kind \in {"timer", "datagram", "stream", "diagnostics"}
    BY NativeAssumption, SMTT(20) DEF Kinds
  <1>2. NoResource \notin Nat \cup Identity /\ NoDeadline \notin Nat
    BY AbsenceAssumption
  <1> USE <1>2
  <1>3. CallerOf(t) \in CallerId /\ CallerOf(t).task = OwnTask
    BY SMTT(20) DEF CallerOf, CallerId, OwnTask
  <1> USE <1>3
  <1>4. /\ SpecFor(t, kind, o, d).caller = CallerOf(t)
        /\ SpecFor(t, kind, o, d).operation = o /\ SpecFor(t, kind, o, d).deadline = d
    BY SMTT(20) DEF SpecFor
  <1>5. SpecFor(t, kind, o, d) \in Registration /\ ValidSpec(SpecFor(t, kind, o, d))
    <2>1. CASE kind = "timer"
      BY <2>1, SMTT(20) DEF SpecFor, Registration, ValidSpec
    <2>2. CASE kind = "datagram"
      BY <2>2, SMTT(20) DEF SpecFor, Registration, ValidSpec, Port
    <2>3. CASE kind = "stream"
      BY <2>3, SMTT(20) DEF SpecFor, Registration, ValidSpec, Stream
    <2>4. CASE kind = "diagnostics"
      BY <2>4, SMTT(20) DEF SpecFor, Registration, ValidSpec
    <2> QED BY <1>1, <2>1, <2>2, <2>3, <2>4
  <1> QED BY <1>4, <1>5

LEMMA Untouched ==
  ASSUME \A x \in Pending : calls'[x] = calls[x]
  PROVE  OperationNamesOneCall
  BY DEF OperationNamesOneCall, Pending

LEMMA AppendIs ==
  ASSUME NEW S, NEW q \in Seq(S), NEW e \in S
  PROVE  /\ Append(q, e) \in Seq(S) /\ Len(Append(q, e)) = Len(q) + 1
         /\ DOMAIN Append(q, e) = 1 .. Len(q) + 1 /\ Append(q, e)[Len(q) + 1] = e
         /\ \A i \in 1 .. Len(q) : Append(q, e)[i] = q[i]
  BY SMTT(20)

LEMMA SuspendKeepsNative ==
  ASSUME TablesInv, NativeInv, stopped = "No", UNCHANGED harnessVars, NEW t \in Thread,
         t \notin Suspended, NEW kind \in Kind, NEW d \in Nat \cup {NoDeadline},
         kind \in {"timer", "datagram"} => d \in Nat, kind = "stream" => d = NoDeadline,
         Suspend(t, kind, d)
  PROVE  /\ Preserved
         /\ Suspended \subseteq Suspended' /\ stopped' = stopped /\ inbox' = inbox
  <1> DEFINE n == Len(suspended)
  <1>1. WaitsWell /\ CallsWell /\ EntriesExact /\ Frugal /\ n \in Nat /\ Indices = 1 .. n
    BY EntriesTyped DEF TablesInv, NativeInv
  <1>2. PICK s \in FreeCalls, w \in FreeWaits :
        /\ n < Cardinality(Thread)
        /\ Publish(SpecFor(t, kind, Operation(s), d), w)
        /\ BeginIn(s, CallerOf(t), lastRequest + 1, 1, "Waiting", Key(w))
        /\ suspended' = Append(suspended, [thread |-> t, kind |-> kind, operation |-> Operation(s)])
    BY DEF Suspend
  <1>3. /\ completions' = completions
        /\ UNCHANGED <<cursor, clients, answer, stopped>> /\ UNCHANGED <<now, inbox, stream>>
    BY DEF Suspend, harnessVars, worldVars
  <1> DEFINE k == Key(w)
  <1>4. s \in CallSlots /\ w \in WaitSlots /\ Operation(s) \in Identity /\ k \in Identity
    <2>1. /\ s \in CallSlots /\ calls[s].generation \in Nat /\ w \in WaitSlots
          /\ waits[w].generation \in Nat
      BY FrugalTyped DEF FreeCalls, FreeWaits
    <2> QED BY <2>1, NativeAssumption, SMTT(20) DEF CallSlots, WaitSlots, Identity, Operation, Key
  <1>o. PICK o \in Identity : o = Operation(s)
    BY <1>4
  <1> DEFINE e == [thread |-> t, kind |-> kind, operation |-> o]
             spec == SpecFor(t, kind, o, d)
  <1>5. /\ e \in Entry /\ e.thread = t /\ e.kind = kind /\ e.operation = o
    BY SMTT(20) DEF Entry
  <1> HIDE DEF n
  <1>6. /\ spec \in Registration /\ ValidSpec(spec) /\ spec.caller = CallerOf(t)
        /\ spec.caller.task = OwnTask /\ spec.operation = o /\ spec.deadline = d
    BY SpecIs, SMTT(20)
  <1>7. /\ CallsWell' /\ s \notin Pending /\ Pending' = Pending \cup {s}
        /\ ~ calls'[s].retired /\ calls'[s].generation = calls[s].generation
        /\ calls'[s].record = Copied(CallerOf(t), lastRequest + 1, 1, "Waiting", k)
        /\ \A x \in CallSlots : Operation(x)' = Operation(x)
        /\ \A x \in CallSlots \ {s} : calls'[x] = calls[x]
        /\ lastRequest' = lastRequest + 1
    <2>1. lastRequest + 1 \in Nat /\ 1 \in Nat
      BY FrugalTyped, SMTT(20)
    <2>2. CallerOf(t) \in CallerId /\ CallerOf(t).task = OwnTask
      BY SMTT(20) DEF CallerOf, CallerId, OwnTask
    <2>3. Copied(CallerOf(t), lastRequest + 1, 1, "Waiting", k) \in CallRecord
      BY <1>4, <2>1, <2>2, SMTT(20) DEF Copied, CallRecord
    <2> QED BY <1>1, <1>2, <1>4, <2>1, <2>2, <2>3, BeginIs
  <1>8. /\ calls'[s].record.state = "Waiting" /\ calls'[s].record.key = k
        /\ calls'[s].record.caller = CallerOf(t) /\ calls'[s].record.bytes = 1
    BY <1>7, SMTT(20) DEF Copied
  <1>9. /\ w \notin Held /\ Held' = Held \cup {w} /\ waits'[w].record = spec
        /\ ~ waits'[w].retired /\ waits'[w].generation = waits[w].generation
        /\ \A x \in WaitSlots : Key(x)' = Key(x)
        /\ \A x \in WaitSlots \ {w} : waits'[x] = waits[x]
    <2>1. Publish(spec, w)
      BY <1>o, <1>2
    <2> HIDE DEF spec
    <2> QED BY <1>1, <1>6, <2>1, PublishIs
  <1>10. \A x \in Pending : calls'[x] = calls[x]
    BY <1>7 DEF Pending
  <1>11. TablesInv' /\ KeyNamesOneWait /\ OperationNamesOneCall
    <2>1. s \in Named(spec.operation)'
      BY <1>o, <1>4, <1>6, <1>7 DEF Named
    <2>2. Publish(spec, w)
      BY <1>o, <1>2
    <2>3. /\ \A x \in Pending \ {s} : calls'[x] = calls[x]
          /\ \A x \in Held : s \in Pending => ~ Waits(s, x)
      BY <1>7, <1>10
    <2> HIDE DEF spec
    <2>4. TablesInv' /\ KeyNamesOneWait
      BY <1>3, <1>6, <1>7, <1>8, <2>1, <2>2, <2>3, PublishKeepsTables
    <2> QED BY <1>10, <2>4, Untouched
  <1>12. Bound(e, s, w)'
    <2>1. s \in Pending' /\ w \in Held' /\ e.operation = Operation(s)'
      BY <1>o, <1>4, <1>5, <1>7, <1>9
    <2>2. Waits(s, w)'
      BY <1>4, <1>6, <1>8, <1>9 DEF Waits
    <2>3. waits'[w].record = SpecFor(e.thread, e.kind, e.operation, waits'[w].record.deadline)
      BY <1>5, <1>6, <1>9
    <2> QED BY <1>5, <1>6, <1>8, <1>9, <2>1, <2>2, <2>3 DEF Bound
  <1> HIDE DEF e, k, spec
  <1>13. /\ suspended' \in Seq(Entry) /\ Len(suspended') = n + 1 /\ Indices' = 1 .. n + 1
         /\ suspended'[n + 1] = e /\ \A i \in 1 .. n : suspended'[i] = suspended[i]
    <2>1. suspended \in Seq(Entry) /\ suspended' = Append(suspended, e)
      BY <1>o, <1>1, <1>2 DEF EntriesExact, e
    <2>2. e \in Entry
      BY <1>5
    <2> QED BY <2>1, <2>2, AppendIs, SMTT(20) DEF n, Indices
  <1>14. \A i \in 1 .. n + 1 : i \in 1 .. n \/ i = n + 1
    BY <1>1, SMTT(20)
  <1>15. \A i \in 1 .. n : i \in 1 .. n + 1 /\ n + 1 \in 1 .. n + 1
    BY <1>1, SMTT(20)
  <1>16. EntriesExact'
    <2>1. Len(suspended') <= Cardinality(Thread)
      BY <1>1, <1>2, <1>13, FS_CardinalityType, NativeAssumption, SMTT(20)
    <2>2. \A i \in 1 .. n : suspended'[i].thread # t /\ suspended'[n + 1].thread = t
      BY <1>1, <1>5, <1>13 DEF Suspended
    <2>3. \A i, j \in 1 .. n : suspended'[i].thread = suspended'[j].thread => i = j
      BY <1>1, <1>13 DEF EntriesExact
    <2>4. \A i, j \in 1 .. n + 1 : suspended'[i].thread = suspended'[j].thread => i = j
      <3> SUFFICES ASSUME NEW i \in 1 .. n + 1, NEW j \in 1 .. n + 1,
                          suspended'[i].thread = suspended'[j].thread
                   PROVE  i = j
        OBVIOUS
      <3>1. CASE i \in 1 .. n /\ j \in 1 .. n
        BY <2>3, <3>1
      <3>2. CASE i = n + 1 \/ j = n + 1
        BY <1>14, <2>2, <3>2
      <3> QED BY <1>14, <3>1, <3>2
    <2>5. ASSUME NEW i \in 1 .. n + 1, NEW x, x = suspended'[i]
          PROVE  \E r \in CallSlots, v \in WaitSlots : Bound(x, r, v)'
      <3>1. CASE i = n + 1
        <4>1. x = e
          BY <1>13, <2>5, <3>1
        <4> QED BY <1>4, <1>12, <4>1
      <3>2. CASE i \in 1 .. n
        <4>1. PICK r \in CallSlots, v \in WaitSlots : Bound(x, r, v)
          BY <1>1, <1>13, <2>5, <3>2 DEF EntriesExact
        <4>2. calls'[r] = calls[r] /\ waits'[v] = waits[v]
          BY <1>9, <1>10, <4>1 DEF Bound
        <4> QED BY <4>1, <4>2, BoundStays
      <3> QED BY <1>14, <3>1, <3>2
    <2>6. ASSUME NEW x \in Pending'
          PROVE  \E i \in 1 .. n + 1 : suspended'[i].operation = Operation(x)'
      <3>1. CASE x = s
        <4>1. suspended'[n + 1].operation = Operation(s)'
          BY <1>o, <1>4, <1>5, <1>7, <1>13
        <4>2. n + 1 \in 1 .. n + 1
          BY <1>1, SMTT(20)
        <4> QED BY <3>1, <4>1, <4>2
      <3>2. CASE x \in Pending
        <4>1. PICK i \in 1 .. n : suspended[i].operation = Operation(x)
          BY <1>1, <3>2 DEF EntriesExact
        <4>2. Operation(x)' = Operation(x)
          BY <1>7, <3>2 DEF Pending
        <4> QED BY <1>13, <1>15, <4>1, <4>2
      <3> QED BY <1>7, <3>1, <3>2
    <2> QED BY <1>13, <2>1, <2>4, <2>5, <2>6 DEF EntriesExact
  <1>17. Frugal'
    <2>1. /\ lastRequest \in Nat /\ lastRequest' \in Nat /\ lastRequest' >= lastRequest
          /\ lastRequest' = lastRequest + 1
      BY <1>7, FrugalTyped, SMTT(20)
    <2>2. \A x \in CallSlots : Spent(calls'[x], NoCall, lastRequest')
      <3> TAKE x \in CallSlots
      <3>1. Spent(calls[x], NoCall, lastRequest) /\ calls[x].generation \in Nat
        BY <1>1, FrugalTyped DEF Frugal
      <3>2. CASE x = s
        BY <1>7, <2>1, <3>1, <3>2, SpentTaken
      <3>3. CASE x # s
        BY <1>7, <2>1, <3>1, <3>3, SpentStill
      <3> QED BY <3>2, <3>3
    <2>3. \A x \in WaitSlots : Spent(waits'[x], NoWait, lastRequest')
      <3> TAKE x \in WaitSlots
      <3>1. Spent(waits[x], NoWait, lastRequest) /\ waits[x].generation \in Nat
        BY <1>1, FrugalTyped DEF Frugal
      <3>2. CASE x = w
        BY <1>9, <2>1, <3>1, <3>2, SpentTaken
      <3>3. CASE x # w
        BY <1>9, <2>1, <3>1, <3>3, SpentStill
      <3> QED BY <3>2, <3>3
    <2> QED BY <2>2, <2>3 DEF Frugal
  <1>18. Suspended \subseteq Suspended'
    BY <1>1, <1>13, <1>15 DEF Suspended
  <1>19. NativeInv'
    BY <1>3, <1>16, <1>17 DEF NativeInv, ClientsWell
  <1> QED BY <1>3, <1>11, <1>18, <1>19 DEF Preserved

\* A timer that elapses while it is prepared begins and finishes a call.
LEMMA ElapseKeepsNative ==
  ASSUME TablesInv, NativeInv, UNCHANGED harnessVars, NEW t \in Thread, TimerElapses(t),
         now + 1 <= MaxTime
  PROVE  /\ Preserved
         /\ Suspended' = Suspended /\ stopped' = stopped /\ inbox' = inbox
  <1>1. WaitsWell /\ CallsWell /\ EntriesExact /\ Frugal /\ answer \in [Thread -> Answers]
    BY DEF TablesInv, NativeInv
  <1> USE <1>1
  <1>2. PICK s \in FreeCalls :
           calls' = [calls EXCEPT ![s].generation = IF @ < LastGeneration THEN @ + 1 ELSE @,
                                  ![s].retired = calls[s].generation = LastGeneration]
    BY DEF TimerElapses
  <1>3. /\ lastRequest' = lastRequest + 1 /\ waits' = waits /\ retained' = retained
        /\ suspended' = suspended /\ now' = now + 1 /\ completions' = completions
        /\ UNCHANGED <<cursor, clients, stopped, inbox>>
        /\ answer' = [answer EXCEPT ![t] = "Success"]
    BY DEF TimerElapses, harnessVars
  <1> USE <1>3
  <1>4. /\ CallsWell' /\ Pending' = Pending /\ s \notin Pending /\ s \in CallSlots
        /\ \A x \in CallSlots \ {s} : calls'[x] = calls[x]
        /\ calls'[s].record = NoCall /\ ~ calls[s].retired
        /\ \/ ~ calls'[s].retired /\ calls'[s].generation = calls[s].generation + 1
           \/ calls'[s].retired /\ calls'[s].generation = calls[s].generation
    BY <1>2, BumpIs
  <1> USE <1>4
  <1>5. \A x \in Pending : calls'[x] = calls[x]
    BY DEF Pending
  <1>6. TablesInv' /\ KeyNamesOneWait /\ OperationNamesOneCall
    BY <1>5, CallsKeepTables, Untouched
  <1>7. EntriesExact'
    BY <1>5, EntriesStay
  <1>8. Frugal'
    <2>1. /\ lastRequest \in Nat /\ lastRequest' \in Nat /\ lastRequest' >= lastRequest
          /\ lastRequest' = lastRequest + 1
      BY FrugalTyped, SMTT(20)
    <2>2. \A x \in CallSlots : Spent(calls'[x], NoCall, lastRequest')
      <3> TAKE x \in CallSlots
      <3>1. Spent(calls[x], NoCall, lastRequest) /\ calls[x].generation \in Nat
        BY FrugalTyped DEF Frugal
      <3>2. CASE x = s
        BY <2>1, <3>1, <3>2, SpentLeft
      <3>3. CASE x # s
        BY <2>1, <3>1, <3>3, SpentStill
      <3> QED BY <3>2, <3>3
    <2>3. \A x \in WaitSlots : Spent(waits'[x], NoWait, lastRequest')
      BY <2>1, FrugalTyped, SpentStill DEF Frugal
    <2> QED BY <2>2, <2>3 DEF Frugal
  <1>9. now' \in 0 .. MaxTime
    BY NativeAssumption, SMTT(20) DEF NativeInv
  <1>10. answer' \in [Thread -> Answers]
    BY SMTT(20) DEF Answers
  <1>11. Suspended' = Suspended
    BY DEF Suspended, Indices
  <1>12. NativeInv'
    BY <1>7, <1>8, <1>9, <1>10 DEF NativeInv, ClientsWell
  <1> QED BY <1>6, <1>11, <1>12 DEF Preserved

\* `swap_remove' leaves every other element, in some order.
LEMMA SwapRemoveIs ==
  ASSUME NEW S, NEW q \in Seq(S), NEW i \in 1 .. Len(q)
  PROVE  /\ SwapRemove(q, i) \in Seq(S) /\ Len(SwapRemove(q, i)) = Len(q) - 1
         /\ DOMAIN SwapRemove(q, i) = 1 .. Len(q) - 1
         /\ \A k \in 1 .. Len(q) - 1 :
               SwapRemove(q, i)[k] = IF k = i THEN q[Len(q)] ELSE q[k]
  <1> DEFINE n == Len(q)
             p == [q EXCEPT ![i] = q[n]]
  <1>1. n \in Nat /\ n >= 1 /\ n \in 1 .. n /\ DOMAIN q = 1 .. n
    BY SMTT(20)
  <1> USE <1>1
  <1>2. p \in Seq(S) /\ Len(p) = n
    BY SMTT(20)
  <1>3. \A k \in 1 .. n : p[k] = IF k = i THEN q[n] ELSE q[k]
    BY SMTT(20)
  <1>4. SwapRemove(q, i) = SubSeq(p, 1, n - 1)
    BY SMTT(20) DEF SwapRemove
  <1> HIDE DEF p, n
  <1>5. \A k \in 1 .. n - 1 : k \in 1 .. n
    BY SMTT(20)
  <1>6. /\ SubSeq(p, 1, n - 1) \in Seq(S) /\ Len(SubSeq(p, 1, n - 1)) = n - 1
        /\ DOMAIN SubSeq(p, 1, n - 1) = 1 .. n - 1
        /\ \A k \in 1 .. n - 1 : SubSeq(p, 1, n - 1)[k] = p[k]
    BY <1>2, SMTT(20)
  <1>7. \A k \in 1 .. n - 1 : SwapRemove(q, i)[k] = IF k = i THEN q[n] ELSE q[k]
    BY <1>3, <1>4, <1>5, <1>6
  <1> QED BY <1>4, <1>6, <1>7 DEF n

\* The suspended call i, with call s and wait w, leaves the three tables.
LEMMA LeaveTables ==
  ASSUME TablesInv, EntriesExact, Frugal, completions' = completions, NEW i \in Indices,
         NEW s, NEW w, Bound(suspended[i], s, w),
         waits' = Resolved({w}), Release({s}), suspended' = SwapRemove(suspended, i)
  PROVE  /\ TablesInv' /\ EntriesExact' /\ Frugal' /\ KeyNamesOneWait /\ OperationNamesOneCall
         /\ Suspended' = Suspended \ {suspended[i].thread}
  <1> DEFINE n == Len(suspended)
  <1>1. /\ WaitsWell /\ CallsWell /\ Linked /\ CompletionsOver /\ n \in Nat /\ Indices = 1 .. n
        /\ suspended \in Seq(Entry) /\ n <= Cardinality(Thread)
        /\ \A j, k \in Indices : suspended[j].thread = suspended[k].thread => j = k
    BY EntriesTyped DEF TablesInv, EntriesExact
  <1> DEFINE m(k) == IF k = i THEN n ELSE k
  <1>q. /\ suspended' \in Seq(Entry) /\ Len(suspended') = n - 1 /\ Indices' = 1 .. n - 1
        /\ \A k \in 1 .. n - 1 : suspended'[k] = suspended[m(k)]
    <2>1. i \in 1 .. Len(suspended)
      BY <1>1
    <2>2. suspended \in Seq(Entry)
      BY <1>1
    <2>3. /\ suspended' \in Seq(Entry) /\ Len(suspended') = Len(suspended) - 1
          /\ DOMAIN suspended' = 1 .. Len(suspended) - 1
          /\ \A k \in 1 .. Len(suspended) - 1 :
                suspended'[k] = IF k = i THEN suspended[Len(suspended)] ELSE suspended[k]
      BY <2>1, <2>2, SwapRemoveIs
    <2>4. ASSUME NEW k \in 1 .. n - 1
          PROVE  suspended'[k] = suspended[m(k)]
      BY <2>3
    <2> QED BY <2>3, <2>4 DEF Indices
  <1> USE <1>q
  <1>2. s \in Pending /\ w \in Held /\ suspended[i].operation = Operation(s) /\ Waits(s, w)
    BY DEF Bound
  <1>3. /\ WaitsWell' /\ Held' = Held \ {w} /\ KeyNamesOneWait
        /\ \A v \in WaitSlots \ {w} : waits'[v] = waits[v]
        /\ \A k \in Identity : Over(k) => Over(k)'
    BY <1>1, <1>2, ResolvedIs
  <1> USE <1>3
  <1>4. /\ CallsWell' /\ Pending' = Pending \ {s} /\ OperationNamesOneCall
        /\ \A r \in CallSlots \ {s} : calls'[r] = calls[r]
    BY <1>1, <1>2, ReleaseIs
  <1> USE <1>4
  <1>5. Frugal'
    BY <1>2, FrugalEnds
  <1>6. Linked'
    <2> SUFFICES ASSUME NEW v \in Held'
                 PROVE  \E x \in Named(waits[v].record.operation)' : Waits(x, v)'
      BY DEF Linked
    <2>1. v \in Held /\ v # w /\ v \in WaitSlots /\ waits'[v] = waits[v]
      BY DEF Held
    <2>2. PICK r \in Named(waits[v].record.operation) : Waits(r, v)
      BY <1>1, <2>1 DEF Linked
    <2>3. r # s
      BY <1>2, <2>1, <2>2, KeySlot DEF Waits
    <2>4. r \in CallSlots /\ calls'[r] = calls[r]
      BY <2>2, <2>3 DEF Named, Pending
    <2>5. \E x \in Named(waits[v].record.operation)' : Waits(x, v)'
      BY <2>1, <2>2, <2>4, LinkSurvives
    <2> QED BY <2>5
  <1>7. CompletionsOver'
    BY <1>1 DEF CompletionsOver
  <1>8. TablesInv'
    BY <1>6, <1>7 DEF TablesInv
  <1> HIDE DEF n
  <1>10. \A k \in 1 .. n - 1 : m(k) \in Indices /\ m(k) # i
    BY <1>1, SMTT(20)
  <1>11. \A j, k \in 1 .. n - 1 : m(j) = m(k) => j = k
    BY <1>1, SMTT(20)
  <1>12. \A j \in Indices : j # i => \E k \in 1 .. n - 1 : m(k) = j
    <2> SUFFICES ASSUME NEW j \in Indices, j # i PROVE \E k \in 1 .. n - 1 : m(k) = j
      BY SMTT(20)
    <2>1. CASE j = n
      <3>1. i \in 1 .. n - 1 /\ m(i) = j
        BY <1>1, <2>1, SMTT(20)
      <3> QED BY <3>1
    <2>2. CASE j # n
      <3>1. j \in 1 .. n - 1 /\ m(j) = j
        BY <1>1, <2>2, SMTT(20)
      <3> QED BY <3>1
    <2> QED BY <2>1, <2>2
  <1> HIDE DEF m
  <1>13. EntriesExact'
    <2>1. Len(suspended') <= Cardinality(Thread)
      BY <1>1, FS_CardinalityType, NativeAssumption, SMTT(20)
    <2>2. \A j, k \in 1 .. n - 1 : suspended'[j].thread = suspended'[k].thread => j = k
      <3> SUFFICES ASSUME NEW j \in 1 .. n - 1, NEW k \in 1 .. n - 1,
                          suspended'[j].thread = suspended'[k].thread
                   PROVE  j = k
        OBVIOUS
      <3>1. suspended[m(j)].thread = suspended[m(k)].thread
        OBVIOUS
      <3>2. m(j) = m(k)
        BY <1>1, <1>10, <3>1
      <3> QED BY <1>11, <3>2
    <2>3. ASSUME NEW j \in 1 .. n - 1, NEW x, x = suspended'[j]
          PROVE  \E r \in CallSlots, v \in WaitSlots : Bound(x, r, v)'
      <3>1. x = suspended[m(j)] /\ m(j) \in Indices /\ m(j) # i
        BY <1>10, <2>3
      <3>2. PICK r \in CallSlots, v \in WaitSlots : Bound(x, r, v)
        BY <3>1 DEF EntriesExact
      <3>3. x.operation # suspended[i].operation
        BY <3>1, EntriesDiffer
      <3>4. Named(x.operation) = {r} /\ OfOperation(x.operation) = {v}
        BY <3>2, BoundAlone
      <3>5. Named(suspended[i].operation) = {s} /\ OfOperation(suspended[i].operation) = {w}
        BY BoundAlone
      <3>6. r # s /\ v # w
        BY <3>3, <3>4, <3>5 DEF Named, OfOperation
      <3>7. calls'[r] = calls[r] /\ waits'[v] = waits[v]
        BY <3>6
      <3> QED BY <3>2, <3>7, BoundStays
    <2>4. ASSUME NEW x \in Pending'
          PROVE  \E k \in 1 .. n - 1 : suspended'[k].operation = Operation(x)'
      <3>1. x \in Pending /\ x # s /\ x \in CallSlots /\ calls'[x] = calls[x]
        BY DEF Pending
      <3>2. PICK j \in Indices : suspended[j].operation = Operation(x)
        BY <3>1 DEF EntriesExact
      <3>3. j # i
        BY <1>2, <3>1, <3>2, OperationSlot
      <3>4. PICK k \in 1 .. n - 1 : m(k) = j
        BY <1>12, <3>3
      <3>5. suspended'[k].operation = Operation(x)
        BY <3>2, <3>4
      <3>6. Operation(x)' = Operation(x)
        BY <3>1 DEF Operation
      <3> QED BY <3>5, <3>6
    <2> QED BY <2>1, <2>2, <2>3, <2>4 DEF EntriesExact
  <1>14. Suspended' = Suspended \ {suspended[i].thread}
    <2>1. Suspended' = {suspended'[k].thread : k \in 1 .. n - 1}
      BY DEF Suspended
    <2>2. ASSUME NEW t \in Suspended'
          PROVE  t \in Suspended \ {suspended[i].thread}
      <3>1. PICK k \in 1 .. n - 1 : t = suspended'[k].thread
        BY <2>1
      <3>2. t = suspended[m(k)].thread /\ m(k) \in Indices /\ m(k) # i
        BY <1>10, <3>1
      <3> QED BY <1>1, <3>2 DEF Suspended
    <2>3. ASSUME NEW t \in Suspended, t # suspended[i].thread
          PROVE  t \in Suspended'
      <3>1. PICK j \in Indices : t = suspended[j].thread
        BY DEF Suspended
      <3>2. j # i
        BY <2>3, <3>1
      <3>3. PICK k \in 1 .. n - 1 : m(k) = j
        BY <1>12, <3>2
      <3>4. t = suspended'[k].thread
        BY <3>1, <3>3
      <3> QED BY <2>1, <3>4
    <2> QED BY <2>2, <2>3
  <1> QED BY <1>5, <1>8, <1>13, <1>14

=============================================================================
