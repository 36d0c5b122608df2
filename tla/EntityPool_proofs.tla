------------------------- MODULE EntityPool_proofs -------------------------
(***************************************************************************)
(* Proofs about EntityPool, for every bound and every set of type tags.    *)
(***************************************************************************)
EXTENDS EntityPool, FiniteSetTheorems, TLAPS

\* The empty pool satisfies the inductive invariant.
LEMMA InitPoolInv == Init => PoolInv
  BY DEF Init, PoolInv, TypeOK, FreeListBijection, IdsUnique,
         IndexAgreesWithStorage, Slots, EngagedSlots, Engaged

\* What acquire() puts into a slot is an entity.
LEMMA FreshEntityType ==
  ASSUME nextId \in Nat, NEW t \in EntityType
  PROVE  FreshEntity(t) \in Entity
  BY DEF FreshEntity, Entity

\* A slot that was free gets the entity numbered nextId: ids stay unique and the
\* index keeps agreeing with the storage.
LEMMA NewTenantKeepsIds ==
  ASSUME nextId \in Nat \ {0}, nextId' = nextId + 1,
         IdsUnique, IndexAgreesWithStorage,
         NEW slot, slot \notin EngagedSlots,
         EngagedSlots' = EngagedSlots \cup {slot},
         storage'[slot].id = nextId,
         \A i \in EngagedSlots : storage'[i] = storage[i],
         DOMAIN idToIndices' = DOMAIN idToIndices \cup {nextId},
         idToIndices'[nextId] = slot,
         \A k \in DOMAIN idToIndices : k # nextId => idToIndices'[k] = idToIndices[k]
  PROVE  IdsUnique' /\ IndexAgreesWithStorage'
PROOF
<1>1. \A i \in EngagedSlots : /\ storage'[i].id = storage[i].id
                              /\ storage[i].id \in 1 .. (nextId - 1)
                              /\ storage[i].id # nextId
  BY DEF IdsUnique
<1>2. \A i \in EngagedSlots' : storage'[i].id \in 1 .. (nextId' - 1)
  BY <1>1
<1>3. \A i, j \in EngagedSlots' : storage'[i].id = storage'[j].id => i = j
  BY <1>1 DEF IdsUnique
<1>4. DOMAIN idToIndices' = {storage'[i].id : i \in EngagedSlots'}
  BY <1>1 DEF IndexAgreesWithStorage
<1>5. \A i \in EngagedSlots' : idToIndices'[storage'[i].id] = i
  BY <1>1 DEF IndexAgreesWithStorage
<1> QED BY <1>2, <1>3, <1>4, <1>5 DEF IdsUnique, IndexAgreesWithStorage

\* acquire() from the free list.
LEMMA AcquireReuseKeepsPoolInv ==
  ASSUME PoolInv, NEW t \in EntityType, AcquireReuse(t)
  PROVE  PoolInv'
PROOF
<1> DEFINE n == Len(freeIndices)
           slot == freeIndices[n]
<1> USE DEF PoolInv
<1>1. n \in Nat \ {0} /\ slot \in Slots /\ ~Engaged(slot)
  BY DEF AcquireReuse, TypeOK, FreeListBijection
<1>2. /\ storage' = [storage EXCEPT ![slot] = FreshEntity(t)]
      /\ freeIndices' = SubSeq(freeIndices, 1, n - 1)
      /\ idToIndices' = IndexWith(nextId, slot)
      /\ nextId' = nextId + 1
  BY DEF AcquireReuse, PopBack
<1>3. FreshEntity(t) \in Entity /\ FreshEntity(t) # Nullopt /\ FreshEntity(t).id = nextId
  BY FreshEntityType, NulloptAssumption DEF TypeOK, FreshEntity
<1>4. /\ storage' \in Seq(Entity \cup {Nullopt}) /\ Slots' = Slots
      /\ storage'[slot] = FreshEntity(t)
      /\ \A i \in Slots \ {slot} : storage'[i] = storage[i]
  BY <1>1, <1>2, <1>3 DEF TypeOK, Slots
<1>5. EngagedSlots' = EngagedSlots \cup {slot} /\ slot \notin EngagedSlots
  BY <1>1, <1>3, <1>4 DEF EngagedSlots, Engaged
<1>6. /\ freeIndices' \in Seq(Slots)
      /\ DOMAIN freeIndices' = 1 .. (n - 1)
      /\ \A k \in 1 .. (n - 1) : freeIndices'[k] = freeIndices[k]
  BY <1>1, <1>2 DEF TypeOK
<1>7. /\ DOMAIN idToIndices' = DOMAIN idToIndices \cup {nextId}
      /\ idToIndices'[nextId] = slot
      /\ \A k \in DOMAIN idToIndices : k # nextId => idToIndices'[k] = idToIndices[k]
  BY <1>2 DEF IndexWith
<1>8. TypeOK'
  <2>1. idToIndices' \in [DOMAIN idToIndices' -> Slots]
    BY <1>1, <1>2 DEF TypeOK, IndexWith
  <2>2. DOMAIN idToIndices' \subseteq 1 .. (nextId' - 1)
    BY <1>2, <1>7 DEF TypeOK
  <2> QED BY <1>2, <1>4, <1>6, <2>1, <2>2 DEF TypeOK
<1>9. FreeListBijection'
  <2>1. DOMAIN freeIndices = 1 .. n
    BY DEF TypeOK
  <2>2. \A k \in 1 .. (n - 1) : freeIndices[k] # slot
    BY <1>1, <2>1 DEF FreeListBijection
  <2>3. \A k \in 1 .. (n - 1) : freeIndices[k] \in Slots /\ ~Engaged(freeIndices[k])
    BY <1>1, <2>1 DEF FreeListBijection, TypeOK
  <2>4. \A k \in 1 .. (n - 1) : storage'[freeIndices'[k]] = Nullopt
    BY <1>4, <1>6, <2>2, <2>3 DEF Engaged
  <2>5. ASSUME NEW i \in Slots, storage'[i] = Nullopt
        PROVE  \E k \in 1 .. (n - 1) : freeIndices'[k] = i
    <3>1. i # slot /\ ~Engaged(i)
      BY <1>3, <1>4, <2>5 DEF Engaged
    <3>2. PICK k \in 1 .. n : freeIndices[k] = i
      BY <2>1, <3>1 DEF FreeListBijection
    <3>3. k \in 1 .. (n - 1)
      BY <1>1, <3>1, <3>2
    <3> QED BY <1>6, <3>2, <3>3
  <2>6. \A j, k \in 1 .. (n - 1) : freeIndices'[j] = freeIndices'[k] => j = k
    BY <1>1, <1>6, <2>1 DEF FreeListBijection
  <2> QED BY <1>4, <1>6, <2>4, <2>5, <2>6 DEF FreeListBijection, Engaged
<1>10. IdsUnique' /\ IndexAgreesWithStorage'
  BY <1>2, <1>3, <1>4, <1>5, <1>7, NewTenantKeepsIds DEF TypeOK, EngagedSlots
<1> QED BY <1>8, <1>9, <1>10

\* acquire() with an empty free list.
LEMMA AcquireGrowKeepsPoolInv ==
  ASSUME PoolInv, NEW t \in EntityType, AcquireGrow(t)
  PROVE  PoolInv'
PROOF
<1> DEFINE slot == Len(storage) + 1
<1> USE DEF PoolInv
<1>1. slot \in Nat \ {0} /\ slot \notin Slots /\ Slots = 1 .. (slot - 1)
  BY DEF TypeOK, Slots
<1>2. /\ storage' = Append(storage, FreshEntity(t))
      /\ freeIndices' = << >> /\ freeIndices = << >>
      /\ idToIndices' = IndexWith(nextId, slot)
      /\ nextId' = nextId + 1
  BY DEF AcquireGrow
<1>3. FreshEntity(t) \in Entity /\ FreshEntity(t) # Nullopt /\ FreshEntity(t).id = nextId
  BY FreshEntityType, NulloptAssumption DEF TypeOK, FreshEntity
<1>4. /\ storage' \in Seq(Entity \cup {Nullopt}) /\ Slots' = Slots \cup {slot}
      /\ storage'[slot] = FreshEntity(t)
      /\ \A i \in Slots : storage'[i] = storage[i]
  BY <1>2, <1>3 DEF TypeOK, Slots
<1>5. EngagedSlots' = EngagedSlots \cup {slot} /\ slot \notin EngagedSlots
  BY <1>1, <1>3, <1>4 DEF EngagedSlots, Engaged
<1>6. /\ DOMAIN idToIndices' = DOMAIN idToIndices \cup {nextId}
      /\ idToIndices'[nextId] = slot
      /\ \A k \in DOMAIN idToIndices : k # nextId => idToIndices'[k] = idToIndices[k]
  BY <1>2 DEF IndexWith
<1>7. TypeOK'
  <2>1. idToIndices' \in [DOMAIN idToIndices' -> Slots']
    BY <1>2, <1>4 DEF TypeOK, IndexWith
  <2>2. DOMAIN idToIndices' \subseteq 1 .. (nextId' - 1)
    BY <1>2, <1>6 DEF TypeOK
  <2> QED BY <1>2, <1>4, <2>1, <2>2 DEF TypeOK
<1>8. FreeListBijection'
  <2>1. \A i \in Slots : storage[i] # Nullopt
    BY <1>2 DEF FreeListBijection, Engaged
  <2>2. \A i \in Slots' : storage'[i] # Nullopt
    BY <1>3, <1>4, <2>1
  <2>3. DOMAIN freeIndices' = {}
    BY <1>2
  <2> QED BY <2>2, <2>3 DEF FreeListBijection, Engaged
<1>9. IdsUnique' /\ IndexAgreesWithStorage'
  BY <1>2, <1>3, <1>4, <1>5, <1>6, NewTenantKeepsIds DEF TypeOK, EngagedSlots
<1> QED BY <1>7, <1>8, <1>9

\* Flagging entities changes neither ids nor which slots are engaged.
LEMMA MarkKeepsPoolInv ==
  ASSUME PoolInv, NEW S \in SUBSET EngagedSlots, MarkDestroyed(S)
  PROVE  PoolInv'
PROOF
<1> USE DEF PoolInv
<1> DEFINE Flagged(i) == [storage[i] EXCEPT !.isDestroyed = TRUE]
<1>1. UNCHANGED <<freeIndices, idToIndices, nextId>>
  BY DEF MarkDestroyed
<1>2. \A i \in S : /\ i \in Slots /\ storage[i] \in Entity
                   /\ Flagged(i) \in Entity /\ Flagged(i).id = storage[i].id
  <2>1. \A i \in S : i \in Slots /\ storage[i] \in Entity
    BY DEF EngagedSlots, Engaged, TypeOK, Slots
  <2> QED BY <2>1 DEF Entity
<1>3. /\ storage' \in Seq(Entity \cup {Nullopt}) /\ Slots' = Slots
      /\ \A i \in S : storage'[i] = Flagged(i)
      /\ \A i \in Slots \ S : storage'[i] = storage[i]
  <2>1. Len(storage) \in Nat /\ \A i \in Slots : storage[i] \in Entity \cup {Nullopt}
    BY DEF TypeOK, Slots
  <2>2. storage' = [i \in Slots |-> IF i \in S THEN Flagged(i) ELSE storage[i]]
    BY DEF MarkDestroyed
  <2>3. storage' \in [1 .. Len(storage) -> Entity \cup {Nullopt}]
    BY <1>2, <2>1, <2>2 DEF Slots
  <2>4. storage' \in Seq(Entity \cup {Nullopt}) /\ Len(storage') = Len(storage)
    BY <2>1, <2>3
  <2> QED BY <1>2, <2>2, <2>4 DEF Slots
<1>4. \A j \in Slots : Engaged(j)' <=> Engaged(j)
  <2>1. ASSUME NEW j \in S PROVE storage'[j] # Nullopt /\ storage[j] # Nullopt
    BY <1>2, <1>3, NulloptAssumption
  <2> QED BY <1>3, <2>1 DEF Engaged
<1>5. EngagedSlots' = EngagedSlots
  BY <1>3, <1>4 DEF EngagedSlots
<1>6. \A j \in EngagedSlots : storage'[j].id = storage[j].id
  BY <1>2, <1>3 DEF EngagedSlots
<1>7. TypeOK'
  BY <1>1, <1>3 DEF TypeOK
<1>8. FreeListBijection'
  <2>1. \A k \in DOMAIN freeIndices : freeIndices[k] \in Slots
    BY DEF TypeOK
  <2>2. \A k \in DOMAIN freeIndices : storage'[freeIndices[k]] = Nullopt
    BY <1>4, <2>1 DEF FreeListBijection, Engaged
  <2>3. \A j \in Slots : storage'[j] = Nullopt => \E k \in DOMAIN freeIndices : freeIndices[k] = j
    BY <1>4 DEF FreeListBijection, Engaged
  <2> QED BY <1>1, <1>3, <2>2, <2>3 DEF FreeListBijection, Engaged
<1>9. IdsUnique'
  BY <1>1, <1>5, <1>6 DEF IdsUnique
<1>10. IndexAgreesWithStorage'
  BY <1>1, <1>5, <1>6 DEF IndexAgreesWithStorage
<1> QED BY <1>7, <1>8, <1>9, <1>10

\* recycleDestroyed(): the freed slots go to the free list and leave the index.
LEMMA RecycleKeepsPoolInv ==
  ASSUME PoolInv, RecycleDestroyed
  PROVE  PoolInv'
PROOF
<1> DEFINE D == DestroyedSlots
           n == Len(freeIndices)
<1> USE DEF PoolInv
<1>1. PICK freed \in [1 .. Cardinality(D) -> D] :
        Enumerates(freed, D) /\ freeIndices' = freeIndices \o freed
  BY DEF RecycleDestroyed
<1>2. /\ storage' = [i \in Slots |-> IF i \in D THEN Nullopt ELSE storage[i]]
      /\ idToIndices' = IndexWithout(D)
      /\ nextId' = nextId
  BY DEF RecycleDestroyed
<1>3. D \subseteq EngagedSlots /\ EngagedSlots \subseteq Slots
  BY DEF DestroyedSlots, EngagedSlots
<1>4. Cardinality(D) \in Nat /\ IsFiniteSet(D)
  <2>1. IsFiniteSet(Slots)
    BY FS_Interval DEF TypeOK, Slots
  <2> QED BY <1>3, <2>1, FS_Subset, FS_CardinalityType
<1> DEFINE m == Cardinality(D)
<1>5. /\ storage' \in Seq(Entity \cup {Nullopt}) /\ Slots' = Slots
      /\ \A i \in Slots \ D : storage'[i] = storage[i]
      /\ \A i \in D : storage'[i] = Nullopt
  <2>1. Len(storage) \in Nat /\ \A i \in Slots : storage[i] \in Entity \cup {Nullopt}
    BY DEF TypeOK, Slots
  <2>2. storage' \in [1 .. Len(storage) -> Entity \cup {Nullopt}]
    BY <1>2, <2>1 DEF Slots
  <2>3. storage' \in Seq(Entity \cup {Nullopt}) /\ Len(storage') = Len(storage)
    BY <2>1, <2>2
  <2> QED BY <1>2, <1>3, <2>3 DEF Slots
<1>6. EngagedSlots' = EngagedSlots \ D
  BY <1>3, <1>5 DEF EngagedSlots, Engaged
<1>7. freed \in Seq(Slots) /\ Len(freed) = m /\ DOMAIN freed = 1 .. m
  BY <1>1, <1>3, <1>4
<1>8. /\ freeIndices' \in Seq(Slots)
      /\ n \in Nat /\ DOMAIN freeIndices = 1 .. n
      /\ DOMAIN freeIndices' = 1 .. (n + m)
      /\ \A k \in 1 .. n : freeIndices'[k] = freeIndices[k]
      /\ \A k \in 1 .. m : freeIndices'[n + k] = freed[k]
      /\ \A k \in (n + 1) .. (n + m) : k - n \in 1 .. m /\ freeIndices'[k] = freed[k - n]
  BY <1>1, <1>4, <1>7 DEF TypeOK
<1>9. /\ DOMAIN idToIndices' = DOMAIN idToIndices \ {storage[i].id : i \in D}
      /\ \A k \in DOMAIN idToIndices' : idToIndices'[k] = idToIndices[k]
  BY <1>2 DEF IndexWithout
<1>10. TypeOK'
  <2>1. idToIndices' \in [DOMAIN idToIndices' -> Slots]
    BY <1>2, <1>9 DEF TypeOK, IndexWithout
  <2> QED BY <1>2, <1>5, <1>8, <1>9, <2>1 DEF TypeOK
<1>11. FreeListBijection'
  <2>1. \A k \in 1 .. n : freeIndices[k] \in Slots /\ storage[freeIndices[k]] = Nullopt /\ freeIndices[k] \notin D
    BY <1>3, <1>8 DEF TypeOK, FreeListBijection, Engaged, EngagedSlots
  <2>2. \A k \in 1 .. m : freed[k] \in D
    BY <1>1, <1>4
  <2>3. \A k \in 1 .. (n + m) : k \in 1 .. n \/ k \in (n + 1) .. (n + m)
    BY <1>4, <1>8
  <2>4. \A k \in 1 .. (n + m) : storage'[freeIndices'[k]] = Nullopt
    BY <1>5, <1>8, <2>1, <2>2, <2>3
  <2>5. \A j, k \in 1 .. m : freed[j] = freed[k] => j = k
    <3>1. \A k \in 1 .. m : freed[k] \in Nat
      BY <1>3, <2>2 DEF Slots, TypeOK
    <3>2. \A j, k \in 1 .. m : j < k => freed[j] < freed[k]
      BY <1>1, <1>7 DEF Enumerates
    <3> QED BY <1>4, <3>1, <3>2
  <2>6. \A j, k \in 1 .. (n + m) : freeIndices'[j] = freeIndices'[k] => j = k
    <3>1. \A j, k \in 1 .. n : freeIndices[j] = freeIndices[k] => j = k
      BY <1>8 DEF FreeListBijection
    <3>2. SUFFICES ASSUME NEW j \in 1 .. (n + m), NEW k \in 1 .. (n + m),
                          freeIndices'[j] = freeIndices'[k]
                   PROVE  j = k
      OBVIOUS
    <3>3. CASE j \in 1 .. n /\ k \in 1 .. n
      BY <1>8, <3>1, <3>2, <3>3
    <3>4. CASE j \in 1 .. n /\ k \in (n + 1) .. (n + m)
      BY <1>8, <2>1, <2>2, <3>2, <3>4
    <3>5. CASE j \in (n + 1) .. (n + m) /\ k \in 1 .. n
      BY <1>8, <2>1, <2>2, <3>2, <3>5
    <3>6. CASE j \in (n + 1) .. (n + m) /\ k \in (n + 1) .. (n + m)
      <4>1. j - n = k - n
        BY <1>8, <2>5, <3>2, <3>6
      <4> QED BY <1>4, <1>8, <3>6, <4>1
    <3> QED BY <2>3, <3>3, <3>4, <3>5, <3>6
  <2>7. ASSUME NEW i \in Slots, storage'[i] = Nullopt
        PROVE  \E k \in 1 .. (n + m) : freeIndices'[k] = i
    <3>1. CASE i \in D
      <4>1. PICK k \in 1 .. m : freed[k] = i
        BY <1>1, <1>7, <3>1 DEF Enumerates
      <4>2. n + k \in 1 .. (n + m)
        BY <1>4, <1>8
      <4> QED BY <1>8, <4>1, <4>2
    <3>2. CASE i \notin D
      <4>1. storage[i] = Nullopt
        BY <1>5, <2>7, <3>2
      <4>2. PICK k \in 1 .. n : freeIndices[k] = i
        BY <1>8, <4>1 DEF FreeListBijection, Engaged
      <4>3. k \in 1 .. (n + m)
        BY <1>4, <1>8
      <4> QED BY <1>8, <4>2, <4>3
    <3> QED BY <3>1, <3>2
  <2> QED BY <1>5, <1>8, <2>4, <2>6, <2>7 DEF FreeListBijection, Engaged
<1>12. \A i \in EngagedSlots' : storage'[i] = storage[i]
  BY <1>3, <1>5, <1>6
<1>13. IdsUnique'
  BY <1>2, <1>6, <1>12 DEF IdsUnique
<1>14. IndexAgreesWithStorage'
  <2>1. \A i \in EngagedSlots, j \in D : storage[i].id = storage[j].id => i = j
    BY <1>3 DEF IdsUnique
  <2>2. DOMAIN idToIndices' = {storage[i].id : i \in EngagedSlots \ D}
    BY <1>3, <1>9, <2>1 DEF IndexAgreesWithStorage
  <2>3. {storage[i].id : i \in EngagedSlots \ D} = {storage'[i].id : i \in EngagedSlots'}
    BY <1>6, <1>12
  <2>4. \A i \in EngagedSlots' : storage[i].id \in DOMAIN idToIndices'
    BY <1>6, <2>2
  <2>5. \A i \in EngagedSlots' : idToIndices'[storage'[i].id] = i
    BY <1>6, <1>9, <1>12, <2>4 DEF IndexAgreesWithStorage
  <2> QED BY <2>2, <2>3, <2>5 DEF IndexAgreesWithStorage
<1> QED BY <1>10, <1>11, <1>13, <1>14

\* One step of the pool keeps the inductive invariant.
LEMMA NextKeepsPoolInv == PoolInv /\ [Next]_poolVars => PoolInv'
PROOF
<1> SUFFICES ASSUME PoolInv, [Next]_poolVars
             PROVE  PoolInv'
  OBVIOUS
<1>1. ASSUME NEW t \in EntityType, Acquire(t)
      PROVE  PoolInv'
  BY <1>1, AcquireReuseKeepsPoolInv, AcquireGrowKeepsPoolInv DEF Acquire
<1>2. ASSUME NEW S \in SUBSET EngagedSlots, MarkDestroyed(S)
      PROVE  PoolInv'
  BY <1>2, MarkKeepsPoolInv
<1>3. CASE RecycleDestroyed
  BY <1>3, RecycleKeepsPoolInv
<1>4. CASE UNCHANGED poolVars
  BY <1>4 DEF poolVars, PoolInv, TypeOK, FreeListBijection, IdsUnique,
              IndexAgreesWithStorage, Slots, EngagedSlots, Engaged
<1> QED BY <1>1, <1>2, <1>3, <1>4 DEF Next

\* Every reachable state of the pool satisfies the inductive invariant.
THEOREM PoolInvariant == Spec => []PoolInv
  BY InitPoolInv, NextKeepsPoolInv, PTL DEF Spec

\* The type invariant of the pool, for every bound on the ids.
THEOREM TypeCorrect == Spec => []TypeOK
PROOF
<1>1. PoolInv => TypeOK
  BY DEF PoolInv
<1> QED BY <1>1, PoolInvariant, PTL

\* The class invariant of entity_pool.h: the free list lists exactly the
\* disengaged slots, each once.
THEOREM FreeListCorrect == Spec => []FreeListBijection
PROOF
<1>1. PoolInv => FreeListBijection
  BY DEF PoolInv
<1> QED BY <1>1, PoolInvariant, PTL

\* findByEntityID() is exact: id_to_indices_ has the ids of the engaged slots
\* and nothing else.
THEOREM IndexCorrect == Spec => []IndexAgreesWithStorage
PROOF
<1>1. PoolInv => IndexAgreesWithStorage
  BY DEF PoolInv
<1> QED BY <1>1, PoolInvariant, PTL

\* The size of 1 .. k.
LEMMA IntervalSize ==
  ASSUME NEW k \in Nat
  PROVE  IsFiniteSet(1 .. k) /\ Cardinality(1 .. k) = k
PROOF
<1>1. 1 \in Int /\ k \in Int
  OBVIOUS
<1>2. /\ IsFiniteSet(1 .. k)
      /\ Cardinality(1 .. k) = IF 1 > k THEN 0 ELSE k - 1 + 1
  BY <1>1, FS_Interval, Zenon
<1>3. (IF 1 > k THEN 0 ELSE k - 1 + 1) = k
  OBVIOUS
<1> QED BY <1>2, <1>3

\* activeCount() counts the engaged slots: the free list is a bijection onto the
\* other slots, so the two sizes differ by exactly their number.
LEMMA PoolInvGivesActiveCount == PoolInv => ActiveCountExact
PROOF
<1> SUFFICES ASSUME PoolInv
             PROVE  ActiveCountExact
  OBVIOUS
<1> DEFINE n == Len(freeIndices)
           F == Slots \ EngagedSlots
<1> USE DEF PoolInv
<1>1. n \in Nat /\ DOMAIN freeIndices = 1 .. n /\ Len(storage) \in Nat
  BY DEF TypeOK
<1>2. IsFiniteSet(Slots) /\ Cardinality(Slots) = Len(storage)
  BY <1>1, IntervalSize DEF Slots
<1>3. IsFiniteSet(1 .. n) /\ Cardinality(1 .. n) = n
  BY <1>1, IntervalSize
<1>4. ExistsBijection(1 .. n, F)
  <2>1. freeIndices \in [1 .. n -> F]
    BY <1>1 DEF TypeOK, FreeListBijection, EngagedSlots
  <2>2. freeIndices \in Injection(1 .. n, F)
    BY <1>1, <2>1 DEF FreeListBijection, Injection, IsInjective
  <2>3. freeIndices \in Surjection(1 .. n, F)
    BY <1>1, <2>1 DEF FreeListBijection, EngagedSlots, Surjection
  <2> QED BY <2>2, <2>3 DEF Bijection, ExistsBijection
<1>5. IsFiniteSet(F) /\ Cardinality(F) = n
  BY <1>3, <1>4, FS_Bijection
<1>6. EngagedSlots = Slots \ F /\ Slots \cap F = F
  BY DEF EngagedSlots
<1>7. Cardinality(EngagedSlots) = Len(storage) - n
  <2>1. Cardinality(Slots \ F) = Cardinality(Slots) - Cardinality(Slots \cap F)
    BY <1>2, FS_Difference, Zenon
  <2> QED BY <1>2, <1>5, <1>6, <2>1
<1> QED BY <1>7 DEF ActiveCountExact, ActiveCount

\* activeCount() is the number of engaged slots in every reachable state.
THEOREM ActiveCountCorrect == Spec => []ActiveCountExact
  BY PoolInvariant, PoolInvGivesActiveCount, PTL

\* An id that does not resolve is not given to any entity again.
THEOREM StaleIdsStayStale == Spec => StaleIdNeverResolves
PROOF
<1> DEFINE A == \A id \in 1 .. (nextId - 1) :
                  FindByEntityID(id) = Nullopt => FindByEntityID(id)' = Nullopt
<1>1. ASSUME PoolInv, PoolInv', [Next]_poolVars
      PROVE  A
  <2>1. SUFFICES ASSUME NEW id \in 1 .. (nextId - 1), FindByEntityID(id) = Nullopt
                 PROVE  FindByEntityID(id)' = Nullopt
    OBVIOUS
  <2>2. id \notin DOMAIN idToIndices
    <3>1. SUFFICES ASSUME id \in DOMAIN idToIndices
                   PROVE  FALSE
      OBVIOUS
    <3>2. PICK i \in EngagedSlots : id = storage[i].id
      BY <1>1, <3>1 DEF PoolInv, IndexAgreesWithStorage
    <3>3. FindByEntityID(id) = storage[i]
      BY <1>1, <3>1, <3>2 DEF PoolInv, IndexAgreesWithStorage, FindByEntityID
    <3> QED BY <2>1, <3>2, <3>3 DEF EngagedSlots, Engaged
  <2>3. id # nextId
    BY <1>1 DEF PoolInv, TypeOK
  <2>4. id \notin DOMAIN idToIndices'
    <3>1. CASE \E t \in EntityType : Acquire(t)
      BY <2>2, <2>3, <3>1 DEF Acquire, AcquireReuse, AcquireGrow, IndexWith
    <3>2. CASE RecycleDestroyed
      BY <2>2, <3>2 DEF RecycleDestroyed, IndexWithout
    <3>3. CASE UNCHANGED idToIndices
      BY <2>2, <3>3
    <3> QED BY <1>1, <3>1, <3>2, <3>3 DEF Next, MarkDestroyed, poolVars
  <2> QED BY <2>4 DEF FindByEntityID
<1> QED BY <1>1, PoolInvariant, PTL DEF Spec, StaleIdNeverResolves

-----------------------------------------------------------------------------
(* The pool as a map *)

\* An id of the index leads to an engaged slot that holds it.
LEMMA IndexFacts ==
  ASSUME PoolInv
  PROVE  /\ \A k \in DOMAIN idToIndices :
              /\ idToIndices[k] \in EngagedSlots /\ storage[idToIndices[k]].id = k
              /\ FindByEntityID(k) = storage[idToIndices[k]]
         /\ nextId \notin DOMAIN idToIndices
PROOF
<1>1. ASSUME NEW k \in DOMAIN idToIndices
      PROVE  idToIndices[k] \in EngagedSlots /\ storage[idToIndices[k]].id = k
  <2>1. PICK i \in EngagedSlots : k = storage[i].id
    BY DEF PoolInv, IndexAgreesWithStorage
  <2>2. idToIndices[k] = i
    BY <2>1 DEF PoolInv, IndexAgreesWithStorage
  <2> QED BY <2>1, <2>2
<1>2. nextId \notin DOMAIN idToIndices
  BY DEF PoolInv, TypeOK
<1> QED BY <1>1, <1>2 DEF FindByEntityID

\* acquire() in either branch puts the new entity where nothing was.
LEMMA AcquirePuts ==
  ASSUME PoolInv, NEW t \in EntityType, AcquireReuse(t) \/ AcquireGrow(t)
  PROVE  \E slot : /\ idToIndices' = IndexWith(nextId, slot) /\ nextId' = nextId + 1
                   /\ storage'[slot] = FreshEntity(t)
                   /\ \A i \in EngagedSlots : storage'[i] = storage[i]
PROOF
<1>1. CASE AcquireReuse(t)
  <2> DEFINE slot == freeIndices[Len(freeIndices)]
  <2>1. slot \in Slots /\ ~Engaged(slot)
    BY <1>1 DEF AcquireReuse, PoolInv, TypeOK, FreeListBijection
  <2>2. storage' = [storage EXCEPT ![slot] = FreshEntity(t)] /\ idToIndices' = IndexWith(nextId, slot)
        /\ nextId' = nextId + 1
    BY <1>1 DEF AcquireReuse
  <2> HIDE DEF slot
  <2>3. storage'[slot] = FreshEntity(t) /\ \A i \in EngagedSlots : storage'[i] = storage[i]
    BY <2>1, <2>2 DEF PoolInv, TypeOK, Slots, EngagedSlots
  <2> QED BY <2>2, <2>3
<1>2. CASE AcquireGrow(t)
  <2>1. storage' = Append(storage, FreshEntity(t)) /\ idToIndices' = IndexWith(nextId, Len(storage) + 1)
        /\ nextId' = nextId + 1
    BY <1>2 DEF AcquireGrow
  <2>2. FreshEntity(t) \in Entity
    BY FreshEntityType DEF PoolInv, TypeOK
  <2>3. storage'[Len(storage) + 1] = FreshEntity(t) /\ \A i \in Slots : storage'[i] = storage[i]
    BY <2>1, <2>2 DEF PoolInv, TypeOK, Slots
  <2> QED BY <2>1, <2>3 DEF EngagedSlots
<1> QED BY <1>1, <1>2

\* Every step of the pool is a step of the map or leaves it as it is.
LEMMA StepOfMap ==
  ASSUME PoolInv, [Next]_poolVars
  PROVE  [Map!MapNext]_(Map!mapVars)
PROOF
<1> DEFINE D == DOMAIN idToIndices
<1>0. DOMAIN Entities = D /\ \A k \in D : Entities[k] = storage[idToIndices[k]]
  BY IndexFacts DEF Entities
<1>1. Entities' = [k \in DOMAIN idToIndices' |-> storage'[idToIndices'[k]]]
  BY DEF Entities, FindByEntityID
<1>2. ASSUME NEW t \in EntityType, Acquire(t)
      PROVE  Map!Create(t)
  <2>1. nextId <= MaxId
    BY <1>2 DEF Acquire
  <2>2. PICK slot : /\ idToIndices' = IndexWith(nextId, slot) /\ nextId' = nextId + 1
                    /\ storage'[slot] = FreshEntity(t)
                    /\ \A i \in EngagedSlots : storage'[i] = storage[i]
    BY <1>2, AcquirePuts DEF Acquire
  <2>3. /\ DOMAIN idToIndices' = D \cup {nextId} /\ idToIndices'[nextId] = slot
        /\ \A k \in D : k # nextId /\ idToIndices'[k] = idToIndices[k]
    BY <2>2, IndexFacts DEF IndexWith
  <2>4. \A k \in D \cup {nextId} :
          storage'[idToIndices'[k]] = IF k = nextId THEN FreshEntity(t) ELSE Entities[k]
    BY <1>0, <2>2, <2>3, IndexFacts
  <2>5. Entities' = [k \in DOMAIN Entities \cup {nextId} |->
                       IF k = nextId THEN FreshEntity(t) ELSE Entities[k]]
    BY <1>0, <1>1, <2>3, <2>4
  <2> QED BY <2>1, <2>2, <2>5 DEF Map!Create, FreshEntity
<1>3. ASSUME NEW S \in SUBSET EngagedSlots, MarkDestroyed(S)
      PROVE  \E ids \in SUBSET DOMAIN Entities : Map!Flag(ids)
  <2> DEFINE ids == {k \in D : idToIndices[k] \in S}
  <2>1. /\ storage' = [i \in Slots |-> IF i \in S THEN [storage[i] EXCEPT !.isDestroyed = TRUE]
                                                    ELSE storage[i]]
        /\ idToIndices' = idToIndices /\ nextId' = nextId
    BY <1>3 DEF MarkDestroyed
  <2>2. \A k \in D : idToIndices[k] \in Slots
    BY IndexFacts DEF EngagedSlots
  <2>3. \A k \in D : storage'[idToIndices[k]] = IF k \in ids THEN [Entities[k] EXCEPT !.isDestroyed = TRUE]
                                                             ELSE Entities[k]
    BY <1>0, <2>1, <2>2
  <2>4. Entities' = [k \in DOMAIN Entities |-> IF k \in ids THEN [Entities[k] EXCEPT !.isDestroyed = TRUE]
                                                              ELSE Entities[k]]
    <3> HIDE DEF ids
    <3> QED BY <1>0, <1>1, <2>1, <2>3
  <2>5. ids \in SUBSET DOMAIN Entities
    BY <1>0
  <2> HIDE DEF ids
  <2> QED BY <2>1, <2>4, <2>5 DEF Map!Flag
<1>4. ASSUME RecycleDestroyed
      PROVE  Map!Forget
  <2>1. /\ storage' = [i \in Slots |-> IF i \in DestroyedSlots THEN Nullopt ELSE storage[i]]
        /\ idToIndices' = [k \in D \ {storage[i].id : i \in DestroyedSlots} |-> idToIndices[k]]
        /\ nextId' = nextId
    BY <1>4 DEF RecycleDestroyed, IndexWithout
  <2> DEFINE kept == {id \in D : ~Entities[id].isDestroyed}
  <2>2. ASSUME NEW k \in D
        PROVE  k \in {storage[i].id : i \in DestroyedSlots} <=> Entities[k].isDestroyed
    <3>1. idToIndices[k] \in EngagedSlots /\ storage[idToIndices[k]].id = k
      BY IndexFacts
    <3>2. Entities[k].isDestroyed <=> idToIndices[k] \in DestroyedSlots
      BY <1>0, <3>1 DEF DestroyedSlots, EngagedSlots
    <3>3. \A i \in DestroyedSlots : storage[i].id = k => i = idToIndices[k]
      BY <3>1 DEF PoolInv, IdsUnique, DestroyedSlots, EngagedSlots
    <3> QED BY <3>1, <3>2, <3>3
  <2>3. DOMAIN idToIndices' = kept
    BY <2>1, <2>2
  <2>4. ASSUME NEW k \in kept
        PROVE  storage'[idToIndices'[k]] = Entities[k]
    <3>1. idToIndices'[k] = idToIndices[k] /\ idToIndices[k] \in Slots /\ k \in D
      BY <2>1, <2>3, IndexFacts DEF EngagedSlots
    <3>2. idToIndices[k] \notin DestroyedSlots
      BY <1>0, <3>1 DEF DestroyedSlots
    <3> QED BY <1>0, <2>1, <3>1, <3>2
  <2> HIDE DEF kept
  <2>5. Entities' = [k \in kept |-> Entities[k]]
    BY <1>1, <2>3, <2>4
  <2> QED BY <1>0, <2>1, <2>5 DEF Map!Forget, kept
<1>5. ASSUME UNCHANGED poolVars
      PROVE  UNCHANGED Map!mapVars
  BY <1>5 DEF poolVars, Map!mapVars, Entities, FindByEntityID
<1> QED BY <1>2, <1>3, <1>4, <1>5 DEF Next, Map!MapNext

\* To those who keep ids, EntityPool is a map: reused slots, the free list and the
\* index of entity_pool.h cannot be told from findByEntityID().
THEOREM PoolIsMap == Spec => ImplementsMap
PROOF
<1>1. Init => Map!MapInit
  BY DEF Init, Map!MapInit, Entities
<1> QED BY <1>1, StepOfMap, PoolInvariant, PTL DEF Spec, ImplementsMap, Map!MapSpec

=============================================================================
