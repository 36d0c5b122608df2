----------------------------- MODULE EntityPool -----------------------------
(***************************************************************************)
(* domain::EntityPool (src/src/server/entity_pool.h): a pool of entity     *)
(* slots with a LIFO free list and a hash index from ids to slots.         *)
(*                                                                         *)
(* The pool is used by one thread at a time (the tick strand), so every    *)
(* method is one atomic action.  Slot i of the code (0-based) is slot i+1  *)
(* here.  An entity is reduced to what the pool itself reads and writes:   *)
(* its id, its type tag and its isDestroyed flag.  Every caller of         *)
(* acquire() sets the tag in its next statement, so both are one action.   *)
(***************************************************************************)
EXTENDS Naturals, Sequences, FiniteSets

CONSTANTS EntityType,  \* type tags other than EntityType::None
          Nullopt,     \* a disengaged slot, and the result of a failed lookup
          MaxId        \* bound: ids are handed out up to MaxId (code: uint64)

ASSUME MaxIdAssumption == MaxId \in Nat

Entity == [id : Nat, type : EntityType, isDestroyed : BOOLEAN]

\* std::nullopt is not a value of Entity.
ASSUME NulloptAssumption == Nullopt \notin Entity

VARIABLES storage,      \* storage_: sequence of slots
          freeIndices,  \* free_indices_: stack of disengaged slots, top last
          idToIndices,  \* id_to_indices_: function from ids to slots
          nextId        \* next_id_

poolVars == <<storage, freeIndices, idToIndices, nextId>>

Slots == 1 .. Len(storage)

Engaged(i) == storage[i] # Nullopt

EngagedSlots == {i \in Slots : Engaged(i)}

\* Mutant: the flag is not looked at.
EveryEngagedSlot == {i \in Slots : Engaged(i)}

\* The slots recycleDestroyed() frees.
DestroyedSlots == {i \in Slots : Engaged(i) /\ storage[i].isDestroyed}

\* isActive(slot): engaged and not flagged.
IsActive(i) == Engaged(i) /\ ~storage[i].isDestroyed

\* Mutant: the free slots are counted too.
ActiveCountSize == Len(storage)

\* activeCount()
ActiveCount == Len(storage) - Len(freeIndices)

\* Mutant: ids are taken for slot numbers.
FindBySlot(id) == IF id \in Slots THEN storage[id] ELSE Nullopt

\* findByEntityID(id): the entity, or Nullopt for a null pointer.
FindByEntityID(id) ==
  IF id \in DOMAIN idToIndices THEN storage[idToIndices[id]] ELSE Nullopt

-----------------------------------------------------------------------------

\* A value-initialized entity with the next id, tagged by the caller.
FreshEntity(t) == [id |-> nextId, type |-> t, isDestroyed |-> FALSE]

\* id_to_indices_[id] = slot
IndexWith(id, slot) ==
  [k \in DOMAIN idToIndices \cup {id} |-> IF k = id THEN slot ELSE idToIndices[k]]

\* vector::pop_back()
PopBack(s) == SubSeq(s, 1, Len(s) - 1)

Init ==
  /\ storage = << >>
  /\ freeIndices = << >>
  /\ idToIndices = [k \in {} |-> 0]
  /\ nextId = 1

\* Mutant: the recycled slot is not taken off the free list.
AcquireReuseNoPop(t) ==
  /\ freeIndices # << >>
  /\ LET slot == freeIndices[Len(freeIndices)]
     IN  /\ storage' = [storage EXCEPT ![slot] = FreshEntity(t)]
         /\ freeIndices' = freeIndices
         /\ idToIndices' = IndexWith(nextId, slot)
  /\ nextId' = nextId + 1

\* acquire() when the free list is not empty: the slot freed last is reused.
AcquireReuse(t) ==
  /\ freeIndices # << >>
  /\ LET slot == freeIndices[Len(freeIndices)]
     IN  /\ storage' = [storage EXCEPT ![slot] = FreshEntity(t)]
         /\ freeIndices' = PopBack(freeIndices)
         /\ idToIndices' = IndexWith(nextId, slot)
  /\ nextId' = nextId + 1

\* acquire() when the free list is empty: the storage grows by one slot.
AcquireGrow(t) ==
  /\ freeIndices = << >>
  /\ storage' = Append(storage, FreshEntity(t))
  /\ idToIndices' = IndexWith(nextId, Len(storage) + 1)
  /\ nextId' = nextId + 1
  /\ UNCHANGED freeIndices

Acquire(t) ==
  /\ nextId <= MaxId
  /\ AcquireReuse(t) \/ AcquireGrow(t)

\* Systems flag entities: entity.isDestroyed = true for the slots in S.
MarkDestroyed(S) ==
  /\ storage' = [i \in Slots |-> IF i \in S THEN [storage[i] EXCEPT !.isDestroyed = TRUE]
                                             ELSE storage[i]]
  /\ UNCHANGED <<freeIndices, idToIndices, nextId>>

\* s lists the set S of slots in ascending order, each once: the order in
\* which the loop of recycleDestroyed() visits them.
Enumerates(s, S) ==
  /\ \A j, k \in DOMAIN s : j < k => s[j] < s[k]
  /\ \A i \in S : \E k \in DOMAIN s : s[k] = i

\* id_to_indices_.erase(slot->id) for every freed slot.
IndexWithout(S) ==
  [k \in DOMAIN idToIndices \ {storage[i].id : i \in S} |-> idToIndices[k]]

\* recycleDestroyed(): the whole loop.
RecycleDestroyed ==
  /\ \E freed \in [1 .. Cardinality(DestroyedSlots) -> DestroyedSlots] :
       /\ Enumerates(freed, DestroyedSlots)
       /\ freeIndices' = freeIndices \o freed
  /\ idToIndices' = IndexWithout(DestroyedSlots)
  /\ storage' = [i \in Slots |-> IF i \in DestroyedSlots THEN Nullopt ELSE storage[i]]
  /\ UNCHANGED nextId

Next ==
  \/ \E t \in EntityType : Acquire(t)
  \/ \E S \in SUBSET EngagedSlots : MarkDestroyed(S)
  \/ RecycleDestroyed

Spec == Init /\ [][Next]_poolVars

-----------------------------------------------------------------------------
(* Properties *)

\* Type invariant: slots hold entities or nothing, the free list and the index
\* hold slot numbers, and next_id_ starts at 1.
TypeOK ==
  /\ storage \in Seq(Entity \cup {Nullopt})
  /\ freeIndices \in Seq(Slots)
  /\ DOMAIN idToIndices \subseteq 1 .. (nextId - 1)
  /\ idToIndices \in [DOMAIN idToIndices -> Slots]
  /\ nextId \in Nat \ {0}

\* The class invariant of entity_pool.h: free_indices_ and the disengaged slots
\* are in bijection.  No live slot can be handed out again, no slot is listed
\* twice and no freed slot is lost, whatever the order of acquire(), flagging
\* and recycling.
FreeListBijection ==
  /\ \A k \in DOMAIN freeIndices : ~Engaged(freeIndices[k])
  /\ \A j, k \in DOMAIN freeIndices : freeIndices[j] = freeIndices[k] => j = k
  /\ \A i \in Slots : ~Engaged(i) => \E k \in DOMAIN freeIndices : freeIndices[k] = i

\* Every engaged slot holds an id below next_id_, and no two slots the same.
IdsUnique ==
  /\ \A i \in EngagedSlots : storage[i].id \in 1 .. (nextId - 1)
  /\ \A i, j \in EngagedSlots : storage[i].id = storage[j].id => i = j

\* id_to_indices_ agrees with storage_: it has exactly the ids of the engaged
\* slots and leads each to its slot, so findByEntityID() finds every entity that
\* is still in the pool and never returns the new tenant of a reused slot.
IndexAgreesWithStorage ==
  /\ DOMAIN idToIndices = {storage[i].id : i \in EngagedSlots}
  /\ \A i \in EngagedSlots : idToIndices[storage[i].id] = i

\* The class invariant as a whole: storage_, free_indices_ and id_to_indices_ are
\* three records of the same facts.  None of the parts is inductive without the
\* others, since acquire() trusts the free list and recycleDestroyed() trusts the
\* ids stored in the slots.
PoolInv ==
  /\ TypeOK
  /\ FreeListBijection
  /\ IdsUnique
  /\ IndexAgreesWithStorage

\* activeCount() is the number of engaged slots, although it is computed from
\* the sizes of storage_ and free_indices_ only.
ActiveCountExact == ActiveCount = Cardinality(EngagedSlots)

\* An id kept outside the pool (a session's ship, a bullet's owner) that no
\* longer resolves never resolves again, even after its slot has been reused.
StaleIdNeverResolves ==
  [][\A id \in 1 .. (nextId - 1) :
       FindByEntityID(id) = Nullopt => FindByEntityID(id)' = Nullopt]_poolVars

\* What can be found by id.
Entities == [id \in DOMAIN idToIndices |-> FindByEntityID(id)]

Map == INSTANCE EntityMap WITH entities <- Entities

\* To those who keep ids the pool is a map from ids to entities: whatever slots
\* acquire() reuses and recycleDestroyed() frees, an id leads to its own entity
\* until that was flagged and recycled, and the other entities never change.
ImplementsMap == Map!MapSpec

=============================================================================
