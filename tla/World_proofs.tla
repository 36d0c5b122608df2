---------------------------- MODULE World_proofs ----------------------------
(***************************************************************************)
(* Proofs about World, for any number of sessions, actions, asteroids and  *)
(* headings.  What EntityPool_proofs proves of the pool by itself is       *)
(* instantiated for the pool of the world.                                 *)
(***************************************************************************)
EXTENDS World, TLAPS

PoolProofs == INSTANCE EntityPool_proofs WITH EntityType <- EntityTypes

-----------------------------------------------------------------------------
(* The pool in the world *)

\* The constants satisfy what EntityPool assumes of its own.
LEMMA PoolConstants == MaxId \in Nat /\ Nullopt \notin PoolProofs!Entity
  BY WorldAssumption, WorldNulloptAssumption DEF MaxId, PoolProofs!Entity, Pool!Entity

\* Both instances of EntityPool have the same operations, ...
LEMMA SamePoolNext == [Pool!Next]_(Pool!poolVars) <=> [PoolProofs!Next]_(PoolProofs!poolVars)
PROOF
<1> USE DEF Pool!Slots, PoolProofs!Slots, Pool!Engaged, PoolProofs!Engaged
<1>1. ASSUME NEW t
      PROVE  Pool!Acquire(t) <=> PoolProofs!Acquire(t)
  BY Zenon DEF Pool!Acquire, PoolProofs!Acquire, Pool!AcquireReuse, PoolProofs!AcquireReuse,
     Pool!AcquireGrow, PoolProofs!AcquireGrow, Pool!FreshEntity, PoolProofs!FreshEntity,
     Pool!IndexWith, PoolProofs!IndexWith, Pool!PopBack, PoolProofs!PopBack
<1>2. ASSUME NEW S
      PROVE  Pool!MarkDestroyed(S) <=> PoolProofs!MarkDestroyed(S)
  BY Zenon DEF Pool!MarkDestroyed, PoolProofs!MarkDestroyed
<1>3. Pool!DestroyedSlots = PoolProofs!DestroyedSlots
  BY Zenon DEF Pool!DestroyedSlots, PoolProofs!DestroyedSlots
<1>4. Pool!RecycleDestroyed <=> PoolProofs!RecycleDestroyed
  BY <1>3, Zenon DEF Pool!RecycleDestroyed, PoolProofs!RecycleDestroyed, Pool!Enumerates,
     PoolProofs!Enumerates, Pool!IndexWithout, PoolProofs!IndexWithout,
     Pool!Cardinality, PoolProofs!Cardinality
<1>5. Pool!EngagedSlots = PoolProofs!EngagedSlots
  BY Zenon DEF Pool!EngagedSlots, PoolProofs!EngagedSlots
<1>6. Pool!Next <=> PoolProofs!Next
  BY <1>1, <1>2, <1>4, <1>5, Zenon DEF Pool!Next, PoolProofs!Next
<1> QED BY <1>6, Zenon DEF Pool!poolVars, PoolProofs!poolVars

\* ... and the same class invariant, ...
LEMMA SamePoolInv ==
  (Pool!PoolInv <=> PoolProofs!PoolInv) /\ (Pool!PoolInv' <=> PoolProofs!PoolInv')
  BY Zenon DEF Pool!PoolInv, PoolProofs!PoolInv, Pool!TypeOK, PoolProofs!TypeOK,
     Pool!FreeListBijection, PoolProofs!FreeListBijection, Pool!IdsUnique, PoolProofs!IdsUnique,
     Pool!IndexAgreesWithStorage, PoolProofs!IndexAgreesWithStorage, Pool!Slots, PoolProofs!Slots,
     Pool!EngagedSlots, PoolProofs!EngagedSlots, Pool!Engaged, PoolProofs!Engaged,
     Pool!Entity, PoolProofs!Entity

\* ... so the proof that the operations keep it carries over.
LEMMA PoolInvKept == Pool!PoolInv /\ [Pool!Next]_(Pool!poolVars) => Pool!PoolInv'
  BY SamePoolNext, SamePoolInv, PoolProofs!NextKeepsPoolInv, PoolConstants, Zenon

\* The pool of a new world is empty.
LEMMA PoolInvInit == Pool!Init => Pool!PoolInv
  BY SamePoolInv, PoolProofs!InitPoolInv, PoolConstants, Zenon DEF Pool!Init, PoolProofs!Init

-----------------------------------------------------------------------------
(* The inductive invariant *)

\* The pool's answer to a lookup.
Find(id) == Pool!FindByEntityID(id)

Flagged(id) == Find(id) # Nullopt /\ Find(id).isDestroyed

\* A ship that a session is bound to is flagged only while collisions are
\* resolved, or in what a tick that threw has left behind.
BoundAlive ==
  stage \in {"asteroids", "spawn"} \/ (stage # "collide" /\ faults = 0)
    => \A s \in DOMAIN sessionToShip : ~Flagged(sessionToShip[s])

\* The server's last word to a session says whether it has a ship.
FateTells == \A s \in Sessions : fate[s] = "playing" <=> s \in DOMAIN sessionToShip

\* The part of the invariant that is about session_to_ship_.
BindInv == BindingsResolve /\ BoundAlive /\ FateTells

\* The drained actions are there only while they are processed.
BatchInInput == stage # "input" => batch = << >>

\* x is at most once in seq.
AtMostOnce(x, seq) == \A j, k \in DOMAIN seq : seq[j] = x /\ seq[k] = x => j = k

\* As long as nothing went wrong, the JOIN of a session is in one place of the
\* pipeline of queue, drained actions and new players, and only of a session that
\* is connected and has no ship yet.
OneJoin(s) ==
  /\ JoinPending(s) => s \in joined /\ s \notin DOMAIN sessionToShip /\ ~Gone(s)
  /\ AtMostOnce(Join(s), actionQueue) /\ AtMostOnce(Join(s), batch) /\ AtMostOnce(s, newPlayers)
  /\ IsIn(Join(s), actionQueue) => ~IsIn(Join(s), batch) /\ ~IsIn(s, newPlayers)
  /\ IsIn(Join(s), batch) => ~IsIn(s, newPlayers)
  /\ s \in DOMAIN sessionToShip => s \in joined

\* A session that has left has no ship, or its PlayerQuit is on its way.
QuitOnItsWay(s) ==
  Gone(s) => \/ s \notin DOMAIN sessionToShip
             \/ IsIn(Quit(s), actionQueue) \/ IsIn(Quit(s), batch)

Pipe(s) == OneJoin(s) /\ QuitOnItsWay(s)

\* A ship that is not flagged has a session.
ShipHasSession(id) ==
  Find(id) # Nullopt /\ Find(id).type = "Ship" /\ ~Find(id).isDestroyed
    => \E s \in DOMAIN sessionToShip : sessionToShip[s] = id

Orderly ==
  faults = 0 => /\ \A s \in Sessions : Pipe(s)
                /\ \A id \in 1 .. (nextId - 1) : ShipHasSession(id)

WorldInv ==
  /\ TypeOK /\ Pool!PoolInv /\ BindInv
  /\ BatchInInput /\ Orderly

-----------------------------------------------------------------------------
(* What the operations of the pool do to lookups *)

\* A lookup is exact: what it finds has the id that was asked for, and every
\* entity of the pool is found.
LEMMA FindFacts ==
  ASSUME Pool!PoolInv
  PROVE  /\ \A id : Find(id) # Nullopt =>
              /\ id \in DOMAIN idToIndices /\ id \in 1 .. (nextId - 1)
              /\ SlotOf(id) \in Pool!EngagedSlots /\ storage[SlotOf(id)] = Find(id)
              /\ Find(id) \in Pool!Entity /\ Find(id).id = id
         /\ \A i \in Pool!EngagedSlots :
              Find(storage[i].id) = storage[i] /\ SlotOf(storage[i].id) = i
PROOF
<1> USE DEF Pool!PoolInv, Pool!TypeOK, Pool!IdsUnique, Pool!IndexAgreesWithStorage, Pool!EngagedSlots,
            Pool!Engaged, Pool!FindByEntityID, Find, SlotOf
<1>1. ASSUME NEW i \in Pool!EngagedSlots
      PROVE  Find(storage[i].id) = storage[i] /\ SlotOf(storage[i].id) = i
  BY <1>1
<1>2. ASSUME NEW id, Find(id) # Nullopt
      PROVE  /\ id \in DOMAIN idToIndices /\ id \in 1 .. (nextId - 1)
             /\ SlotOf(id) \in Pool!EngagedSlots /\ storage[SlotOf(id)] = Find(id)
             /\ Find(id) \in Pool!Entity /\ Find(id).id = id
  <2>1. id \in DOMAIN idToIndices /\ storage[idToIndices[id]] # Nullopt
    BY <1>2
  <2>2. PICK i \in Pool!EngagedSlots : id = storage[i].id
    BY <2>1
  <2>3. idToIndices[id] = i
    BY <2>2
  <2>4. storage[i] \in Pool!Entity
    BY <2>2 DEF Pool!Slots
  <2> QED BY <2>1, <2>2, <2>3, <2>4
<1> QED BY <1>1, <1>2

\* acquire() makes one more id resolve and changes no other lookup.
LEMMA AcquireFinds ==
  ASSUME Pool!PoolInv, NEW t \in EntityTypes, Pool!Acquire(t)
  PROVE  /\ nextId \in 1 .. MaxId /\ nextId' = nextId + 1
         /\ Find(nextId) = Nullopt
         /\ \A id : Find(id)' = IF id = nextId THEN Pool!FreshEntity(t) ELSE Find(id)
         /\ Pool!FreshEntity(t) # Nullopt
PROOF
<1>1. nextId \in Nat \ {0} /\ nextId' = nextId + 1 /\ nextId <= MaxId
  BY DEF Pool!PoolInv, Pool!TypeOK, Pool!Acquire, Pool!AcquireReuse, Pool!AcquireGrow
<1>2. nextId \notin DOMAIN idToIndices
  BY <1>1 DEF Pool!PoolInv, Pool!TypeOK
<1>3. Pool!FreshEntity(t) \in Pool!Entity
  BY <1>1 DEF Pool!FreshEntity, Pool!Entity
<1>4. PICK slot : /\ slot \notin Pool!EngagedSlots
                  /\ idToIndices' = Pool!IndexWith(nextId, slot)
                  /\ storage'[slot] = Pool!FreshEntity(t)
                  /\ \A i \in Pool!Slots : i # slot => storage'[i] = storage[i]
  <2>1. CASE Pool!AcquireReuse(t)
    <3> DEFINE sl == freeIndices[Len(freeIndices)]
    <3>1. sl \in Pool!Slots /\ ~Pool!Engaged(sl)
      BY <2>1 DEF Pool!AcquireReuse, Pool!PoolInv, Pool!TypeOK, Pool!FreeListBijection
    <3>2. storage' = [storage EXCEPT ![sl] = Pool!FreshEntity(t)] /\ idToIndices' = Pool!IndexWith(nextId, sl)
      BY <2>1 DEF Pool!AcquireReuse
    <3>3. DOMAIN storage = Pool!Slots
      BY DEF Pool!PoolInv, Pool!TypeOK, Pool!Slots
    <3> QED BY <3>1, <3>2, <3>3 DEF Pool!EngagedSlots
  <2>2. CASE Pool!AcquireGrow(t)
    <3> DEFINE sl == Len(storage) + 1
    <3>1. sl \notin Pool!Slots
      BY DEF Pool!PoolInv, Pool!TypeOK, Pool!Slots
    <3>2. storage' = Append(storage, Pool!FreshEntity(t)) /\ idToIndices' = Pool!IndexWith(nextId, sl)
      BY <2>2 DEF Pool!AcquireGrow
    <3>3. storage'[sl] = Pool!FreshEntity(t) /\ \A i \in Pool!Slots : storage'[i] = storage[i]
      BY <3>2, <1>3 DEF Pool!PoolInv, Pool!TypeOK, Pool!Slots
    <3> QED BY <3>1, <3>2, <3>3 DEF Pool!EngagedSlots
  <2> QED BY <2>1, <2>2 DEF Pool!Acquire
<1>5. Find(nextId) = Nullopt
  BY <1>2 DEF Find, Pool!FindByEntityID
<1>6. ASSUME NEW id, id = nextId
      PROVE  Find(id)' = Pool!FreshEntity(t)
  BY <1>4, <1>6 DEF Find, Pool!FindByEntityID, Pool!IndexWith
<1>7. ASSUME NEW id, id # nextId
      PROVE  Find(id)' = Find(id)
  <2>1. CASE id \in DOMAIN idToIndices
    <3>1. idToIndices[id] \in Pool!EngagedSlots
      BY <2>1 DEF Pool!PoolInv, Pool!IndexAgreesWithStorage
    <3>2. idToIndices'[id] = idToIndices[id] /\ id \in DOMAIN idToIndices'
      BY <2>1, <1>4, <1>7 DEF Pool!IndexWith
    <3> QED BY <2>1, <3>1, <3>2, <1>4 DEF Find, Pool!FindByEntityID, Pool!EngagedSlots
  <2>2. CASE id \notin DOMAIN idToIndices
    BY <2>2, <1>4, <1>7 DEF Find, Pool!FindByEntityID, Pool!IndexWith
  <2> QED BY <2>1, <2>2
<1>8. nextId \in 1 .. MaxId
  BY <1>1, PoolConstants
<1>9. Pool!FreshEntity(t) # Nullopt
  BY <1>3, WorldNulloptAssumption
<1> QED BY <1>1, <1>5, <1>6, <1>7, <1>8, <1>9

\* Flagging changes the flag of the entities that were flagged, and nothing else.
LEMMA MarkFinds ==
  ASSUME Pool!PoolInv, NEW S \in SUBSET Pool!EngagedSlots, Pool!MarkDestroyed(S)
  PROVE  /\ nextId' = nextId
         /\ \A id : Find(id) = Nullopt => Find(id)' = Nullopt
         /\ \A id : Find(id) # Nullopt =>
              /\ Find(id)' # Nullopt
              /\ Find(id)'.id = Find(id).id /\ Find(id)'.type = Find(id).type
              /\ Find(id)'.isDestroyed <=> Find(id).isDestroyed \/ SlotOf(id) \in S
PROOF
<1>1. nextId' = nextId /\ idToIndices' = idToIndices
  BY DEF Pool!MarkDestroyed
<1>2. \A i \in Pool!Slots :
        storage'[i] = IF i \in S THEN [storage[i] EXCEPT !.isDestroyed = TRUE] ELSE storage[i]
  BY DEF Pool!MarkDestroyed
<1>3. ASSUME NEW id, Find(id) = Nullopt
      PROVE  Find(id)' = Nullopt
  <2>1. id \notin DOMAIN idToIndices
    BY <1>3 DEF Pool!PoolInv, Pool!IndexAgreesWithStorage, Find, Pool!FindByEntityID, Pool!EngagedSlots, Pool!Engaged
  <2> QED BY <2>1, <1>1 DEF Find, Pool!FindByEntityID
<1>4. ASSUME NEW id, Find(id) # Nullopt
      PROVE  /\ Find(id)' # Nullopt
             /\ Find(id)'.id = Find(id).id /\ Find(id)'.type = Find(id).type
             /\ Find(id)'.isDestroyed <=> Find(id).isDestroyed \/ SlotOf(id) \in S
  <2> DEFINE i == SlotOf(id)
  <2>1. /\ id \in DOMAIN idToIndices /\ i \in Pool!EngagedSlots
        /\ storage[i] = Find(id) /\ Find(id) \in Pool!Entity
    BY <1>4, FindFacts
  <2>2. Find(id)' = storage'[i]
    BY <2>1, <1>1 DEF Find, Pool!FindByEntityID, SlotOf
  <2>3. storage'[i] = IF i \in S THEN [Find(id) EXCEPT !.isDestroyed = TRUE] ELSE Find(id)
    BY <2>1, <1>2 DEF Pool!EngagedSlots
  <2>4. storage'[i] \in Pool!Entity
    BY <2>1, <2>3 DEF Pool!Entity
  <2>5. storage'[i] # Nullopt
    BY <2>4, WorldNulloptAssumption
  <2> QED BY <2>1, <2>2, <2>3, <2>5 DEF Pool!Entity
<1> QED BY <1>1, <1>3, <1>4

\* recycleDestroyed() takes away exactly the flagged entities.
LEMMA RecycleFinds ==
  ASSUME Pool!PoolInv, Pool!RecycleDestroyed
  PROVE  /\ nextId' = nextId
         /\ \A id : Find(id)' = IF Flagged(id) THEN Nullopt ELSE Find(id)
PROOF
<1>1. /\ nextId' = nextId /\ idToIndices' = Pool!IndexWithout(Pool!DestroyedSlots)
      /\ storage' = [i \in Pool!Slots |-> IF i \in Pool!DestroyedSlots THEN Nullopt ELSE storage[i]]
  BY DEF Pool!RecycleDestroyed
<1>2. ASSUME NEW id, Find(id) # Nullopt
      PROVE  Find(id)' = IF Flagged(id) THEN Nullopt ELSE Find(id)
  <2> DEFINE i == SlotOf(id)
  <2>1. /\ id \in DOMAIN idToIndices /\ i \in Pool!EngagedSlots /\ i \in Pool!Slots
        /\ storage[i] = Find(id) /\ Find(id).id = id
    BY <1>2, FindFacts DEF Pool!EngagedSlots
  <2>2. CASE Flagged(id)
    <3>1. i \in Pool!DestroyedSlots
      BY <1>2, <2>1, <2>2 DEF Flagged, Pool!DestroyedSlots, Pool!EngagedSlots
    <3>2. id \notin DOMAIN idToIndices'
      BY <1>1, <2>1, <3>1 DEF Pool!IndexWithout
    <3> QED BY <2>2, <3>2 DEF Find, Pool!FindByEntityID
  <2>3. CASE ~Flagged(id)
    <3>1. i \notin Pool!DestroyedSlots
      BY <1>2, <2>1, <2>3 DEF Flagged, Pool!DestroyedSlots
    <3>2. \A k \in Pool!DestroyedSlots : storage[k].id # id
      BY <2>1, <3>1 DEF Pool!DestroyedSlots, Pool!EngagedSlots, Pool!PoolInv, Pool!IdsUnique
    <3>3. id \in DOMAIN idToIndices' /\ idToIndices'[id] = i
      BY <1>1, <2>1, <3>2 DEF Pool!IndexWithout, SlotOf
    <3>4. storage'[i] = storage[i]
      BY <1>1, <2>1, <3>1
    <3> QED BY <2>1, <2>3, <3>3, <3>4 DEF Find, Pool!FindByEntityID
  <2> QED BY <2>2, <2>3
<1>3. ASSUME NEW id, Find(id) = Nullopt
      PROVE  Find(id)' = IF Flagged(id) THEN Nullopt ELSE Find(id)
  <2>1. id \notin DOMAIN idToIndices
    BY <1>3 DEF Pool!PoolInv, Pool!IndexAgreesWithStorage, Find, Pool!FindByEntityID, Pool!EngagedSlots, Pool!Engaged
  <2>2. id \notin DOMAIN idToIndices'
    BY <1>1, <2>1 DEF Pool!IndexWithout
  <2> QED BY <1>3, <2>2 DEF Find, Pool!FindByEntityID
<1> QED BY <1>1, <1>2, <1>3

-----------------------------------------------------------------------------
(* The world uses the pool through its operations *)

\* A collision flags at most the two that collide.
LEMMA OutcomeOfPair ==
  ASSUME NEW i, NEW j, NEW D \in CollisionOutcomes(i, j)
  PROVE  D \subseteq {i, j}
PROOF
<1>1. ShipShip(i, j) \subseteq SUBSET {i, j}
  BY DEF ShipShip
<1>2. ShipAsteroid(i, j) \subseteq SUBSET {i, j} /\ ShipAsteroid(j, i) \subseteq SUBSET {i, j}
  BY DEF ShipAsteroid, Absorbs
<1>3. BulletShip(i, j) \subseteq SUBSET {i, j} /\ BulletShip(j, i) \subseteq SUBSET {i, j}
  BY DEF BulletShip
<1>4. D \in ShipShip(i, j) \cup ShipAsteroid(i, j) \cup ShipAsteroid(j, i) \cup BulletShip(i, j)
              \cup BulletShip(j, i) \cup {{}}
  BY DEF CollisionOutcomes
<1> QED BY <1>1, <1>2, <1>3, <1>4

\* What each step of the world does to the pool.
LEMMA PoolUse ==
  ASSUME Pool!PoolInv, Next
  PROVE  \/ UNCHANGED pool
         \/ \E t \in EntityTypes : Pool!Acquire(t)
         \/ \E S \in SUBSET Pool!EngagedSlots : Pool!MarkDestroyed(S)
         \/ Pool!RecycleDestroyed
PROOF
<1>1. ASSUME NEW s \in Sessions,
             \/ OnPlayerJoin(s) \/ OnShotReceived(s) \/ OnClientDisconnected(s)
             \/ \E a \in Angles : OnPlayerMove(s, a)
      PROVE  UNCHANGED pool
  BY <1>1, Zenon DEF OnPlayerJoin, OnShotReceived, OnClientDisconnected, OnPlayerMove, EnqueueAction
<1>2. ASSUME \/ DrainInput \/ ApplyJoin \/ ApplyQuitUnbound \/ AsteroidsDone \/ TickThrows \/ DropQueue
      PROVE  UNCHANGED pool
  BY <1>2, Zenon DEF DrainInput, ApplyJoin, ApplyQuitUnbound, AsteroidsDone, TickThrows, DropQueue
<1>3. ASSUME ApplyQuit
      PROVE  \/ UNCHANGED pool
             \/ \E S \in SUBSET Pool!EngagedSlots : Pool!MarkDestroyed(S)
  <2> DEFINE ship == sessionToShip[Head(batch).session]
  <2>1. CASE Pool!FindByEntityID(ship) # Nullopt
    <3>1. Pool!MarkDestroyed({SlotOf(ship)})
      BY <1>3, <2>1 DEF ApplyQuit
    <3>2. SlotOf(ship) \in Pool!EngagedSlots
      BY <2>1, FindFacts DEF Find
    <3> QED BY <3>1, <3>2
  <2>2. CASE Pool!FindByEntityID(ship) = Nullopt
    BY <1>3, <2>2 DEF ApplyQuit
  <2> QED BY <2>1, <2>2
<1>4. ASSUME ApplyMoveAndShoot
      PROVE  UNCHANGED pool \/ Pool!Acquire("Bullet")
  BY <1>4, Zenon DEF ApplyMoveAndShoot
<1>5. ASSUME UpdatePhysics
      PROVE  \E S \in SUBSET Pool!EngagedSlots : Pool!MarkDestroyed(S)
  <2>1. LiveSlots("Bullet") \subseteq Pool!EngagedSlots
    BY DEF LiveSlots, Pool!IsActive, Pool!EngagedSlots
  <2> QED BY <1>5, <2>1 DEF UpdatePhysics
<1>6. ASSUME NEW i \in Pool!Slots, NEW j \in Pool!Slots, Collide(i, j)
      PROVE  \E S \in SUBSET Pool!EngagedSlots : Pool!MarkDestroyed(S)
  <2>1. PICK D \in CollisionOutcomes(i, j) : Pool!MarkDestroyed(D)
    BY <1>6 DEF Collide
  <2>2. i \in Pool!EngagedSlots /\ j \in Pool!EngagedSlots
    BY <1>6 DEF Collide, Pool!IsActive, Pool!EngagedSlots
  <2> QED BY <2>1, <2>2, OutcomeOfPair
<1>7. ASSUME ReapDestroyedShips \/ BroadcastSnapshot
      PROVE  Pool!RecycleDestroyed
  BY <1>7, Zenon DEF ReapDestroyedShips, BroadcastSnapshot
<1>8. ASSUME AddAsteroid \/ SpawnShip
      PROVE  Pool!Acquire("Asteroid") \/ Pool!Acquire("Ship")
  BY <1>8, Zenon DEF AddAsteroid, SpawnShip
<1> QED BY <1>1, <1>2, <1>3, <1>4, <1>5, <1>6, <1>7, <1>8 DEF Next, Tick, EntityTypes

\* Every step of the world is a step of the pool, or none.
LEMMA StepIsPoolStep ==
  ASSUME Pool!PoolInv, [Next]_vars
  PROVE  [Pool!Next]_(Pool!poolVars)
  BY PoolUse, Zenon DEF Pool!Next, Pool!poolVars, pool, vars

\* The class invariant of entity_pool.h holds at every point of every tick.
THEOREM PoolInWorld == Spec => []Pool!PoolInv
PROOF
<1>1. Init => Pool!PoolInv
  BY PoolInvInit DEF Init
<1>2. Pool!PoolInv /\ [Next]_vars => Pool!PoolInv'
  BY StepIsPoolStep, PoolInvKept
<1> QED BY <1>1, <1>2, PTL DEF Spec

\* The world implements EntityPool: whatever sessions do, it only acquires,
\* flags entities that are in the pool and recycles.
THEOREM WorldImplementsPool == Spec => PoolSpec
PROOF
<1>1. Init => Pool!Init
  BY DEF Init
<1>2. Pool!PoolInv /\ [Next]_vars => [Pool!Next]_(Pool!poolVars)
  BY StepIsPoolStep
<1> QED BY <1>1, <1>2, PoolInWorld, PTL DEF Spec, PoolSpec, Pool!Spec

-----------------------------------------------------------------------------
(* Types *)

\* The event-bus callbacks enqueue actions.
LEMMA ActionTypes ==
  ASSUME NEW s \in Sessions, NEW a \in Angles, NEW b \in BOOLEAN
  PROVE  Join(s) \in Actions /\ Quit(s) \in Actions /\ MoveAndShoot(s, a, b) \in Actions
  BY DEF Actions

\* The fields of an action.
LEMMA ActionFields ==
  ASSUME NEW a \in Actions
  PROVE  /\ a.session \in Sessions /\ a.angle \in Angles
         /\ a.type = "PlayerJoin" => a = Join(a.session)
         /\ a.type = "PlayerQuit" => a = Quit(a.session)
PROOF
<1>1. CASE \E s \in Sessions : a = Join(s)
  BY <1>1, WorldAssumption DEF Join
<1>2. CASE \E s \in Sessions : a = Quit(s)
  BY <1>2, WorldAssumption DEF Quit
<1>3. CASE \E s \in Sessions, h \in Angles, b \in BOOLEAN : a = MoveAndShoot(s, h, b)
  BY <1>3 DEF MoveAndShoot
<1> QED BY <1>1, <1>2, <1>3 DEF Actions

\* A new world satisfies the type invariant.
LEMMA TypeInit == Init => TypeOK
PROOF
<1> SUFFICES ASSUME Init
             PROVE  TypeOK
  OBVIOUS
<1>1. Pool!TypeOK
  BY PoolInvInit DEF Init, Pool!PoolInv
<1>2. /\ owner \in [1 .. MaxId -> 0 .. MaxId] /\ heading \in [1 .. MaxId -> Angles]
      /\ sent \in 0 .. MaxActions /\ asteroids \in 0 .. MaxAsteroids /\ faults \in 0 .. MaxActions
  BY WorldAssumption, PoolConstants DEF Init
<1>3. actionQueue \in Seq(Actions) /\ batch \in Seq(Actions) /\ newPlayers \in Seq(Sessions)
  BY DEF Init
<1> QED BY <1>1, <1>2, <1>3 DEF Init, TypeOK

\* A callback that enqueues an action keeps the type invariant.
LEMMA EnqueueType ==
  ASSUME TypeOK, NEW a \in Actions, NEW wrong, EnqueueAction(a), Fault(wrong),
         joined' \subseteq Sessions, client' \in [Sessions -> {"connected", "gone"}]
  PROVE  TypeOK'
PROOF
<1>1. actionQueue' \in Seq(Actions)
  BY DEF TypeOK, EnqueueAction
<1>2. sent' \in 0 .. MaxActions /\ faults' \in 0 .. MaxActions
  BY WorldAssumption DEF TypeOK, EnqueueAction, Fault
<1>3. UNCHANGED <<pool, tickVars>>
  BY DEF EnqueueAction
<1>4. Pool!TypeOK'
  BY <1>3 DEF TypeOK, pool, Pool!TypeOK, Pool!Slots, Pool!Entity
<1> QED BY <1>1, <1>2, <1>3, <1>4 DEF TypeOK, tickVars

\* Every step keeps the type invariant.
LEMMA TypeNext ==
  ASSUME TypeOK, Pool!PoolInv, [Next]_vars
  PROVE  TypeOK'
PROOF
<1>0. Pool!TypeOK'
  BY StepIsPoolStep, PoolInvKept DEF Pool!PoolInv
<1>1. ASSUME NEW s \in Sessions,
             \/ OnPlayerJoin(s) \/ OnShotReceived(s) \/ OnClientDisconnected(s)
             \/ \E a \in Angles : OnPlayerMove(s, a)
      PROVE  TypeOK'
  <2>1. 0 \in Angles /\ TRUE \in BOOLEAN /\ FALSE \in BOOLEAN
    BY WorldAssumption
  <2>2. CASE OnPlayerJoin(s)
    <3>1. joined' \subseteq Sessions /\ client' \in [Sessions -> {"connected", "gone"}]
      BY <2>2 DEF OnPlayerJoin, TypeOK
    <3> QED BY <2>1, <2>2, <3>1, ActionTypes, EnqueueType DEF OnPlayerJoin
  <2>3. CASE OnShotReceived(s)
    <3>1. joined' \subseteq Sessions /\ client' \in [Sessions -> {"connected", "gone"}]
      BY <2>3 DEF OnShotReceived, TypeOK
    <3> QED BY <2>1, <2>3, <3>1, ActionTypes, EnqueueType DEF OnShotReceived
  <2>4. CASE OnClientDisconnected(s)
    <3>1. joined' \subseteq Sessions /\ client' \in [Sessions -> {"connected", "gone"}]
      BY <2>4 DEF OnClientDisconnected, TypeOK
    <3> QED BY <2>1, <2>4, <3>1, ActionTypes, EnqueueType DEF OnClientDisconnected
  <2>5. ASSUME NEW a \in Angles, OnPlayerMove(s, a)
        PROVE  TypeOK'
    <3>1. joined' \subseteq Sessions /\ client' \in [Sessions -> {"connected", "gone"}]
      BY <2>5 DEF OnPlayerMove, TypeOK
    <3> QED BY <2>1, <2>5, <3>1, ActionTypes, EnqueueType DEF OnPlayerMove
  <2> QED BY <1>1, <2>2, <2>3, <2>4, <2>5
<1>2. CASE DrainInput \/ AsteroidsDone \/ UpdatePhysics \/ BroadcastSnapshot
  <2>1. actionQueue' \in Seq(Actions) /\ batch' \in Seq(Actions) /\ newPlayers' \in Seq(Sessions)
    <3>1. << >> \in Seq(Actions) /\ << >> \in Seq(Sessions)
      OBVIOUS
    <3> QED BY <1>2, <3>1, Zenon DEF TypeOK, DrainInput, AsteroidsDone, UpdatePhysics, BroadcastSnapshot
  <2>2. /\ UNCHANGED <<owner, heading, sessionToShip, asteroids, fate, sent, joined, client, faults>>
        /\ stage' \in {"input", "spawn", "collide", "idle"}
    BY <1>2, Zenon DEF DrainInput, AsteroidsDone, UpdatePhysics, BroadcastSnapshot, envVars
  <2> QED BY <1>0, <2>1, <2>2 DEF TypeOK
<1>3. CASE TickThrows \/ DropQueue
  <2>1. sent' \in 0 .. MaxActions /\ faults' \in 0 .. MaxActions
    BY <1>3, WorldAssumption DEF TypeOK, TickThrows, DropQueue, Fault
  <2>2. actionQueue' \in Seq(Actions) /\ batch' \in Seq(Actions) /\ newPlayers' \in Seq(Sessions)
    <3>1. << >> \in Seq(Actions) /\ << >> \in Seq(Sessions)
      OBVIOUS
    <3> QED BY <1>3, <3>1, Zenon DEF TypeOK, TickThrows, DropQueue, tickVars
  <2>3. /\ UNCHANGED <<owner, heading, sessionToShip, asteroids, fate, joined, client>>
        /\ stage' = "idle"
    BY <1>3, Zenon DEF TickThrows, DropQueue, tickVars
  <2> QED BY <1>0, <2>1, <2>2, <2>3 DEF TypeOK
<1>4. ASSUME NEW t, NextAction(t)
      PROVE  /\ Head(batch) \in Actions /\ batch' \in Seq(Actions) /\ actionQueue' \in Seq(Actions)
             /\ UNCHANGED <<stage, asteroids, envVars>>
  BY <1>4 DEF NextAction, TypeOK
<1>5. CASE ApplyJoin
  <2>1. Head(batch).session \in Sessions
    BY <1>4, <1>5, ActionFields DEF ApplyJoin
  <2>2. newPlayers' \in Seq(Sessions)
    BY <1>5, <2>1 DEF ApplyJoin, TypeOK
  <2>3. UNCHANGED <<owner, heading, sessionToShip, fate>>
    BY <1>5 DEF ApplyJoin
  <2>4. /\ batch' \in Seq(Actions) /\ actionQueue' \in Seq(Actions)
        /\ UNCHANGED <<stage, asteroids, envVars>>
    BY <1>4, <1>5 DEF ApplyJoin
  <2> QED BY <1>0, <2>2, <2>3, <2>4 DEF TypeOK, envVars
<1>6. CASE ApplyQuitUnbound \/ ApplyQuit
  <2>1. /\ batch' \in Seq(Actions) /\ actionQueue' \in Seq(Actions)
        /\ UNCHANGED <<stage, asteroids, envVars>>
    BY <1>4, <1>6 DEF ApplyQuit, ApplyQuitUnbound
  <2>2. UNCHANGED <<owner, heading, newPlayers>>
    BY <1>6 DEF ApplyQuit, ApplyQuitUnbound
  <2>3. /\ DOMAIN sessionToShip' \subseteq DOMAIN sessionToShip
        /\ \A s \in DOMAIN sessionToShip' : sessionToShip'[s] = sessionToShip[s]
        /\ fate' \in [Sessions -> {"none", "playing", "told", "left"}]
    BY <1>6 DEF ApplyQuit, ApplyQuitUnbound, Without, TypeOK
  <2> QED BY <1>0, <2>1, <2>2, <2>3 DEF TypeOK, envVars
<1>7. CASE ApplyMoveAndShoot
  <2> DEFINE a == Head(batch)
             ship == sessionToShip[a.session]
  <2>1. /\ a \in Actions /\ batch' \in Seq(Actions) /\ actionQueue' \in Seq(Actions)
        /\ UNCHANGED <<stage, asteroids, envVars>>
    BY <1>4, <1>7 DEF ApplyMoveAndShoot
  <2>2. a.session \in Sessions /\ a.angle \in Angles
    BY <2>1, ActionFields
  <2>3. UNCHANGED <<newPlayers, sessionToShip, fate>>
    BY <1>7 DEF ApplyMoveAndShoot
  <2>4. heading' \in [1 .. MaxId -> Angles]
    BY <1>7, <2>2 DEF ApplyMoveAndShoot, TypeOK
  <2>5. owner' \in [1 .. MaxId -> 0 .. MaxId]
    <3>1. CASE Bound(a.session) /\ owner' = [owner EXCEPT ![nextId] = ship]
      <4>1. ship \in 1 .. MaxId
        BY <3>1 DEF Bound, TypeOK
      <4>2. ship \in 0 .. MaxId
        BY <4>1, PoolConstants
      <4> QED BY <3>1, <4>2 DEF TypeOK
    <3>2. CASE UNCHANGED owner
      BY <3>2 DEF TypeOK
    <3> QED BY <1>7, <3>1, <3>2 DEF ApplyMoveAndShoot
  <2> QED BY <1>0, <2>1, <2>3, <2>4, <2>5 DEF TypeOK, envVars
<1>8. ASSUME NEW i \in Pool!Slots, NEW j \in Pool!Slots, Collide(i, j)
      PROVE  TypeOK'
  BY <1>0, <1>8 DEF TypeOK, Collide, envVars
<1>9. CASE ReapDestroyedShips
  BY <1>0, <1>9 DEF TypeOK, ReapDestroyedShips, Without, envVars
<1>10. CASE AddAsteroid
  BY <1>0, <1>10, WorldAssumption DEF TypeOK, AddAsteroid, envVars
<1>11. CASE SpawnShip
  <2>1. nextId \in 1 .. MaxId
    BY <1>11, AcquireFinds DEF SpawnShip, EntityTypes
  <2>2. Head(newPlayers) \in Sessions /\ newPlayers' \in Seq(Sessions)
    BY <1>11 DEF SpawnShip, TypeOK
  <2>3. /\ DOMAIN sessionToShip' \subseteq Sessions
        /\ \A s \in DOMAIN sessionToShip' : sessionToShip'[s] \in 1 .. MaxId
    BY <1>11, <2>1, <2>2 DEF SpawnShip, TypeOK
  <2>4. fate' \in [Sessions -> {"none", "playing", "told", "left"}]
    BY <1>11, <2>2 DEF SpawnShip, TypeOK
  <2>5. UNCHANGED <<owner, heading, actionQueue, batch, stage, asteroids, envVars>>
    BY <1>11 DEF SpawnShip
  <2> QED BY <1>0, <2>2, <2>3, <2>4, <2>5 DEF TypeOK, envVars
<1>12. CASE UNCHANGED vars
  BY <1>0, <1>12 DEF TypeOK, vars
<1> QED BY <1>1, <1>2, <1>3, <1>5, <1>6, <1>7, <1>8, <1>9, <1>10, <1>11, <1>12 DEF Next, Tick

\* The type invariant of the world.
THEOREM TypeCorrect == Spec => []TypeOK
  BY TypeInit, TypeNext, PoolInWorld, PTL DEF Spec

-----------------------------------------------------------------------------
(* Bindings *)

\* Bindings that stay resolve as long as their entities stay.
LEMMA KeptBindingsResolve ==
  ASSUME BindingsResolve,
         DOMAIN sessionToShip' \subseteq DOMAIN sessionToShip,
         \A s \in DOMAIN sessionToShip' : sessionToShip'[s] = sessionToShip[s],
         \A s \in DOMAIN sessionToShip' : \A id : id = sessionToShip[s] =>
           /\ Find(id)' # Nullopt
           /\ Find(id)'.id = Find(id).id /\ Find(id)'.type = Find(id).type
  PROVE  BindingsResolve'
  BY DEF BindingsResolve, Find, Pool!FindByEntityID

\* Bindings that stay are to live ships as long as nobody flags one of them.
LEMMA KeptBindingsAlive ==
  ASSUME BindingsResolve, BoundAlive,
         stage' \in {"asteroids", "spawn"} \/ (stage' # "collide" /\ faults' = 0) =>
           /\ stage \in {"asteroids", "spawn"} \/ (stage # "collide" /\ faults = 0)
           /\ \A s \in DOMAIN sessionToShip' : \A id : id = sessionToShip[s] =>
                 (Flagged(id)' => Flagged(id)),
         DOMAIN sessionToShip' \subseteq DOMAIN sessionToShip,
         \A s \in DOMAIN sessionToShip' : sessionToShip'[s] = sessionToShip[s]
  PROVE  BoundAlive'
  BY DEF BoundAlive, Flagged, Find, Pool!FindByEntityID

\* Steps that touch neither the pool nor the bindings.
LEMMA BindingsUntouched ==
  ASSUME BindInv, UNCHANGED <<pool, sessionToShip, fate>>,
         stage' \in {"asteroids", "spawn"} \/ (stage' # "collide" /\ faults' = 0) =>
           stage \in {"asteroids", "spawn"} \/ (stage # "collide" /\ faults = 0)
  PROVE  BindInv'
PROOF
<1>1. \A id : Find(id)' = Find(id) /\ (Flagged(id)' <=> Flagged(id))
  BY DEF Flagged, Find, Pool!FindByEntityID, pool
<1>2. BindingsResolve'
  BY DEF BindInv, BindingsResolve, Pool!FindByEntityID, pool
<1>3. BoundAlive'
  BY <1>1, KeptBindingsAlive DEF BindInv
<1>4. FateTells'
  BY DEF BindInv, FateTells
<1> QED BY <1>2, <1>3, <1>4 DEF BindInv

\* acquire() for a bullet or an asteroid.
LEMMA BindingsAcquire ==
  ASSUME Pool!PoolInv, BindInv, NEW t \in EntityTypes, Pool!Acquire(t),
         UNCHANGED <<sessionToShip, fate, stage, faults>>
  PROVE  BindInv'
PROOF
<1>1. \A s \in DOMAIN sessionToShip : \A id : id = sessionToShip[s] => Find(id) # Nullopt
  BY DEF BindInv, BindingsResolve, Find
<1>2. \A s \in DOMAIN sessionToShip : \A id : id = sessionToShip[s] => Find(id)' = Find(id)
  BY <1>1, AcquireFinds
<1>3. BindingsResolve'
  BY <1>1, <1>2, KeptBindingsResolve DEF BindInv, BindingsResolve, Find
<1>4. BoundAlive'
  BY <1>2, KeptBindingsAlive DEF BindInv, Flagged
<1>5. FateTells'
  BY DEF BindInv, FateTells
<1> QED BY <1>3, <1>4, <1>5 DEF BindInv

\* Flagging bullets or those who collide: the ships stay in the pool, flagged or
\* not, until the reaping.
LEMMA BindingsMark ==
  ASSUME Pool!PoolInv, BindInv, NEW S \in SUBSET Pool!EngagedSlots, Pool!MarkDestroyed(S),
         UNCHANGED <<sessionToShip, fate>>, stage' = "collide"
  PROVE  BindInv'
PROOF
<1>1. \A s \in DOMAIN sessionToShip : \A id : id = sessionToShip[s] => Find(id) # Nullopt
  BY DEF BindInv, BindingsResolve, Find
<1>2. BindingsResolve'
  BY <1>1, MarkFinds, KeptBindingsResolve DEF BindInv
<1>3. BoundAlive'
  BY DEF BoundAlive
<1>4. FateTells'
  BY DEF BindInv, FateTells
<1> QED BY <1>2, <1>3, <1>4 DEF BindInv

\* PlayerQuit: the ship that is flagged is nobody else's.
LEMMA BindingsQuit ==
  ASSUME TypeOK, Pool!PoolInv, BindInv, ApplyQuit
  PROVE  BindInv'
PROOF
<1> DEFINE s == Head(batch).session
           ship == sessionToShip[s]
<1>1. s \in DOMAIN sessionToShip
  BY DEF ApplyQuit, Bound
<1>2. Find(ship) # Nullopt
  BY <1>1 DEF BindInv, BindingsResolve, Find
<1>3. SlotOf(ship) \in Pool!EngagedSlots /\ storage[SlotOf(ship)].id = ship
  BY <1>2, FindFacts
<1>4. Pool!MarkDestroyed({SlotOf(ship)})
  BY <1>2 DEF ApplyQuit, Find
<1>5. /\ DOMAIN sessionToShip' = DOMAIN sessionToShip \ {s}
      /\ \A x \in DOMAIN sessionToShip' : sessionToShip'[x] = sessionToShip[x]
      /\ fate' = [fate EXCEPT ![s] = "left"]
      /\ UNCHANGED <<stage, faults>>
  BY DEF ApplyQuit, Without, NextAction, envVars
<1>6. \A x \in DOMAIN sessionToShip' : \A id : id = sessionToShip[x] =>
        Find(id) # Nullopt /\ SlotOf(id) # SlotOf(ship)
  <2> SUFFICES ASSUME NEW x \in DOMAIN sessionToShip'
               PROVE  Find(sessionToShip[x]) # Nullopt /\ SlotOf(sessionToShip[x]) # SlotOf(ship)
    OBVIOUS
  <2>1. x \in DOMAIN sessionToShip /\ x # s
    BY <1>5
  <2>2. Find(sessionToShip[x]) # Nullopt /\ sessionToShip[x] # ship
    BY <1>1, <2>1 DEF BindInv, BindingsResolve, Find
  <2>3. storage[SlotOf(sessionToShip[x])].id = sessionToShip[x]
    BY <2>2, FindFacts
  <2> QED BY <1>3, <2>2, <2>3
<1> DEFINE D == {SlotOf(ship)}
<1>7. D \in SUBSET Pool!EngagedSlots
  BY <1>3
<1>8. \A x \in DOMAIN sessionToShip' : \A id : id = sessionToShip[x] =>
        /\ Find(id)' # Nullopt
        /\ Find(id)'.id = Find(id).id /\ Find(id)'.type = Find(id).type
        /\ Find(id)'.isDestroyed <=> Find(id).isDestroyed
  BY <1>4, <1>6, <1>7, MarkFinds
<1>9. BindingsResolve'
  BY <1>5, <1>8, KeptBindingsResolve DEF BindInv
<1>10. BoundAlive'
  BY <1>5, <1>6, <1>8, KeptBindingsAlive DEF BindInv, Flagged
<1>11. FateTells'
  BY <1>1, <1>5 DEF BindInv, FateTells, TypeOK
<1> QED BY <1>9, <1>10, <1>11 DEF BindInv

\* The sessions that reapDestroyedShips() finds are those whose ship is flagged.
LEMMA DestroyedIsFlagged ==
  ASSUME Pool!PoolInv, NEW id, Flagged(id)
  PROVE  id \in DestroyedIds
PROOF
<1>1. /\ SlotOf(id) \in Pool!EngagedSlots /\ storage[SlotOf(id)] = Find(id) /\ Find(id).id = id
      /\ Find(id).isDestroyed
  BY FindFacts DEF Flagged
<1>2. SlotOf(id) \in Pool!DestroyedSlots
  BY <1>1 DEF Pool!DestroyedSlots, Pool!EngagedSlots
<1> QED BY <1>1, <1>2 DEF DestroyedIds

\* Recycling, when the bindings that stay are to ships that are not flagged.
LEMMA BindingsRecycle ==
  ASSUME TypeOK, Pool!PoolInv, BindInv, Pool!RecycleDestroyed,
         DOMAIN sessionToShip' \subseteq DOMAIN sessionToShip,
         \A s \in DOMAIN sessionToShip' : sessionToShip'[s] = sessionToShip[s],
         \A s \in DOMAIN sessionToShip' : ~Flagged(sessionToShip[s])
  PROVE  BindingsResolve' /\ BoundAlive'
PROOF
<1>1. \A s \in DOMAIN sessionToShip' : \A id : id = sessionToShip[s] =>
        Find(id) # Nullopt /\ Find(id)' = Find(id) /\ ~Flagged(id)
  BY RecycleFinds DEF BindInv, BindingsResolve, Find
<1>2. BindingsResolve'
  BY <1>1, KeptBindingsResolve DEF BindInv
<1>3. BoundAlive'
  BY <1>1 DEF BoundAlive, Flagged, Find, Pool!FindByEntityID
<1> QED BY <1>2, <1>3

\* reapDestroyedShips() drops the bindings to everything it recycles.
LEMMA BindingsReap ==
  ASSUME TypeOK, Pool!PoolInv, BindInv, ReapDestroyedShips
  PROVE  BindInv'
PROOF
<1>1. /\ DOMAIN sessionToShip' = DOMAIN sessionToShip \ LostShip
      /\ \A s \in DOMAIN sessionToShip' : sessionToShip'[s] = sessionToShip[s]
      /\ fate' = [s \in Sessions |-> IF s \in LostShip THEN "told" ELSE fate[s]]
      /\ Pool!RecycleDestroyed
  BY DEF ReapDestroyedShips, Without
<1>2. \A s \in DOMAIN sessionToShip' : ~Flagged(sessionToShip[s])
  BY <1>1, DestroyedIsFlagged DEF LostShip
<1>3. BindingsResolve' /\ BoundAlive'
  BY <1>1, <1>2, BindingsRecycle
<1>4. FateTells'
  BY <1>1 DEF BindInv, FateTells, LostShip
<1> QED BY <1>3, <1>4 DEF BindInv

\* spawnShips(): the new binding is to the new ship, which nobody had.
LEMMA BindingsSpawn ==
  ASSUME TypeOK, Pool!PoolInv, BindInv, SpawnShip
  PROVE  BindInv'
PROOF
<1> DEFINE s == Head(newPlayers)
           new == nextId
<1>1. /\ DOMAIN sessionToShip' = DOMAIN sessionToShip \cup {s}
      /\ \A x \in DOMAIN sessionToShip' : sessionToShip'[x] = IF x = s THEN new ELSE sessionToShip[x]
      /\ fate' = [fate EXCEPT ![s] = "playing"]
      /\ stage = "spawn" /\ UNCHANGED stage
      /\ Pool!Acquire("Ship")
  BY DEF SpawnShip
<1>2. s \in Sessions
  BY DEF SpawnShip, TypeOK
<1>3. /\ Find(new) = Nullopt
      /\ \A id : Find(id)' = IF id = new THEN Pool!FreshEntity("Ship") ELSE Find(id)
      /\ Pool!FreshEntity("Ship") # Nullopt
  BY <1>1, AcquireFinds DEF EntityTypes
<1>4. Pool!FreshEntity("Ship") = [id |-> new, type |-> "Ship", isDestroyed |-> FALSE]
  BY DEF Pool!FreshEntity
<1>5. \A x \in DOMAIN sessionToShip :
        /\ Find(sessionToShip[x]) # Nullopt /\ sessionToShip[x] # new
        /\ Find(sessionToShip[x]).id = sessionToShip[x] /\ Find(sessionToShip[x]).type = "Ship"
        /\ ~Find(sessionToShip[x]).isDestroyed
  BY <1>1, <1>3 DEF BindInv, BindingsResolve, BoundAlive, Flagged, Find
<1>6. \A x \in DOMAIN sessionToShip' : \A id : id = sessionToShip'[x] =>
        /\ Find(id)' # Nullopt /\ Find(id)'.id = id /\ Find(id)'.type = "Ship"
        /\ ~Find(id)'.isDestroyed
  BY <1>1, <1>3, <1>4, <1>5
<1>7. \A x, y \in DOMAIN sessionToShip' : sessionToShip'[x] = sessionToShip'[y] => x = y
  BY <1>1, <1>5 DEF BindInv, BindingsResolve
<1>8. BindingsResolve'
  BY <1>6, <1>7 DEF BindingsResolve, Find, Pool!FindByEntityID
<1>9. BoundAlive'
  BY <1>6 DEF BoundAlive, Flagged, Find, Pool!FindByEntityID
<1>10. FateTells'
  BY <1>1, <1>2 DEF BindInv, FateTells, TypeOK
<1> QED BY <1>8, <1>9, <1>10 DEF BindInv

\* Every step keeps the bindings in order.
LEMMA BindNext ==
  ASSUME TypeOK, Pool!PoolInv, BindInv, [Next]_vars
  PROVE  BindInv'
PROOF
<1>0. faults \in Nat
  BY DEF TypeOK
<1>1. ASSUME NEW s \in Sessions,
             \/ OnPlayerJoin(s) \/ OnShotReceived(s) \/ OnClientDisconnected(s)
             \/ \E a \in Angles : OnPlayerMove(s, a)
      PROVE  BindInv'
  <2>1. \E a, wrong : EnqueueAction(a) /\ Fault(wrong)
    BY <1>1 DEF OnPlayerJoin, OnShotReceived, OnClientDisconnected, OnPlayerMove
  <2>2. UNCHANGED <<pool, sessionToShip, fate, stage>>
    BY <2>1 DEF EnqueueAction, tickVars
  <2>3. faults' = 0 => faults = 0
    BY <1>0, <2>1 DEF Fault
  <2> QED BY <2>2, <2>3, BindingsUntouched
<1>2. CASE DrainInput \/ ApplyJoin \/ ApplyQuitUnbound \/ AsteroidsDone \/ UNCHANGED vars
  <2>1. UNCHANGED <<pool, sessionToShip, fate, faults>>
    BY <1>2, Zenon DEF DrainInput, ApplyJoin, ApplyQuitUnbound, AsteroidsDone, NextAction, envVars, vars
  <2>2. \/ stage' = stage
        \/ stage = "idle" /\ stage' = "input"
        \/ stage = "asteroids" /\ stage' = "spawn"
    BY <1>2, Zenon DEF DrainInput, ApplyJoin, ApplyQuitUnbound, AsteroidsDone, NextAction, vars
  <2> QED BY <2>1, <2>2, BindingsUntouched
<1>3. CASE TickThrows \/ DropQueue
  <2>1. UNCHANGED <<pool, sessionToShip, fate>>
    BY <1>3, Zenon DEF TickThrows, DropQueue, tickVars
  <2>2. stage' = "idle" /\ faults' # 0
    BY <1>0, <1>3 DEF TickThrows, DropQueue, tickVars, Fault
  <2> QED BY <2>1, <2>2, BindingsUntouched
<1>4. CASE ApplyMoveAndShoot \/ AddAsteroid
  <2>1. UNCHANGED <<sessionToShip, fate, stage, faults>>
    BY <1>4, Zenon DEF ApplyMoveAndShoot, AddAsteroid, NextAction, envVars
  <2>2. UNCHANGED pool \/ \E t \in EntityTypes : Pool!Acquire(t)
    <3>1. "Bullet" \in EntityTypes /\ "Asteroid" \in EntityTypes
      BY DEF EntityTypes
    <3> QED BY <1>4, <3>1, Zenon DEF ApplyMoveAndShoot, AddAsteroid
  <2> QED BY <2>1, <2>2, BindingsUntouched, BindingsAcquire
<1>5. CASE ApplyQuit
  BY <1>5, BindingsQuit
<1>6. CASE UpdatePhysics
  <2>1. LiveSlots("Bullet") \subseteq Pool!EngagedSlots
    BY DEF LiveSlots, Pool!IsActive, Pool!EngagedSlots
  <2> QED BY <1>6, <2>1, BindingsMark DEF UpdatePhysics
<1>7. ASSUME NEW i \in Pool!Slots, NEW j \in Pool!Slots, Collide(i, j)
      PROVE  BindInv'
  <2>1. PICK D \in CollisionOutcomes(i, j) : Pool!MarkDestroyed(D)
    BY <1>7 DEF Collide
  <2>2. i \in Pool!EngagedSlots /\ j \in Pool!EngagedSlots
    BY <1>7 DEF Collide, Pool!IsActive, Pool!EngagedSlots
  <2>3. D \in SUBSET Pool!EngagedSlots
    BY <2>2, OutcomeOfPair
  <2> QED BY <1>7, <2>1, <2>3, BindingsMark DEF Collide
<1>8. CASE ReapDestroyedShips
  BY <1>8, BindingsReap
<1>9. CASE SpawnShip
  BY <1>9, BindingsSpawn
<1>10. CASE BroadcastSnapshot
  <2>1. UNCHANGED <<sessionToShip, fate>> /\ Pool!RecycleDestroyed /\ stage = "spawn"
    BY <1>10 DEF BroadcastSnapshot
  <2>2. \A s \in DOMAIN sessionToShip : ~Flagged(sessionToShip[s])
    BY <2>1 DEF BindInv, BoundAlive
  <2>3. BindingsResolve' /\ BoundAlive'
    BY <2>1, <2>2, BindingsRecycle
  <2>4. FateTells'
    BY <2>1 DEF BindInv, FateTells
  <2> QED BY <2>3, <2>4 DEF BindInv
<1> QED BY <1>1, <1>2, <1>3, <1>4, <1>5, <1>6, <1>7, <1>8, <1>9, <1>10 DEF Next, Tick

\* The bindings of a new world: none.
LEMMA BindInit == Init => BindInv
  BY DEF Init, BindInv, BindingsResolve, BoundAlive, FateTells

\* The inductive invariant of the bindings.
THEOREM BindCorrect == Spec => []BindInv
  BY BindInit, BindNext, TypeCorrect, PoolInWorld, PTL DEF Spec

\* session_to_ship_ never dangles: a bound session leads to a ship that is in the
\* pool and is nobody else's, at every point of every tick, also after a stage
\* has thrown.
THEOREM BindingsCorrect == Spec => []BindingsResolve
PROOF
<1>1. BindInv => BindingsResolve
  BY DEF BindInv
<1> QED BY <1>1, BindCorrect, PTL

\* Between ticks no ship of a session that plays has disappeared without the
\* session being told, as long as no stage was cut short.
THEOREM NobodyDiesSilently == Spec => []NoSilentDeath
PROOF
<1>1. BindInv => NoSilentDeath
  BY DEF BindInv, BindingsResolve, BoundAlive, FateTells, Flagged, Find, NoSilentDeath
<1> QED BY <1>1, BindCorrect, PTL

-----------------------------------------------------------------------------
(* The pipeline of JOINs and QUITs *)

\* Joins, quits and moves of any sessions are different actions.
LEMMA ActionsDiffer ==
  ASSUME NEW s, NEW t, NEW a, NEW b
  PROVE  /\ Join(s) = Join(t) <=> s = t
         /\ Quit(s) = Quit(t) <=> s = t
         /\ Join(s) # Quit(t) /\ Join(s) # MoveAndShoot(t, a, b) /\ Quit(s) # MoveAndShoot(t, a, b)
  BY DEF Join, Quit, MoveAndShoot

\* What is in a sequence after push() ...
LEMMA IsInAppend ==
  ASSUME NEW T, NEW q \in Seq(T), NEW a \in T, NEW x
  PROVE  /\ IsIn(x, Append(q, a)) <=> IsIn(x, q) \/ x = a
         /\ AtMostOnce(x, q) /\ (x = a => ~IsIn(x, q)) => AtMostOnce(x, Append(q, a))
PROOF
<1>1. Append(q, a) \in Seq(T) /\ DOMAIN Append(q, a) = 1 .. (Len(q) + 1)
  OBVIOUS
<1>2. \A k \in DOMAIN Append(q, a) : Append(q, a)[k] = IF k = Len(q) + 1 THEN a ELSE q[k]
  OBVIOUS
<1>3. DOMAIN q = 1 .. Len(q) /\ Len(q) \in Nat
  OBVIOUS
<1>4. IsIn(x, Append(q, a)) => IsIn(x, q) \/ x = a
  BY <1>1, <1>2, <1>3 DEF IsIn
<1>5. IsIn(x, q) => IsIn(x, Append(q, a))
  BY <1>1, <1>2, <1>3 DEF IsIn
<1>6. IsIn(a, Append(q, a))
  <2>1. Len(q) + 1 \in DOMAIN Append(q, a)
    BY <1>1, <1>3
  <2> QED BY <2>1, <1>2 DEF IsIn
<1>7. ASSUME AtMostOnce(x, q), x = a => ~IsIn(x, q)
      PROVE  AtMostOnce(x, Append(q, a))
  BY <1>1, <1>2, <1>3, <1>7 DEF AtMostOnce, IsIn
<1> QED BY <1>4, <1>5, <1>6, <1>7

\* ... and after pop().
LEMMA IsInTail ==
  ASSUME NEW T, NEW q \in Seq(T), q # << >>, NEW x
  PROVE  /\ IsIn(x, q) <=> x = Head(q) \/ IsIn(x, Tail(q))
         /\ AtMostOnce(x, q) => AtMostOnce(x, Tail(q)) /\ (x = Head(q) => ~IsIn(x, Tail(q)))
PROOF
<1>1. /\ DOMAIN Tail(q) = 1 .. (Len(q) - 1) /\ \A k \in DOMAIN Tail(q) : Tail(q)[k] = q[k + 1]
      /\ Head(q) = q[1]
  OBVIOUS
<1>2. DOMAIN q = 1 .. Len(q) /\ Len(q) \in Nat \ {0}
  OBVIOUS
<1>3. IsIn(x, Tail(q)) => IsIn(x, q)
  BY <1>1, <1>2 DEF IsIn
<1>4. IsIn(Head(q), q)
  BY <1>1, <1>2 DEF IsIn
<1>5. ASSUME NEW k \in DOMAIN q, q[k] = x, x # Head(q)
      PROVE  IsIn(x, Tail(q))
  <2>1. k - 1 \in DOMAIN Tail(q) /\ Tail(q)[k - 1] = x
    BY <1>1, <1>2, <1>5
  <2> QED BY <2>1 DEF IsIn
<1>6. AtMostOnce(x, q) => AtMostOnce(x, Tail(q))
  BY <1>1, <1>2 DEF AtMostOnce
<1>7. ASSUME AtMostOnce(x, q), x = Head(q), NEW k \in DOMAIN Tail(q), Tail(q)[k] = x
      PROVE  FALSE
  <2>1. k + 1 \in DOMAIN q /\ 1 \in DOMAIN q /\ q[k + 1] = x /\ q[1] = x /\ k + 1 # 1
    BY <1>1, <1>2, <1>7
  <2> QED BY <2>1, <1>7 DEF AtMostOnce
<1> QED BY <1>3, <1>4, <1>5, <1>6, <1>7 DEF IsIn

\* Steps outside the pipeline may drop bindings.
LEMMA PipeUntouched ==
  ASSUME NEW s, Pipe(s), UNCHANGED <<actionQueue, batch, newPlayers, joined, client>>,
         DOMAIN sessionToShip' \subseteq DOMAIN sessionToShip
  PROVE  Pipe(s)'
  BY DEF Pipe, OneJoin, QuitOnItsWay, JoinPending, IsIn, AtMostOnce, Gone

\* A callback enqueues an action: nothing else of the pipeline changes.
LEMMA PipeEnqueue ==
  ASSUME TypeOK, NEW s, Pipe(s), NEW a \in Actions, EnqueueAction(a), joined \subseteq joined',
         a = Join(s) => s \in joined' /\ s \notin joined /\ ~Gone(s),
         Gone(s)' => Gone(s) \/ (a = Quit(s) /\ ~JoinPending(s)),
         Join(s) # Quit(s)
  PROVE  Pipe(s)'
PROOF
<1>1. actionQueue' = Append(actionQueue, a) /\ UNCHANGED <<batch, newPlayers, sessionToShip>>
  BY DEF EnqueueAction, tickVars
<1>2. \A x : /\ IsIn(x, actionQueue') <=> IsIn(x, actionQueue) \/ x = a
             /\ AtMostOnce(x, actionQueue) /\ (x = a => ~IsIn(x, actionQueue))
                  => AtMostOnce(x, actionQueue')
  BY <1>1, IsInAppend DEF TypeOK
<1>3. a = Join(s) => ~JoinPending(s) /\ s \notin DOMAIN sessionToShip
  BY DEF Pipe, OneJoin
<1>4. OneJoin(s)'
  <2>1. AtMostOnce(Join(s), actionQueue')
    BY <1>2, <1>3 DEF Pipe, OneJoin, JoinPending
  <2>2. /\ AtMostOnce(Join(s), batch') /\ AtMostOnce(s, newPlayers')
        /\ IsIn(Join(s), actionQueue') => ~IsIn(Join(s), batch') /\ ~IsIn(s, newPlayers')
        /\ IsIn(Join(s), batch') => ~IsIn(s, newPlayers')
        /\ s \in DOMAIN sessionToShip' => s \in joined'
    BY <1>1, <1>2, <1>3 DEF Pipe, OneJoin, JoinPending
  <2>3. ASSUME IsIn(Join(s), actionQueue') \/ IsIn(Join(s), batch') \/ IsIn(s, newPlayers')
        PROVE  s \in joined' /\ s \notin DOMAIN sessionToShip' /\ ~Gone(s)'
    BY <1>1, <1>2, <1>3, <2>3 DEF Pipe, OneJoin, JoinPending
  <2> QED BY <2>1, <2>2, <2>3 DEF OneJoin, JoinPending, IsIn, AtMostOnce, Join
<1>5. QuitOnItsWay(s)'
  BY <1>1, <1>2 DEF Pipe, QuitOnItsWay, Quit, IsIn, Gone
<1> QED BY <1>4, <1>5 DEF Pipe

\* processInputQueue() moves the queue on as a whole.
LEMMA PipeDrain ==
  ASSUME NEW s, Pipe(s), DrainInput, batch = << >>
  PROVE  Pipe(s)'
PROOF
<1>1. /\ batch' = actionQueue /\ actionQueue' = << >> /\ newPlayers' = << >>
      /\ UNCHANGED <<sessionToShip, joined, client>>
  BY DEF DrainInput, envVars
<1>2. \A x : ~IsIn(x, << >>) /\ AtMostOnce(x, << >>)
  BY DEF IsIn, AtMostOnce
<1>3. OneJoin(s)'
  <2>1. /\ AtMostOnce(Join(s), actionQueue') /\ AtMostOnce(Join(s), batch') /\ AtMostOnce(s, newPlayers')
        /\ ~IsIn(Join(s), actionQueue') /\ ~IsIn(s, newPlayers')
        /\ IsIn(Join(s), batch') => s \in joined' /\ s \notin DOMAIN sessionToShip' /\ ~Gone(s)'
        /\ s \in DOMAIN sessionToShip' => s \in joined'
    BY <1>1, <1>2 DEF Pipe, OneJoin, JoinPending, Gone
  <2> QED BY <2>1 DEF OneJoin, JoinPending, IsIn, AtMostOnce, Join
<1>4. QuitOnItsWay(s)'
  <2>1. Gone(s)' => s \notin DOMAIN sessionToShip' \/ IsIn(Quit(s), batch')
    BY <1>1, <1>2 DEF Pipe, QuitOnItsWay, Gone
  <2> QED BY <2>1 DEF QuitOnItsWay, IsIn, Quit
<1> QED BY <1>3, <1>4 DEF Pipe

\* An action is taken from the drained ones: the next step in the pipeline.
LEMMA PipeApply ==
  ASSUME TypeOK, NEW s \in Sessions, Pipe(s),
         ApplyJoin \/ ApplyQuitUnbound \/ ApplyQuit \/ ApplyMoveAndShoot
  PROVE  Pipe(s)'
PROOF
<1> DEFINE a == Head(batch)
<1>1. /\ batch # << >> /\ batch' = Tail(batch)
      /\ UNCHANGED <<actionQueue, joined, client>>
  BY DEF ApplyJoin, ApplyQuitUnbound, ApplyQuit, ApplyMoveAndShoot, NextAction, envVars
<1>2. \A x : /\ IsIn(x, batch) <=> x = a \/ IsIn(x, batch')
             /\ AtMostOnce(x, batch) => AtMostOnce(x, batch') /\ (x = a => ~IsIn(x, batch'))
  BY <1>1, IsInTail DEF TypeOK
<1>3. a \in Actions
  BY <1>1 DEF TypeOK
<1>4. /\ a.session \in Sessions
      /\ a.type = "PlayerJoin" => a = Join(a.session)
      /\ a.type = "PlayerQuit" => a = Quit(a.session)
  BY <1>3, ActionFields
<1>5. /\ DOMAIN sessionToShip' \subseteq DOMAIN sessionToShip
      /\ a = Quit(s) => s \notin DOMAIN sessionToShip'
  <2>1. Quit(s).type = "PlayerQuit" /\ Quit(s).session = s
    BY DEF Quit
  <2>2. CASE ApplyJoin \/ ApplyMoveAndShoot
    <3>1. a.type # "PlayerQuit" /\ sessionToShip' = sessionToShip
      BY <2>2 DEF ApplyJoin, ApplyMoveAndShoot, NextAction
    <3> QED BY <2>1, <3>1
  <2>3. CASE ApplyQuit
    BY <2>1, <2>3 DEF ApplyQuit, Without
  <2>4. CASE ApplyQuitUnbound
    BY <2>1, <2>4 DEF ApplyQuitUnbound, Bound
  <2> QED BY <2>2, <2>3, <2>4
<1>6. CASE a = Join(s)
  <2>1. ApplyJoin /\ a.session = s
    BY <1>6 DEF ApplyJoin, ApplyQuitUnbound, ApplyQuit, ApplyMoveAndShoot, NextAction, Join
  <2>2. IsIn(Join(s), batch) /\ ~IsIn(Join(s), batch')
    BY <1>2, <1>6 DEF Pipe, OneJoin
  <2>3. ~IsIn(s, newPlayers) /\ ~IsIn(Join(s), actionQueue)
    BY <2>2 DEF Pipe, OneJoin
  <2>4. newPlayers' = Append(newPlayers, s)
    BY <2>1, <2>3 DEF ApplyJoin
  <2>5. AtMostOnce(s, newPlayers')
    BY <2>3, <2>4, IsInAppend DEF Pipe, OneJoin, TypeOK
  <2>6. s \in joined' /\ s \notin DOMAIN sessionToShip' /\ ~Gone(s)'
    BY <1>1, <1>5, <2>2 DEF Pipe, OneJoin, JoinPending, Gone
  <2>7. /\ AtMostOnce(Join(s), actionQueue') /\ AtMostOnce(Join(s), batch')
        /\ ~IsIn(Join(s), actionQueue') /\ ~IsIn(Join(s), batch')
    BY <1>1, <1>2, <2>2, <2>3 DEF Pipe, OneJoin
  <2>8. OneJoin(s)'
    BY <2>5, <2>6, <2>7 DEF OneJoin, JoinPending, IsIn, AtMostOnce, Join
  <2>9. QuitOnItsWay(s)'
    BY <2>6 DEF QuitOnItsWay
  <2> QED BY <2>8, <2>9 DEF Pipe
<1>7. CASE a # Join(s)
  <2>1. /\ IsIn(s, newPlayers') <=> IsIn(s, newPlayers)
        /\ AtMostOnce(s, newPlayers) => AtMostOnce(s, newPlayers')
    <3>1. CASE newPlayers' = newPlayers
      BY <3>1
    <3>2. CASE ApplyJoin /\ newPlayers' = Append(newPlayers, a.session)
      <4>1. a.session # s
        BY <1>4, <1>7, <3>2 DEF ApplyJoin, NextAction
      <4> QED BY <1>4, <3>2, <4>1, IsInAppend DEF TypeOK
    <3> QED BY <3>1, <3>2 DEF ApplyJoin, ApplyQuitUnbound, ApplyQuit, ApplyMoveAndShoot
  <2>2. IsIn(Join(s), batch') <=> IsIn(Join(s), batch)
    BY <1>2, <1>7
  <2>3. OneJoin(s)'
    <3>1. /\ AtMostOnce(Join(s), actionQueue') /\ AtMostOnce(Join(s), batch') /\ AtMostOnce(s, newPlayers')
          /\ IsIn(Join(s), actionQueue') => ~IsIn(Join(s), batch') /\ ~IsIn(s, newPlayers')
          /\ IsIn(Join(s), batch') => ~IsIn(s, newPlayers')
          /\ s \in DOMAIN sessionToShip' => s \in joined'
      BY <1>1, <1>2, <1>5, <2>1, <2>2 DEF Pipe, OneJoin
    <3>2. IsIn(Join(s), actionQueue') \/ IsIn(Join(s), batch') \/ IsIn(s, newPlayers')
            => s \in joined' /\ s \notin DOMAIN sessionToShip' /\ ~Gone(s)'
      BY <1>1, <1>5, <2>1, <2>2 DEF Pipe, OneJoin, JoinPending, Gone
    <3> QED BY <3>1, <3>2 DEF OneJoin, JoinPending, IsIn, AtMostOnce, Join
  <2>4. QuitOnItsWay(s)'
    <3>1. Gone(s)' => \/ s \notin DOMAIN sessionToShip'
                      \/ IsIn(Quit(s), actionQueue') \/ IsIn(Quit(s), batch')
      BY <1>1, <1>2, <1>5 DEF Pipe, QuitOnItsWay, Gone
    <3> QED BY <3>1 DEF QuitOnItsWay, IsIn, Quit
  <2> QED BY <2>3, <2>4 DEF Pipe
<1> QED BY <1>6, <1>7

\* spawnShips() takes the player out of the pipeline and binds it.
LEMMA PipeSpawn ==
  ASSUME TypeOK, NEW s \in Sessions, Pipe(s), SpawnShip
  PROVE  Pipe(s)'
PROOF
<1> DEFINE t == Head(newPlayers)
<1>1. /\ newPlayers # << >> /\ newPlayers' = Tail(newPlayers)
      /\ DOMAIN sessionToShip' = DOMAIN sessionToShip \cup {t}
      /\ UNCHANGED <<actionQueue, batch, joined, client>>
  BY DEF SpawnShip, envVars
<1>2. /\ IsIn(s, newPlayers) <=> s = t \/ IsIn(s, newPlayers')
      /\ AtMostOnce(s, newPlayers) => AtMostOnce(s, newPlayers') /\ (s = t => ~IsIn(s, newPlayers'))
  BY <1>1, IsInTail DEF TypeOK
<1>3. /\ AtMostOnce(Join(s), actionQueue') /\ AtMostOnce(Join(s), batch') /\ AtMostOnce(s, newPlayers')
      /\ IsIn(Join(s), actionQueue') => ~IsIn(Join(s), batch') /\ ~IsIn(s, newPlayers')
      /\ IsIn(Join(s), batch') => ~IsIn(s, newPlayers')
      /\ s \in DOMAIN sessionToShip' => s \in joined'
  BY <1>1, <1>2 DEF Pipe, OneJoin, JoinPending
<1>4. IsIn(Join(s), actionQueue') \/ IsIn(Join(s), batch') \/ IsIn(s, newPlayers')
        => s \in joined' /\ s \notin DOMAIN sessionToShip' /\ ~Gone(s)'
  BY <1>1, <1>2 DEF Pipe, OneJoin, JoinPending, Gone
<1>5. OneJoin(s)'
  BY <1>3, <1>4 DEF OneJoin, JoinPending, IsIn, AtMostOnce, Join
<1>6. Gone(s)' => \/ s \notin DOMAIN sessionToShip'
                  \/ IsIn(Quit(s), actionQueue') \/ IsIn(Quit(s), batch')
  BY <1>1, <1>2 DEF Pipe, OneJoin, JoinPending, QuitOnItsWay, Gone
<1>7. QuitOnItsWay(s)'
  BY <1>6 DEF QuitOnItsWay, IsIn, Quit
<1> QED BY <1>5, <1>7 DEF Pipe

-----------------------------------------------------------------------------
(* Every live ship has a session *)

\* DestroyedIds has the ids of flagged entities only.
LEMMA OnlyFlaggedDestroyed ==
  ASSUME Pool!PoolInv, NEW id \in DestroyedIds
  PROVE  Flagged(id)
PROOF
<1>1. PICK i \in Pool!DestroyedSlots : id = storage[i].id
  BY DEF DestroyedIds
<1>2. i \in Pool!EngagedSlots /\ storage[i].isDestroyed
  BY <1>1 DEF Pool!DestroyedSlots, Pool!EngagedSlots
<1>3. Find(id) = storage[i]
  BY <1>1, <1>2, FindFacts
<1> QED BY <1>2, <1>3 DEF Flagged, Pool!EngagedSlots, Pool!Engaged

\* Live ships keep their sessions as long as no binding to one is dropped.
LEMMA ShipsKeepSessions ==
  ASSUME NEW id, ShipHasSession(id),
         Find(id)' # Nullopt /\ Find(id)'.type = "Ship" /\ ~Find(id)'.isDestroyed =>
           /\ Find(id) # Nullopt /\ Find(id).type = "Ship" /\ ~Find(id).isDestroyed
           /\ \A s \in DOMAIN sessionToShip :
                sessionToShip[s] = id => s \in DOMAIN sessionToShip' /\ sessionToShip'[s] = id
  PROVE  ShipHasSession(id)'
  BY DEF ShipHasSession, Find, Pool!FindByEntityID

\* acquire() for a bullet or an asteroid adds no ship.
LEMMA ShipsAcquire ==
  ASSUME Pool!PoolInv, NEW id, ShipHasSession(id), NEW t \in {"Bullet", "Asteroid"},
         Pool!Acquire(t), UNCHANGED sessionToShip
  PROVE  ShipHasSession(id)'
PROOF
<1>1. t \in EntityTypes
  BY DEF EntityTypes
<1>2. Find(id)' = IF id = nextId THEN Pool!FreshEntity(t) ELSE Find(id)
  BY <1>1, AcquireFinds
<1>3. Pool!FreshEntity(t).type # "Ship"
  BY DEF Pool!FreshEntity
<1> QED BY <1>2, <1>3, ShipsKeepSessions

\* Flagging makes no ship live.
LEMMA ShipsMark ==
  ASSUME Pool!PoolInv, NEW id, ShipHasSession(id), NEW S \in SUBSET Pool!EngagedSlots,
         Pool!MarkDestroyed(S), UNCHANGED sessionToShip
  PROVE  ShipHasSession(id)'
  BY MarkFinds, ShipsKeepSessions

\* PlayerQuit unbinds the session and flags its ship.
LEMMA ShipsQuit ==
  ASSUME Pool!PoolInv, BindInv, NEW id, ShipHasSession(id), ApplyQuit
  PROVE  ShipHasSession(id)'
PROOF
<1> DEFINE s == Head(batch).session
           ship == sessionToShip[s]
           D == {SlotOf(ship)}
<1>1. s \in DOMAIN sessionToShip
  BY DEF ApplyQuit, Bound
<1>2. Find(ship) # Nullopt
  BY <1>1 DEF BindInv, BindingsResolve, Find
<1>3. D \in SUBSET Pool!EngagedSlots
  BY <1>2, FindFacts
<1>4. Pool!MarkDestroyed(D)
  BY <1>2 DEF ApplyQuit, Find
<1>5. /\ DOMAIN sessionToShip' = DOMAIN sessionToShip \ {s}
      /\ \A x \in DOMAIN sessionToShip' : sessionToShip'[x] = sessionToShip[x]
  BY DEF ApplyQuit, Without
<1>6. /\ Find(id) = Nullopt => Find(id)' = Nullopt
      /\ Find(id) # Nullopt =>
           /\ Find(id)'.type = Find(id).type
           /\ Find(id)'.isDestroyed <=> Find(id).isDestroyed \/ SlotOf(id) \in D
  BY <1>3, <1>4, MarkFinds
<1>7. CASE id = ship
  <2>1. Find(id)'.isDestroyed
    BY <1>2, <1>6, <1>7
  <2> QED BY <2>1, ShipsKeepSessions
<1>8. CASE id # ship
  <2>1. \A x \in DOMAIN sessionToShip :
          sessionToShip[x] = id => x \in DOMAIN sessionToShip' /\ sessionToShip'[x] = id
    BY <1>5, <1>8
  <2> QED BY <1>6, <2>1, ShipsKeepSessions
<1> QED BY <1>7, <1>8

\* reapDestroyedShips() drops the binding of no ship that stays.
LEMMA ShipsReap ==
  ASSUME Pool!PoolInv, NEW id, ShipHasSession(id), ReapDestroyedShips
  PROVE  ShipHasSession(id)'
PROOF
<1>1. /\ DOMAIN sessionToShip' = DOMAIN sessionToShip \ LostShip
      /\ \A s \in DOMAIN sessionToShip' : sessionToShip'[s] = sessionToShip[s]
      /\ Pool!RecycleDestroyed
  BY DEF ReapDestroyedShips, Without
<1>2. Find(id)' = IF Flagged(id) THEN Nullopt ELSE Find(id)
  BY <1>1, RecycleFinds
<1>3. ~Flagged(id) => \A s \in LostShip : sessionToShip[s] # id
  BY OnlyFlaggedDestroyed DEF LostShip
<1> QED BY <1>1, <1>2, <1>3, ShipsKeepSessions

\* spawnShips(): the new ship has its player, and no player loses a ship to it.
LEMMA ShipsSpawn ==
  ASSUME TypeOK, Pool!PoolInv, \A s \in Sessions : Pipe(s), NEW id, ShipHasSession(id), SpawnShip
  PROVE  ShipHasSession(id)'
PROOF
<1> DEFINE t == Head(newPlayers)
           new == nextId
<1>1. /\ newPlayers # << >>
      /\ DOMAIN sessionToShip' = DOMAIN sessionToShip \cup {t}
      /\ \A x \in DOMAIN sessionToShip' : sessionToShip'[x] = IF x = t THEN new ELSE sessionToShip[x]
      /\ Pool!Acquire("Ship")
  BY DEF SpawnShip
<1>2. Find(id)' = IF id = new THEN Pool!FreshEntity("Ship") ELSE Find(id)
  BY <1>1, AcquireFinds DEF EntityTypes
<1>3. t \notin DOMAIN sessionToShip
  <2>1. t \in Sessions
    BY <1>1 DEF TypeOK
  <2>2. IsIn(t, newPlayers)
    BY <1>1, IsInTail DEF TypeOK
  <2> QED BY <2>1, <2>2 DEF Pipe, OneJoin, JoinPending
<1>4. CASE id = new
  <2>1. t \in DOMAIN sessionToShip' /\ sessionToShip'[t] = id
    BY <1>1, <1>4
  <2> QED BY <2>1 DEF ShipHasSession
<1>5. CASE id # new
  <2>1. \A x \in DOMAIN sessionToShip : x \in DOMAIN sessionToShip' /\ sessionToShip'[x] = sessionToShip[x]
    BY <1>1, <1>3
  <2> QED BY <1>2, <1>5, <2>1, ShipsKeepSessions
<1> QED BY <1>4, <1>5

-----------------------------------------------------------------------------
(* The world as long as nothing went wrong *)

\* Only the processing of the queue has drained actions.
LEMMA BatchNext ==
  ASSUME BatchInInput, [Next]_vars
  PROVE  BatchInInput'
PROOF
<1>1. CASE UpdatePhysics \/ DrainInput \/ TickThrows
  BY <1>1, Zenon DEF BatchInInput, UpdatePhysics, DrainInput, TickThrows
<1>2. CASE ApplyJoin \/ ApplyQuitUnbound \/ ApplyQuit \/ ApplyMoveAndShoot
  BY <1>2, Zenon DEF BatchInInput, ApplyJoin, ApplyQuitUnbound, ApplyQuit, ApplyMoveAndShoot, NextAction
<1>3. CASE ReapDestroyedShips \/ AsteroidsDone \/ BroadcastSnapshot
  <2>1. batch' = batch /\ stage \in {"collide", "asteroids", "spawn"}
    BY <1>3 DEF ReapDestroyedShips, AsteroidsDone, BroadcastSnapshot
  <2> QED BY <2>1 DEF BatchInInput
<1>4. CASE UNCHANGED <<stage, batch>>
  BY <1>4 DEF BatchInInput
<1>5. ASSUME \/ AddAsteroid \/ SpawnShip \/ DropQueue \/ UNCHANGED vars
             \/ \E i, j \in Pool!Slots : Collide(i, j)
             \/ \E s \in Sessions :
                  \/ OnPlayerJoin(s) \/ OnShotReceived(s) \/ OnClientDisconnected(s)
                  \/ \E a \in Angles : OnPlayerMove(s, a)
      PROVE  UNCHANGED <<stage, batch>>
  BY <1>5, Zenon DEF AddAsteroid, SpawnShip, DropQueue, tickVars, vars, Collide, OnPlayerJoin,
     OnShotReceived, OnClientDisconnected, OnPlayerMove, EnqueueAction
<1> QED BY <1>1, <1>2, <1>3, <1>4, <1>5 DEF Next, Tick

\* A callback, if nothing is wrong about it.
LEMMA OrderlyCallback ==
  ASSUME TypeOK, \A s \in Sessions : Pipe(s), faults = 0, faults' = 0,
         NEW t \in Sessions,
         \/ OnPlayerJoin(t) \/ OnShotReceived(t) \/ OnClientDisconnected(t)
         \/ \E a \in Angles : OnPlayerMove(t, a),
         NEW s \in Sessions
  PROVE  Pipe(s)'
PROOF
<1>0. 0 \in Angles /\ TRUE \in BOOLEAN /\ FALSE \in BOOLEAN
  BY WorldAssumption
<1>1. CASE OnPlayerJoin(t)
  <2>1. /\ EnqueueAction(Join(t)) /\ joined' = joined \cup {t} /\ client' = client
        /\ ~Gone(t) /\ t \notin joined
    BY <1>1 DEF OnPlayerJoin, Fault
  <2>2. (Join(t) = Join(s) <=> t = s) /\ Join(s) # Quit(s)
    BY <1>0, ActionsDiffer
  <2>3. Join(t) \in Actions
    BY <1>0, ActionTypes
  <2>4. Gone(s)' => Gone(s)
    BY <2>1 DEF Gone
  <2> QED BY <2>1, <2>2, <2>3, <2>4, PipeEnqueue
<1>2. ASSUME NEW a \in Angles, NEW b \in BOOLEAN, EnqueueAction(MoveAndShoot(t, a, b)),
             UNCHANGED <<joined, client>>
      PROVE  Pipe(s)'
  <2>1. MoveAndShoot(t, a, b) # Join(s) /\ Join(s) # Quit(s)
    BY ActionsDiffer
  <2>2. MoveAndShoot(t, a, b) \in Actions
    BY <1>0, ActionTypes
  <2>3. Gone(s)' => Gone(s)
    BY <1>2 DEF Gone
  <2> QED BY <1>2, <2>1, <2>2, <2>3, PipeEnqueue
<1>3. CASE OnClientDisconnected(t)
  <2>1. /\ EnqueueAction(Quit(t)) /\ joined' = joined /\ client' = [client EXCEPT ![t] = "gone"]
        /\ ~JoinPending(t)
    BY <1>3 DEF OnClientDisconnected, Fault
  <2>2. Quit(t) # Join(s) /\ Join(s) # Quit(s)
    BY <1>0, ActionsDiffer
  <2>3. Quit(t) \in Actions
    BY <1>0, ActionTypes
  <2>4. Gone(s)' => Gone(s) \/ s = t
    BY <2>1 DEF Gone, TypeOK
  <2> QED BY <2>1, <2>2, <2>3, <2>4, PipeEnqueue
<1> QED BY <1>0, <1>1, <1>2, <1>3 DEF OnShotReceived, OnPlayerMove

\* A session is in order after every step that nothing is wrong about.
LEMMA PipeNext ==
  ASSUME TypeOK, BatchInInput, \A s \in Sessions : Pipe(s), faults = 0, faults' = 0, [Next]_vars,
         NEW s \in Sessions
  PROVE  Pipe(s)'
PROOF
<1>1. CASE DrainInput
  BY <1>1, PipeDrain DEF BatchInInput, DrainInput
<1>2. CASE ApplyJoin \/ ApplyQuitUnbound \/ ApplyQuit \/ ApplyMoveAndShoot
  BY <1>2, PipeApply
<1>3. CASE SpawnShip
  BY <1>3, PipeSpawn
<1>4. CASE ReapDestroyedShips
  BY <1>4, PipeUntouched DEF ReapDestroyedShips, Without, envVars
<1>5. CASE \/ UpdatePhysics \/ AddAsteroid \/ AsteroidsDone \/ BroadcastSnapshot \/ UNCHANGED vars
           \/ \E i, j \in Pool!Slots : Collide(i, j)
  <2>1. UNCHANGED <<actionQueue, batch, newPlayers, joined, client, sessionToShip>>
    BY <1>5, Zenon DEF UpdatePhysics, AddAsteroid, AsteroidsDone, BroadcastSnapshot, Collide, vars, envVars
  <2> QED BY <2>1, PipeUntouched
<1>6. ~(TickThrows \/ DropQueue)
  BY DEF TickThrows, DropQueue, Fault
<1> QED BY <1>1, <1>2, <1>3, <1>4, <1>5, <1>6, OrderlyCallback DEF Next, Tick

\* A live ship has a session after every step that nothing is wrong about.
LEMMA ShipsNext ==
  ASSUME TypeOK, Pool!PoolInv, BindInv, \A s \in Sessions : Pipe(s), [Next]_vars,
         NEW id, ShipHasSession(id)
  PROVE  ShipHasSession(id)'
PROOF
<1>1. CASE ApplyQuit
  BY <1>1, ShipsQuit
<1>2. CASE ReapDestroyedShips
  BY <1>2, ShipsReap
<1>3. CASE SpawnShip
  BY <1>3, ShipsSpawn
<1>4. CASE ApplyMoveAndShoot \/ AddAsteroid
  <2>1. UNCHANGED sessionToShip /\ (UNCHANGED pool \/ Pool!Acquire("Bullet") \/ Pool!Acquire("Asteroid"))
    BY <1>4, Zenon DEF ApplyMoveAndShoot, AddAsteroid
  <2>2. CASE UNCHANGED pool
    BY <2>1, <2>2 DEF ShipHasSession, Find, Pool!FindByEntityID, pool
  <2> QED BY <2>1, <2>2, ShipsAcquire
<1>5. CASE UpdatePhysics
  <2>1. LiveSlots("Bullet") \subseteq Pool!EngagedSlots
    BY DEF LiveSlots, Pool!IsActive, Pool!EngagedSlots
  <2> QED BY <1>5, <2>1, ShipsMark DEF UpdatePhysics
<1>6. ASSUME NEW i \in Pool!Slots, NEW j \in Pool!Slots, Collide(i, j)
      PROVE  ShipHasSession(id)'
  <2>1. PICK D \in CollisionOutcomes(i, j) : Pool!MarkDestroyed(D)
    BY <1>6 DEF Collide
  <2>2. i \in Pool!EngagedSlots /\ j \in Pool!EngagedSlots
    BY <1>6 DEF Collide, Pool!IsActive, Pool!EngagedSlots
  <2>3. D \in SUBSET Pool!EngagedSlots
    BY <2>2, OutcomeOfPair
  <2> QED BY <1>6, <2>1, <2>3, ShipsMark DEF Collide
<1>7. CASE BroadcastSnapshot
  <2>1. Find(id)' = (IF Flagged(id) THEN Nullopt ELSE Find(id)) /\ UNCHANGED sessionToShip
    BY <1>7, RecycleFinds DEF BroadcastSnapshot
  <2> QED BY <2>1, ShipsKeepSessions
<1>8. CASE UNCHANGED <<pool, sessionToShip>>
  BY <1>8 DEF ShipHasSession, Find, Pool!FindByEntityID, pool
<1>9. ASSUME \/ DrainInput \/ ApplyJoin \/ ApplyQuitUnbound \/ AsteroidsDone \/ TickThrows \/ DropQueue
             \/ UNCHANGED vars
             \/ \E s \in Sessions :
                  \/ OnPlayerJoin(s) \/ OnShotReceived(s) \/ OnClientDisconnected(s)
                  \/ \E a \in Angles : OnPlayerMove(s, a)
      PROVE  UNCHANGED <<pool, sessionToShip>>
  BY <1>9, Zenon DEF DrainInput, ApplyJoin, ApplyQuitUnbound, AsteroidsDone, TickThrows, DropQueue, tickVars,
     vars, OnPlayerJoin, OnShotReceived, OnClientDisconnected, OnPlayerMove, EnqueueAction
<1> QED BY <1>1, <1>2, <1>3, <1>4, <1>5, <1>6, <1>7, <1>8, <1>9 DEF Next, Tick

\* No step takes a fault back.
LEMMA FaultsStay ==
  ASSUME TypeOK, [Next]_vars, faults' = 0
  PROVE  faults = 0
PROOF
<1>1. faults \in Nat
  BY DEF TypeOK
<1>2. UNCHANGED faults \/ \E wrong : Fault(wrong)
  <2>1. CASE \E s \in Sessions :
               \/ OnPlayerJoin(s) \/ OnShotReceived(s) \/ OnClientDisconnected(s)
               \/ \E a \in Angles : OnPlayerMove(s, a)
    BY <2>1, Zenon DEF OnPlayerJoin, OnShotReceived, OnClientDisconnected, OnPlayerMove
  <2>2. CASE TickThrows \/ DropQueue
    BY <2>2, Zenon DEF TickThrows, DropQueue
  <2>3. CASE UNCHANGED vars
    BY <2>3, Zenon DEF vars
  <2>4. CASE Tick /\ ~TickThrows
    BY <2>4, Zenon DEF Tick, DrainInput, ApplyJoin, ApplyQuitUnbound, ApplyQuit, ApplyMoveAndShoot, NextAction,
       UpdatePhysics, Collide, ReapDestroyedShips, AddAsteroid, AsteroidsDone, SpawnShip, BroadcastSnapshot,
       envVars
  <2> QED BY <2>1, <2>2, <2>3, <2>4, Zenon DEF Next
<1> QED BY <1>1, <1>2 DEF Fault

\* Every step keeps the invariant of the world.
LEMMA WorldNext == WorldInv /\ [Next]_vars => WorldInv'
PROOF
<1> SUFFICES ASSUME WorldInv, [Next]_vars
             PROVE  WorldInv'
  OBVIOUS
<1>1. TypeOK' /\ Pool!PoolInv' /\ BindInv' /\ BatchInInput'
  BY TypeNext, StepIsPoolStep, PoolInvKept, BindNext, BatchNext DEF WorldInv
<1>2. ASSUME faults' = 0
      PROVE  /\ \A s \in Sessions : Pipe(s)'
             /\ \A id \in 1 .. (nextId' - 1) : ShipHasSession(id)'
  <2>1. faults = 0
    BY <1>2, FaultsStay DEF WorldInv
  <2>2. /\ \A s \in Sessions : Pipe(s)
        /\ \A id \in 1 .. (nextId - 1) : ShipHasSession(id)
    BY <2>1 DEF WorldInv, Orderly
  <2>3. \A id : ShipHasSession(id)
    BY <2>2, FindFacts DEF WorldInv, ShipHasSession
  <2>4. \A s \in Sessions : Pipe(s)'
    BY <1>2, <2>1, <2>2, PipeNext DEF WorldInv
  <2>5. \A id : ShipHasSession(id)'
    BY <2>2, <2>3, ShipsNext DEF WorldInv
  <2> QED BY <2>4, <2>5
<1>3. Orderly'
  BY <1>2 DEF Orderly
<1> QED BY <1>1, <1>3 DEF WorldInv

\* A new world satisfies it.
LEMMA WorldInit == Init => WorldInv
PROOF
<1> SUFFICES ASSUME Init
             PROVE  WorldInv
  OBVIOUS
<1>1. TypeOK /\ Pool!PoolInv /\ BindInv
  BY TypeInit, PoolInvInit, BindInit DEF Init
<1>2. BatchInInput
  BY DEF Init, BatchInInput
<1>3. \A s \in Sessions : Pipe(s)
  BY DEF Init, Pipe, OneJoin, QuitOnItsWay, JoinPending, IsIn, AtMostOnce, Gone
<1>4. 1 .. (nextId - 1) = {}
  BY DEF Init, Pool!Init
<1> QED BY <1>1, <1>2, <1>3, <1>4 DEF WorldInv, Orderly

\* The inductive invariant of the world.
THEOREM WorldCorrect == Spec => []WorldInv
  BY WorldInit, WorldNext, PTL DEF Spec

\* Between ticks every live ship belongs to a session, and a session whose
\* PlayerQuit was handled has none, as long as nothing went wrong.
THEOREM ShipsAgree == Spec => []ShipsAndSessionsAgree
PROOF
<1>1. ASSUME WorldInv, stage = "idle", faults = 0
      PROVE  /\ \A i \in LiveSlots("Ship") :
                  \E s \in DOMAIN sessionToShip : sessionToShip[s] = storage[i].id
             /\ \A s \in Sessions :
                  Gone(s) /\ ~IsIn(Quit(s), actionQueue) => s \notin DOMAIN sessionToShip
  <2>1. ASSUME NEW i \in LiveSlots("Ship")
        PROVE  \E s \in DOMAIN sessionToShip : sessionToShip[s] = storage[i].id
    <3>1. i \in Pool!EngagedSlots /\ storage[i].type = "Ship" /\ ~storage[i].isDestroyed
      BY <2>1 DEF LiveSlots, Pool!IsActive, Pool!EngagedSlots
    <3>2. Find(storage[i].id) = storage[i] /\ storage[i] # Nullopt
      BY <1>1, <3>1, FindFacts DEF WorldInv, Pool!EngagedSlots, Pool!Engaged
    <3>3. storage[i].id \in 1 .. (nextId - 1)
      BY <1>1, <3>1 DEF WorldInv, Pool!PoolInv, Pool!IdsUnique
    <3> QED BY <1>1, <3>1, <3>2, <3>3 DEF WorldInv, Orderly, ShipHasSession
  <2>2. ASSUME NEW s \in Sessions, Gone(s), ~IsIn(Quit(s), actionQueue)
        PROVE  s \notin DOMAIN sessionToShip
    <3>1. ~IsIn(Quit(s), batch)
      BY <1>1 DEF WorldInv, BatchInInput, IsIn
    <3> QED BY <1>1, <2>2, <3>1 DEF WorldInv, Orderly, Pipe, QuitOnItsWay
  <2> QED BY <2>1, <2>2
<1>2. WorldInv => ShipsAndSessionsAgree
  BY <1>1 DEF ShipsAndSessionsAgree
<1> QED BY <1>2, WorldCorrect, PTL

=============================================================================
