------------------------------- MODULE Arena -------------------------------
(***************************************************************************)
(* The contents of the world (src/src/server/world_instance.cpp): what the *)
(* stages of a tick do to the health, mass and score of the entities, how  *)
(* AsteroidFactory keeps the population up, and the packet that the tick   *)
(* broadcasts.  World has the same stages with the sessions.               *)
(*                                                                         *)
(* Positions are left out: which pairs touch is chosen freely, and so is   *)
(* whether there is room for asteroids.                                    *)
(***************************************************************************)
EXTENDS Rules, Snapshot

CONSTANTS Nullopt,           \* an empty slot
          AsteroidsWeight,   \* MIN_ASTEROIDS_WEIGHT: weight up to which asteroids are added
          MinWeight,         \* MIN_ASTEROID_WEIGHT
          MaxWeight,         \* MAX_ASTEROID_WEIGHT
          Words,             \* the tick numbers of packets, modulo 2^32
          MaxShips,          \* bound: ships that live at the same time
          MaxSlots,          \* bound: slots of the pool
          MaxId              \* bound: entities created in all

ASSUME ArenaAssumption ==
  /\ MaxShips \in Nat /\ MaxSlots \in Nat /\ Words \subseteq Nat /\ MaxId \in Nat
  /\ {MinWeight, MaxWeight, AsteroidsWeight} \subseteq Nat \ {0} /\ MinWeight <= MaxWeight

\* A new ship weighs less than six of the heaviest asteroids (78.54 and 80), and a
\* ship as wide as the world would weigh more (the default world is 400 times as
\* wide as the radius of a new ship).
ASSUME GrowthAssumption ==
  /\ ShipMass < 6 * MaxWeight
  /\ 4 * 6 * MaxWeight <= ShipMass * WorldSize * WorldSize

VARIABLES storage, freeIndices, nextId,  \* entities_
          stage,     \* the stage of runTickStep() that comes next
          lastPair,  \* the pair of slots resolveCollisions() did last
          packet,    \* the payload of the last broadcast, until the next tick
          credits    \* for the entities in the pool, by id: hits of a bullet, rewards for the
                     \* death of a ship

pool == <<storage, freeIndices, nextId>>

vars == <<pool, stage, lastPair, packet, credits>>

Slots == DOMAIN storage

Engaged == {i \in Slots : storage[i] # Nullopt}

Active(i) == i \in Engaged /\ ~storage[i].isDestroyed

Live(type) == {i \in Slots : Active(i) /\ storage[i].type = type}

Init ==
  /\ storage = << >> /\ freeIndices = << >> /\ nextId = 1
  /\ stage = "idle" /\ lastPair = <<0, 0>>
  /\ packet = << >>
  /\ credits = [k \in {} |-> 0]

\* The slot of the k-th of several acquire()s in a row: the one freed last that is
\* left, or else a new one.
SlotFor(k) ==
  IF k <= Len(freeIndices) THEN freeIndices[Len(freeIndices) + 1 - k]
                           ELSE Len(storage) + k - Len(freeIndices)

\* acquire() for each of the entities es.
Acquire(es) ==
  LET grown == Max({Len(storage), Len(storage) + Len(es) - Len(freeIndices)})
  IN  /\ nextId + Len(es) <= MaxId + 1 /\ grown <= MaxSlots
      /\ nextId' = nextId + Len(es)
      /\ freeIndices' = SubSeq(freeIndices, 1, Max({0, Len(freeIndices) - Len(es)}))
      /\ storage' = [i \in 1 .. grown |->
                       IF \E k \in DOMAIN es : SlotFor(k) = i
                         THEN es[CHOOSE k \in DOMAIN es : SlotFor(k) = i] ELSE storage[i]]

Flag(S) == storage' = [i \in Slots |-> IF i \in S THEN [storage[i] EXCEPT !.isDestroyed = TRUE]
                                                  ELSE storage[i]]

Ascends(s) == \A j, k \in DOMAIN s : j < k => s[j] < s[k]

\* recycleDestroyed()
RecycleDestroyed ==
  LET dead == {i \in Engaged : storage[i].isDestroyed}
  IN  /\ storage' = [i \in Slots |-> IF i \in dead THEN Nullopt ELSE storage[i]]
      /\ \E freed \in [1 .. Cardinality(dead) -> dead] :
           Ascends(freed) /\ freeIndices' = freeIndices \o freed
      /\ credits' = Restrict(credits, DOMAIN credits \ {storage[i].id : i \in dead})
      /\ UNCHANGED nextId

-----------------------------------------------------------------------------
(* Stages of a tick *)

\* processInputQueue(), which begins a tick.
Input ==
  /\ stage \in {"idle", "input"}
  /\ packet' = << >>
  /\ UNCHANGED <<lastPair, credits>>

\* MoveAndShoot of a ship's player.
Shoot(i) ==
  /\ Input /\ stage' = "input"
  /\ i \in Live("Ship")
  /\ Acquire(<<NewBullet(nextId, storage[i].id)>>)

\* PlayerQuit of a ship's player.
Quit(i) ==
  /\ Input /\ stage' = "input"
  /\ i \in Live("Ship")
  /\ Flag({i})
  /\ UNCHANGED <<freeIndices, nextId>>

\* updatePhysics(), once the input is done: bullets that leave the world are flagged.
UpdatePhysics ==
  /\ Input /\ stage' = "collide"
  /\ \E S \in SUBSET Live("Bullet") : Flag(S)
  /\ UNCHANGED <<freeIndices, nextId>>

\* The pairs of slots are visited in lexicographic order; both entities must be
\* live when theirs is.  Pairs that do not touch, or whose collision changes
\* nothing, leave no trace here.
Visit(i, j) ==
  LET pair == IF i < j THEN <<i, j>> ELSE <<j, i>>
  IN  /\ stage = "collide" /\ Active(i) /\ Active(j)
      /\ lastPair[1] < pair[1] \/ (lastPair[1] = pair[1] /\ lastPair[2] < pair[2])
      /\ lastPair' = pair
      /\ UNCHANGED <<freeIndices, nextId, stage, packet>>

Credit(ids) ==
  credits' = [k \in DOMAIN credits \cup ids |->
                (IF k \in DOMAIN credits THEN credits[k] ELSE 0) + (IF k \in ids THEN 1 ELSE 0)]

CollideShips(i, j) ==
  /\ i < j /\ {i, j} \subseteq Live("Ship") /\ Visit(i, j)
  /\ LET after == ShipShip(storage[i], storage[j])
     IN  /\ storage' = [storage EXCEPT ![i] = after[1], ![j] = after[2]]
         /\ Credit({after[k].id : k \in {n \in 1 .. 2 : /\ after[n].isDestroyed
                                                        /\ ~after[3 - n].isDestroyed}})

\* edges: where the ship is, a circle as wide as the world touches opposite edges.
CollideShipAsteroid(i, j, edges) ==
  /\ i \in Live("Ship") /\ j \in Live("Asteroid") /\ Edible(storage[i], storage[j]) /\ Visit(i, j)
  /\ LET after == ShipAsteroid(storage[i], storage[j], edges)
     IN  storage' = [storage EXCEPT ![i] = after[1], ![j] = after[2]]
  /\ UNCHANGED credits

\* The owner is rewarded if it is still a live ship.
CollideBulletShip(b, i) ==
  /\ b \in Live("Bullet") /\ i \in Live("Ship") /\ Hits(storage[b], storage[i]) /\ Visit(b, i)
  /\ LET after   == BulletShip(storage[b], storage[i])
         killed  == after[2].isDestroyed
         shooter == {k \in Live("Ship") : storage[k].id = storage[b].owner}
     IN  /\ storage' = [k \in Slots |->
                          CASE k = b -> after[1]
                            [] k = i -> after[2]
                            [] k \in shooter -> RewardShooter(storage[k], killed)
                            [] OTHER -> storage[k]]
         /\ Credit({storage[b].id} \cup IF killed /\ shooter # {} THEN {storage[i].id} ELSE {})

\* reapDestroyedShips()
Reap ==
  /\ stage = "collide"
  /\ RecycleDestroyed
  /\ stage' = "asteroids" /\ lastPair' = <<0, 0>>
  /\ UNCHANGED packet

Total(weights) ==
  LET sum[n \in 0 .. Len(weights)] == IF n = 0 THEN 0 ELSE sum[n - 1] + weights[n]
  IN  sum[Len(weights)]

\* calculateCurrentWeight()
CurrentWeight == Total([i \in Slots |-> IF i \in Live("Asteroid") THEN storage[i].mass ELSE 0])

\* Mutant: the budget is not reduced by what is there.
GenerateFullWeight(current) ==
  {w \in SeqOf(MinWeight .. MaxWeight, MaxSlots) :
     \E drawn \in MinWeight .. AsteroidsWeight :
       Total(w) <= drawn /\ drawn - Total(w) < MinWeight}

\* generateAsteroidWeight(): a weight is drawn from what is left of the budget and
\* cut into asteroids until less than the smallest asteroid remains.
GenerateAsteroidWeight(current) ==
  {w \in SeqOf(MinWeight .. MaxWeight, MaxSlots) :
     \E drawn \in MinWeight .. (AsteroidsWeight - current) :
       Total(w) <= drawn /\ drawn - Total(w) < MinWeight}

\* AsteroidFactory::update()
UpdateAsteroids ==
  /\ stage = "asteroids" /\ CurrentWeight < AsteroidsWeight
  /\ \E w \in GenerateAsteroidWeight(CurrentWeight) :
       Acquire([k \in DOMAIN w |-> NewAsteroid(nextId + k - 1, w[k])])
  /\ stage' = "spawn"
  /\ UNCHANGED <<lastPair, packet, credits>>

\* Also when there are asteroids enough or no room for more (generatePositions()).
AsteroidsDone == stage \in {"asteroids", "spawn"}

\* spawnShips(), one new player.
SpawnShip ==
  /\ AsteroidsDone /\ Cardinality(Live("Ship")) < MaxShips
  /\ Acquire(<<NewShip(nextId)>>)
  /\ stage' = "spawn"
  /\ UNCHANGED <<lastPair, packet, credits>>

\* buildGameSnapshot() and broadcastSnapshot()
Broadcast(tick) ==
  /\ AsteroidsDone
  /\ \E leaderboard \in Leaderboards({storage[i] : i \in Engaged}) :
       packet' = Serialize(tick, leaderboard, EntitySnapshots(storage, Nullopt))
  /\ RecycleDestroyed
  /\ stage' = "idle"
  /\ UNCHANGED lastPair

Collide ==
  \E i, j \in Slots :
    \/ CollideShips(i, j)
    \/ \E edges \in BOOLEAN : CollideShipAsteroid(i, j, edges)
    \/ CollideBulletShip(i, j)

Next ==
  \/ \E i \in Slots : Shoot(i) \/ Quit(i)
  \/ UpdatePhysics
  \/ Collide
  \/ Reap
  \/ UpdateAsteroids
  \/ SpawnShip
  \/ \E tick \in Words : Broadcast(tick)

Spec == Init /\ [][Next]_vars

-----------------------------------------------------------------------------
(* Properties *)

\* Type invariant of the arena.
TypeOK ==
  /\ \A i \in Engaged :
       /\ storage[i].id \in 1 .. (nextId - 1) /\ storage[i].owner \in 0 .. (nextId - 1)
       /\ storage[i].type \in {"Ship", "Bullet", "Asteroid"}
       /\ storage[i].health \in 0 .. FullHealth /\ storage[i].score \in 0 .. MaxScore
       /\ storage[i].frags \in 0 .. MaxFrags
  /\ nextId \in 1 .. (MaxId + 1)
  /\ stage \in {"idle", "input", "collide", "asteroids", "spawn"}

\* A bullet hurts one ship, and the death of a ship is rewarded once, however many
\* entities touch each other in a tick (resolveCollisions() goes on with the pairs
\* of an entity after it was hit).
RewardedOnce == \A k \in DOMAIN credits : credits[k] <= 1

\* Ships stop growing: absorbing needs an asteroid of more than a fifth of the
\* ship's mass, so the mass stays below six times that of the heaviest asteroid.
\* The radius follows the mass, and no ship outgrows the world.
GrowthIsBounded ==
  \A i \in Engaged :
    storage[i].type = "Ship" =>
      /\ storage[i].mass < 6 * MaxWeight
      /\ MassForRadius(storage[i].radius) <= storage[i].mass
      /\ storage[i].mass < MassForRadius(2 * storage[i].radius)

\* The live asteroids never weigh more than MIN_ASTEROIDS_WEIGHT, which in spite of
\* its name is the budget, although ships absorb some of them between two updates.
AsteroidBudgetKept == CurrentWeight <= AsteroidsWeight

\* What a client that applies the packet of a tick knows is what the server has
\* between that tick and the next: exactly the live entities, each as it is; the
\* player's death screen is off if and only if its ship is among them; and a
\* leaderboard of the best live ships, the best first.
ClientSeesWorld ==
  packet # << >> =>
    \A me \in 1 .. MaxId :
      LET world == UpdateSnapshot(Deserialize(packet), me)
          board == world.leaderboard
          ships == {storage[i] : i \in Live("Ship")}
      IN  /\ {world.entities[k] : k \in DOMAIN world.entities} = {storage[i] : i \in Engaged}
          /\ IsMyPlayerAlive(world) <=> \E i \in Engaged : storage[i].id = me
          /\ Len(board) = Min({MaxLeaderboardSize, Cardinality(ships)})
          /\ \A k \in DOMAIN board :
               /\ \E e \in ships : e.id = board[k].name /\ e.score = board[k].score
               /\ \A e \in ships : (\A n \in 1 .. k : board[n].name # e.id) => e.score <= board[k].score

\* A packet that was cut short or continued is rejected as a whole.
DamagedPacketsRejected ==
  packet # << >> =>
    /\ \A n \in 0 .. (Len(packet) - 1) : Deserialize(SubSeq(packet, 1, n)) = Malformed
    /\ \A word \in Words : Deserialize(Append(packet, word)) = Malformed

=============================================================================
