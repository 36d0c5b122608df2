------------------------------- MODULE World -------------------------------
(***************************************************************************)
(* What one tick of WorldInstance does (src/src/server/world_instance.cpp) *)
(* to the entity pool and to the binding of sessions to ships, with the    *)
(* actions that the event-bus callbacks enqueue while it runs.             *)
(*                                                                         *)
(* The stages of a tick run one after the other on tick_strand_; only      *)
(* enqueueAction() happens beside them.  Geometry and health are left out: *)
(* which live pairs touch, and whom a hit kills, is chosen freely.         *)
(***************************************************************************)
EXTENDS Naturals, Sequences, FiniteSets

CONSTANTS Sessions,      \* session ids
          Angles,        \* headings a client may ask for; 0 is the default
          Nullopt,       \* an empty pool slot
          MaxActions,    \* bound: actions enqueued and faults (see below) in all
          MaxAsteroids   \* bound: asteroids created in all

ASSUME WorldAssumption ==
  /\ Angles \subseteq Nat /\ 0 \in Angles
  /\ MaxActions \in Nat /\ MaxAsteroids \in Nat

VARIABLES storage, freeIndices, idToIndices, nextId,  \* entities_
          owner,          \* combat.owner_id of each bullet, by entity id
          heading,        \* transform.angle of each ship, by entity id
          actionQueue,    \* action_queue_
          batch,          \* the drained actions still to be processed
          newPlayers,     \* new_players of the running tick
          sessionToShip,  \* session_to_ship_
          stage,          \* the stage of runTickStep() that comes next
          lastPair,       \* the pair of slots resolveCollisions() did last
          sent,           \* actions enqueued so far
          joined,         \* the sessions that have sent a JOIN
          client,         \* whether each session is still connected
          faults,         \* second JOINs, actions of sessions that have left, QUITs that
                          \* overtake their JOIN, stages that threw, dropped queues
          asteroids,      \* asteroids created so far
          fate            \* what the server last told or did to each session

MaxId == MaxActions + MaxAsteroids

EntityTypes == {"Ship", "Bullet", "Asteroid"}

Pool == INSTANCE EntityPool WITH EntityType <- EntityTypes

\* std::nullopt is not an entity.
ASSUME WorldNulloptAssumption == Nullopt \notin Pool!Entity

pool == <<storage, freeIndices, idToIndices, nextId>>

vars == <<pool, owner, heading, actionQueue, batch, newPlayers, sessionToShip,
          stage, lastPair, sent, joined, client, faults, asteroids, fate>>

tickVars == <<owner, heading, batch, newPlayers, sessionToShip, stage, lastPair, asteroids, fate>>

envVars == <<sent, joined, client, faults>>

Join(s) == [type |-> "PlayerJoin", session |-> s, angle |-> 0, shooting |-> FALSE]
Quit(s) == [type |-> "PlayerQuit", session |-> s, angle |-> 0, shooting |-> FALSE]
MoveAndShoot(s, a, b) == [type |-> "MoveAndShoot", session |-> s, angle |-> a, shooting |-> b]

\* PlayerAction: what the event-bus callbacks enqueue.
Actions ==
  {Join(s) : s \in Sessions} \cup {Quit(s) : s \in Sessions}
    \cup {MoveAndShoot(s, a, b) : s \in Sessions, a \in Angles, b \in BOOLEAN}

IsIn(x, seq) == \E k \in DOMAIN seq : seq[k] = x

Init ==
  /\ Pool!Init
  /\ owner = [i \in 1 .. MaxId |-> 0] /\ heading = [i \in 1 .. MaxId |-> 0]
  /\ actionQueue = << >> /\ batch = << >> /\ newPlayers = << >>
  /\ sessionToShip = [s \in {} |-> 0]
  /\ stage = "idle" /\ lastPair = <<0, 0>>
  /\ sent = 0 /\ joined = {} /\ faults = 0
  /\ client = [s \in Sessions |-> "connected"]
  /\ asteroids = 0
  /\ fate = [s \in Sessions |-> "none"]

-----------------------------------------------------------------------------
(* Event-bus callbacks: each enqueues one action *)

EnqueueAction(a) ==
  /\ sent + faults < MaxActions
  /\ sent' = sent + 1
  /\ actionQueue' = Append(actionQueue, a)
  /\ UNCHANGED <<pool, tickVars>>

\* Something goes wrong if wrong holds.
Fault(wrong) ==
  /\ faults' = IF wrong THEN faults + 1 ELSE faults
  /\ sent' + faults' <= MaxActions

\* A read that completes after the session was closed is still published, so
\* actions of a session can follow its PlayerQuit.
Gone(s) == client[s] = "gone"

\* The router passes every JOIN on, also a second one.
OnPlayerJoin(s) ==
  /\ EnqueueAction(Join(s))
  /\ joined' = joined \cup {s}
  /\ Fault(Gone(s) \/ s \in joined)
  /\ UNCHANGED client

\* A shot carries the default angle.
OnShotReceived(s) ==
  /\ EnqueueAction(MoveAndShoot(s, 0, TRUE))
  /\ Fault(Gone(s))
  /\ UNCHANGED <<joined, client>>

OnPlayerMove(s, a) ==
  /\ EnqueueAction(MoveAndShoot(s, a, FALSE))
  /\ Fault(Gone(s))
  /\ UNCHANGED <<joined, client>>

JoinPending(s) == IsIn(Join(s), actionQueue) \/ IsIn(Join(s), batch) \/ IsIn(s, newPlayers)

OnClientDisconnected(s) ==
  /\ ~Gone(s)
  /\ EnqueueAction(Quit(s))
  /\ client' = [client EXCEPT ![s] = "gone"]
  /\ Fault(JoinPending(s))
  /\ UNCHANGED joined

-----------------------------------------------------------------------------
(* Stages of a tick *)

\* processInputQueue(): drain the queue once.
DrainInput ==
  /\ stage = "idle"
  /\ batch' = actionQueue /\ actionQueue' = << >>
  /\ newPlayers' = << >>
  /\ stage' = "input"
  /\ UNCHANGED <<pool, owner, heading, sessionToShip, lastPair, asteroids, fate, envVars>>

NextAction(t) ==
  /\ stage = "input" /\ batch # << >> /\ Head(batch).type = t
  /\ batch' = Tail(batch)
  /\ UNCHANGED <<actionQueue, stage, lastPair, asteroids, envVars>>

\* Mutant: the join is lost.
ApplyJoinLost ==
  /\ NextAction("PlayerJoin")
  /\ UNCHANGED <<pool, owner, heading, newPlayers, sessionToShip, fate>>

\* PlayerJoin: remembered for spawnShips(), once per tick and session.
ApplyJoin ==
  /\ NextAction("PlayerJoin")
  /\ LET s == Head(batch).session
     IN  newPlayers' = IF IsIn(s, newPlayers) THEN newPlayers ELSE Append(newPlayers, s)
  /\ UNCHANGED <<pool, owner, heading, sessionToShip, fate>>

Bound(s) == s \in DOMAIN sessionToShip

SlotOf(id) == idToIndices[id]

Without(f, S) == [x \in DOMAIN f \ S |-> f[x]]

\* PlayerQuit of a session without a ship: nothing.
ApplyQuitUnbound ==
  /\ NextAction("PlayerQuit") /\ ~Bound(Head(batch).session)
  /\ UNCHANGED <<pool, owner, heading, newPlayers, sessionToShip, fate>>

\* Mutant: the ship of a player who quits is not flagged.
ApplyQuitKeepShip ==
  /\ NextAction("PlayerQuit") /\ Bound(Head(batch).session)
  /\ LET s == Head(batch).session
     IN  /\ sessionToShip' = Without(sessionToShip, {s})
         /\ fate' = [fate EXCEPT ![s] = "left"]
  /\ UNCHANGED <<pool, owner, heading, newPlayers>>

\* Mutant: the ship's slot is emptied behind the pool's back.
ApplyQuitEmptiesSlot ==
  /\ NextAction("PlayerQuit") /\ Bound(Head(batch).session)
  /\ LET s    == Head(batch).session
         ship == sessionToShip[s]
     IN  /\ storage' = [storage EXCEPT ![SlotOf(ship)] = Nullopt]
         /\ sessionToShip' = Without(sessionToShip, {s})
         /\ fate' = [fate EXCEPT ![s] = "left"]
  /\ UNCHANGED <<freeIndices, idToIndices, nextId, owner, heading, newPlayers>>

\* PlayerQuit: flag the ship if the pool still has it, drop the binding.
ApplyQuit ==
  /\ NextAction("PlayerQuit") /\ Bound(Head(batch).session)
  /\ LET s    == Head(batch).session
         ship == sessionToShip[s]
     IN  /\ IF Pool!FindByEntityID(ship) # Nullopt
              THEN Pool!MarkDestroyed({SlotOf(ship)})
              ELSE UNCHANGED pool
         /\ sessionToShip' = Without(sessionToShip, {s})
         /\ fate' = [fate EXCEPT ![s] = "left"]
  /\ UNCHANGED <<owner, heading, newPlayers>>

\* MoveAndShoot: turn the ship to the action's angle and, if it shoots, acquire
\* a bullet owned by the ship.  Ignored for a session without a ship.
ApplyMoveAndShoot ==
  /\ NextAction("MoveAndShoot")
  /\ LET a    == Head(batch)
         ship == sessionToShip[a.session]
     IN  IF Bound(a.session) /\ Pool!FindByEntityID(ship) # Nullopt
           THEN /\ heading' = [heading EXCEPT ![ship] = a.angle]
                /\ IF a.shooting
                     THEN Pool!Acquire("Bullet") /\ owner' = [owner EXCEPT ![nextId] = ship]
                     ELSE UNCHANGED <<pool, owner>>
           ELSE UNCHANGED <<pool, owner, heading>>
  /\ UNCHANGED <<newPlayers, sessionToShip, fate>>

LiveSlots(t) == {i \in Pool!Slots : Pool!IsActive(i) /\ storage[i].type = t}

\* updatePhysics(): bullets that leave the world are flagged.
UpdatePhysics ==
  /\ stage = "input" /\ batch = << >>
  /\ \E S \in SUBSET LiveSlots("Bullet") : Pool!MarkDestroyed(S)
  /\ stage' = "collide"
  /\ UNCHANGED <<owner, heading, actionQueue, batch, newPlayers, sessionToShip, lastPair,
                 asteroids, fate, envVars>>

\* The slots a collision may flag.  Two ships: those whose health runs out.
ShipShip(i, j) == SUBSET {i, j}

\* Ship and asteroid: the asteroid when the ship absorbs its mass, ...
Absorbs(asteroid) == {{}, {asteroid}}

\* ... and then the ship too when it would outgrow the world.
ShipAsteroid(ship, asteroid) ==
  Absorbs(asteroid) \cup {D \cup {ship} : D \in Absorbs(asteroid) \ {{}}}

\* Bullet and ship: nothing for a ship's own bullet, else the bullet and, if its
\* health runs out, the ship.
BulletShip(bullet, ship) ==
  IF owner[storage[bullet].id] = storage[ship].id THEN {{}} ELSE {{bullet}, {bullet, ship}}

\* dispatchCollision(); the pairs that mayCollide() rejects, and a bullet that
\* meets an asteroid, have no effect.
CollisionOutcomes(i, j) ==
  LET a == storage[i].type
      b == storage[j].type
  IN  CASE a = "Ship" /\ b = "Ship"     -> ShipShip(i, j)
        [] a = "Ship" /\ b = "Asteroid" -> ShipAsteroid(i, j)
        [] a = "Asteroid" /\ b = "Ship" -> ShipAsteroid(j, i)
        [] a = "Bullet" /\ b = "Ship"   -> BulletShip(i, j)
        [] a = "Ship" /\ b = "Bullet"   -> BulletShip(j, i)
        [] OTHER                        -> {{}}

\* resolveCollisions() visits the pairs of live slots in lexicographic order.
Later(p, q) == p[1] < q[1] \/ (p[1] = q[1] /\ p[2] < q[2])

\* One colliding pair.  Pairs that do not touch, or whose collision flags
\* nobody, leave no trace here.
Collide(i, j) ==
  /\ stage = "collide" /\ i < j /\ Later(lastPair, <<i, j>>)
  /\ Pool!IsActive(i) /\ Pool!IsActive(j)
  /\ \E D \in CollisionOutcomes(i, j) \ {{}} : Pool!MarkDestroyed(D)
  /\ lastPair' = <<i, j>>
  /\ UNCHANGED <<owner, heading, actionQueue, batch, newPlayers, sessionToShip, stage,
                 asteroids, fate, envVars>>

DestroyedIds == {storage[i].id : i \in Pool!DestroyedSlots}

\* The sessions whose ship is flagged.
LostShip == {s \in DOMAIN sessionToShip : sessionToShip[s] \in DestroyedIds}

\* Mutant: the pool is recycled but the sessions are neither told nor unbound.
ReapForgetful ==
  /\ stage = "collide"
  /\ Pool!RecycleDestroyed
  /\ stage' = "asteroids" /\ lastPair' = <<0, 0>>
  /\ UNCHANGED <<owner, heading, actionQueue, batch, newPlayers, asteroids, envVars,
                 sessionToShip, fate>>

\* Mutant: the binding is dropped without a ShipDestroyedEvent.
ReapSilent ==
  /\ stage = "collide"
  /\ sessionToShip' = Without(sessionToShip, LostShip)
  /\ Pool!RecycleDestroyed
  /\ stage' = "asteroids" /\ lastPair' = <<0, 0>>
  /\ UNCHANGED <<owner, heading, actionQueue, batch, newPlayers, asteroids, envVars, fate>>

\* reapDestroyedShips(): one ShipDestroyedEvent per session that lost its ship,
\* the bindings dropped, the pool recycled.
ReapDestroyedShips ==
  /\ stage = "collide"
  /\ fate' = [s \in Sessions |-> IF s \in LostShip THEN "told" ELSE fate[s]]
  /\ sessionToShip' = Without(sessionToShip, LostShip)
  /\ Pool!RecycleDestroyed
  /\ stage' = "asteroids" /\ lastPair' = <<0, 0>>
  /\ UNCHANGED <<owner, heading, actionQueue, batch, newPlayers, asteroids, envVars>>

\* maintainAsteroidPopulation(): asteroids are acquired, one per step.
AddAsteroid ==
  /\ stage = "asteroids" /\ asteroids < MaxAsteroids
  /\ Pool!Acquire("Asteroid")
  /\ asteroids' = asteroids + 1
  /\ UNCHANGED <<owner, heading, actionQueue, batch, newPlayers, sessionToShip, stage,
                 lastPair, fate, envVars>>

AsteroidsDone ==
  /\ stage = "asteroids"
  /\ stage' = "spawn"
  /\ UNCHANGED <<pool, owner, heading, actionQueue, batch, newPlayers, sessionToShip,
                 lastPair, asteroids, fate, envVars>>

\* spawnShips(): a ship for the next new player, bound to its session whether
\* or not the session already had one.
SpawnShip ==
  /\ stage = "spawn" /\ newPlayers # << >>
  /\ Pool!Acquire("Ship")
  /\ LET s == Head(newPlayers)
     IN  /\ sessionToShip' = [x \in DOMAIN sessionToShip \cup {s} |->
                                IF x = s THEN nextId ELSE sessionToShip[x]]
         /\ fate' = [fate EXCEPT ![s] = "playing"]
  /\ newPlayers' = Tail(newPlayers)
  /\ UNCHANGED <<owner, heading, actionQueue, batch, stage, lastPair, asteroids, envVars>>

\* buildGameSnapshot() and broadcastSnapshot(): the snapshot goes out and the
\* pool is recycled once more.
BroadcastSnapshot ==
  /\ stage = "spawn" /\ newPlayers = << >>
  /\ Pool!RecycleDestroyed
  /\ stage' = "idle"
  /\ UNCHANGED <<owner, heading, actionQueue, batch, newPlayers, sessionToShip, lastPair,
                 asteroids, fate, envVars>>

\* A stage throws; runTickStep() catches it and the rest of the tick, the drained
\* actions and the pending joins included, is lost.
TickThrows ==
  /\ stage # "idle"
  /\ UNCHANGED sent /\ Fault(TRUE)
  /\ batch' = << >> /\ newPlayers' = << >>
  /\ stage' = "idle" /\ lastPair' = <<0, 0>>
  /\ UNCHANGED <<pool, owner, heading, actionQueue, sessionToShip, asteroids, fate, joined, client>>

\* shutdownTickLoop() between two ticks: the queued actions are dropped.
DropQueue ==
  /\ stage = "idle" /\ actionQueue # << >>
  /\ UNCHANGED sent /\ Fault(TRUE)
  /\ actionQueue' = << >>
  /\ UNCHANGED <<pool, tickVars, joined, client>>

Tick ==
  \/ DrainInput
  \/ ApplyJoin \/ ApplyQuitUnbound \/ ApplyQuit \/ ApplyMoveAndShoot
  \/ UpdatePhysics
  \/ \E i, j \in Pool!Slots : Collide(i, j)
  \/ ReapDestroyedShips
  \/ AddAsteroid \/ AsteroidsDone
  \/ SpawnShip \/ BroadcastSnapshot
  \/ TickThrows

Next ==
  \/ \E s \in Sessions :
       \/ OnPlayerJoin(s) \/ OnShotReceived(s) \/ OnClientDisconnected(s)
       \/ \E a \in Angles : OnPlayerMove(s, a)
  \/ Tick
  \/ DropQueue

Spec == Init /\ [][Next]_vars

\* The loop keeps ticking; clients owe nothing.
FairSpec == Spec /\ WF_vars(Tick)

-----------------------------------------------------------------------------
(* Properties *)

\* Type invariant of the world's own state (the pool has its own).
TypeOK ==
  /\ Pool!TypeOK
  /\ owner \in [1 .. MaxId -> 0 .. MaxId]
  /\ heading \in [1 .. MaxId -> Angles]
  /\ actionQueue \in Seq(Actions) /\ batch \in Seq(Actions)
  /\ newPlayers \in Seq(Sessions)
  /\ DOMAIN sessionToShip \subseteq Sessions
  /\ \A s \in DOMAIN sessionToShip : sessionToShip[s] \in 1 .. MaxId
  /\ stage \in {"idle", "input", "collide", "asteroids", "spawn"}
  /\ sent \in 0 .. MaxActions /\ asteroids \in 0 .. MaxAsteroids
  /\ joined \subseteq Sessions /\ faults \in 0 .. MaxActions
  /\ client \in [Sessions -> {"connected", "gone"}]
  /\ fate \in [Sessions -> {"none", "playing", "told", "left"}]

\* session_to_ship_ never dangles: at every point of every tick, even after a
\* stage has thrown, a bound session leads to a ship that is in the pool, and to
\* one no other session is bound to.  Slots are recycled twice per tick, so a
\* binding missed by the reaping would lead into a reused slot.
BindingsResolve ==
  /\ \A s \in DOMAIN sessionToShip :
       LET e == Pool!FindByEntityID(sessionToShip[s])
       IN  e # Nullopt /\ e.id = sessionToShip[s] /\ e.type = "Ship"
  /\ \A s, t \in DOMAIN sessionToShip : sessionToShip[s] = sessionToShip[t] => s = t

\* The world uses the pool only through the pool's operations: it implements
\* the specification of EntityPool.
PoolSpec == Pool!Spec

\* Between ticks, a session that was given a ship, has not left and was not told
\* that its ship was destroyed still has it, alive, as long as no stage of a tick
\* was cut short: no ship disappears silently.
NoSilentDeath ==
  stage = "idle" /\ faults = 0 =>
    \A s \in Sessions :
      fate[s] = "playing" => /\ s \in DOMAIN sessionToShip
                             /\ Pool!FindByEntityID(sessionToShip[s]) # Nullopt
                             /\ ~Pool!FindByEntityID(sessionToShip[s]).isDestroyed

\* Between ticks every live ship belongs to a session (reapDestroyedShips() calls
\* a ship without one an incident), and once the PlayerQuit of a session has been
\* handled its ship is gone (the comment in spawnShips(): the binding is what
\* PlayerQuit removes the ship by), as long as nothing went wrong.
ShipsAndSessionsAgree ==
  stage = "idle" /\ faults = 0 =>
    /\ \A i \in LiveSlots("Ship") :
         \E s \in DOMAIN sessionToShip : sessionToShip[s] = storage[i].id
    /\ \A s \in Sessions :
         Gone(s) /\ ~IsIn(Quit(s), actionQueue) => s \notin DOMAIN sessionToShip

\* A JOIN that was enqueued gets its player a ship, if nothing goes wrong.
JoinLeadsToShip ==
  [](faults = 0) => \A s \in Sessions : IsIn(Join(s), actionQueue) ~> fate[s] # "none"

-----------------------------------------------------------------------------
(* What a test says and the code does not keep *)

\* A shot carries no angle and leaves the ship's heading as it was (the test
\* MoveAndShootWithoutAngleKeepsState).
HeadingKept ==
  [][NextAction("MoveAndShoot") /\ Head(batch).shooting => heading' = heading]_vars

=============================================================================
