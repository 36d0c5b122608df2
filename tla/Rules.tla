------------------------------- MODULE Rules -------------------------------
(***************************************************************************)
(* The rules of the game as functions on entities: health_utils.h,         *)
(* score_utils.h, Entity::addMass() and the handlers of collision_utils.h  *)
(* with what WorldInstance adds to them (src/src/server).                  *)
(*                                                                         *)
(* Masses, damages and rewards are scaled to small numbers by the          *)
(* constants.  Lengths are in units of the radius of a new ship, so that   *)
(* pi * r * r of massForRadius() is ShipMass * r * r.  An entity has every *)
(* field; those of components it does not have are 0.                      *)
(***************************************************************************)
EXTENDS Naturals

CONSTANTS FullHealth,     \* kShipDefaultHealth, and the default of an asteroid
          BulletDamage,   \* 25
          LighterDamage,  \* 10: what the lighter of two ships takes,
          HeavierDamage,  \*  5: the heavier one,
          EqualDamage,    \*  7: and each of two equally heavy ones
          RamPenalty,     \*  5: what a collision costs each of two ships
          RamReward,      \* 30: for surviving a collision that destroys the other
          HitReward,      \*  5: for a bullet that hits
          KillReward,     \* 50: for a bullet that destroys
          MaxScore,       \* the largest std::uint32_t
          MaxFrags,       \* the largest std::uint16_t
          ShipMass,       \* kShipDefaultMass
          WorldSize,      \* the width of the world
          MaxDoublings    \* bound: how often one addMass() doubles the radius

ASSUME RulesAssumption ==
  /\ {FullHealth, BulletDamage, LighterDamage, HeavierDamage, EqualDamage} \subseteq Nat \ {0}
  /\ {RamPenalty, RamReward, HitReward, KillReward, MaxScore, MaxFrags} \subseteq Nat
  /\ {ShipMass, WorldSize} \subseteq Nat \ {0}
  /\ MaxDoublings \in Nat \ {0}

\* What every entity has; acquire() gives it its id, the caller the rest.
NewEntity(id, type) ==
  [id |-> id, type |-> type, isDestroyed |-> FALSE, mass |-> 0, radius |-> 0,
   health |-> 0, score |-> 0, frags |-> 0, owner |-> 0, reward |-> 0]

NewShip(id) ==
  [NewEntity(id, "Ship") EXCEPT !.mass = ShipMass, !.radius = 1, !.health = FullHealth, !.owner = id]

NewBullet(id, owner) == [NewEntity(id, "Bullet") EXCEPT !.owner = owner]

NewAsteroid(id, weight) ==
  [NewEntity(id, "Asteroid") EXCEPT !.mass = weight, !.health = FullHealth, !.reward = weight]

IsValid(e) == ~e.isDestroyed

IsDamageable(e) == e.health > 0

-----------------------------------------------------------------------------

\* applyDamage(), and the flag that every caller sets when it leaves no health.
ApplyDamage(e, damage) ==
  LET left == IF damage >= e.health THEN 0 ELSE e.health - damage
  IN  [e EXCEPT !.health = left, !.isDestroyed = @ \/ left = 0]

\* addScore() stops at the largest score.
AddScore(e, points) ==
  [e EXCEPT !.score = IF points > MaxScore - @ THEN MaxScore ELSE @ + points]

\* subtractScore() stops at 0.
SubtractScore(e, penalty) == [e EXCEPT !.score = IF penalty >= @ THEN 0 ELSE @ - penalty]

MassForRadius(r) == ShipMass * r * r

\* tryGrowShip(): a circle that is as wide as the world may touch two opposite
\* edges; whether it does depends on where it is.
CanGrow(radius, edges) == 2 * radius < WorldSize \/ ~edges

PowerOfTwo[k \in 0 .. MaxDoublings] == IF k = 0 THEN 1 ELSE 2 * PowerOfTwo[k - 1]

\* Mutant: at exactly the mass of the next size the ship does not grow.
DoublingsStrict(e, mass) == {k \in 0 .. MaxDoublings : k = 0 \/ mass > MassForRadius(e.radius * PowerOfTwo[k])}

\* The numbers of doublings of the radius for which mass is large enough.
Doublings(e, mass) == {k \in 0 .. MaxDoublings : k = 0 \/ mass >= MassForRadius(e.radius * PowerOfTwo[k])}

\* addMass(): the radius doubles as often as the mass allows it, up to the first
\* size that tryGrowShip() refuses; then WorldInstance destroys the ship.
AddMass(e, amount, edges) ==
  LET mass    == e.mass + amount
      Fits(k) == \A n \in 1 .. k : CanGrow(e.radius * PowerOfTwo[n], edges)
      growth  == CHOOSE k \in Doublings(e, mass) :
                   Fits(k) /\ \A n \in Doublings(e, mass) : Fits(n) => n <= k
  IN  [e EXCEPT !.mass = mass, !.radius = @ * PowerOfTwo[growth],
                !.isDestroyed = @ \/ \E k \in Doublings(e, mass) : ~Fits(k)]

-----------------------------------------------------------------------------
(* Collision handlers: they return the entities as they are afterwards *)

CreditFrag(e) == [AddScore(e, RamReward) EXCEPT !.frags = IF @ < MaxFrags THEN @ + 1 ELSE @]

\* onCollisionShipShip(): both pay and take damage, and if only one of them is
\* destroyed the other is rewarded.
ShipShip(a, b) ==
  LET Damage(x, y) == IF x.mass < y.mass THEN LighterDamage
                      ELSE IF x.mass > y.mass THEN HeavierDamage ELSE EqualDamage
      Hurt(x, y)   == ApplyDamage(SubtractScore(x, RamPenalty), Damage(x, y))
      Settle(x, y) == IF y.isDestroyed /\ ~x.isDestroyed THEN CreditFrag(x) ELSE x
      hurtA        == Hurt(a, b)
      hurtB        == Hurt(b, a)
  IN  IF IsValid(a) /\ IsValid(b) /\ IsDamageable(a) /\ IsDamageable(b)
        THEN <<Settle(hurtA, hurtB), Settle(hurtB, hurtA)>>
        ELSE <<a, b>>

\* More than a fifth and less than half of the ship's mass.
Edible(ship, asteroid) == 5 * asteroid.mass > ship.mass /\ 2 * asteroid.mass < ship.mass

\* onCollisionShipAsteroid(): the ship takes the asteroid's mass and its reward;
\* repelAsteroid() and applyPercentageDamage() are stubs.
ShipAsteroid(ship, asteroid, edges) ==
  IF /\ IsValid(ship) /\ IsValid(asteroid) /\ IsDamageable(ship) /\ IsDamageable(asteroid)
     /\ Edible(ship, asteroid)
    THEN <<AddScore(AddMass(ship, asteroid.mass, edges), asteroid.reward),
           [asteroid EXCEPT !.isDestroyed = TRUE]>>
    ELSE <<ship, asteroid>>

\* Whether a bullet does anything to a ship: not to the one that fired it.
Hits(bullet, ship) ==
  IsValid(bullet) /\ IsValid(ship) /\ IsDamageable(ship) /\ bullet.owner # ship.id

\* Mutant: the bullet flies on.
BulletShipPierces(bullet, ship) ==
  IF Hits(bullet, ship) THEN <<bullet, ApplyDamage(ship, BulletDamage)>> ELSE <<bullet, ship>>

\* onCollisionBulletShip(), without the reward of the owner.
BulletShip(bullet, ship) ==
  IF Hits(bullet, ship)
    THEN <<[bullet EXCEPT !.isDestroyed = TRUE], ApplyDamage(ship, BulletDamage)>>
    ELSE <<bullet, ship>>

\* The reward of the owner of a bullet that hit.
RewardShooter(owner, destroyed) == AddScore(owner, IF destroyed THEN KillReward ELSE HitReward)

=============================================================================
