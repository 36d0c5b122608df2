---------------------------- MODULE Arena_proofs ---------------------------
(***************************************************************************)
(* Proofs about the contents of the world, for every bound, every damage   *)
(* and reward and all masses that GrowthAssumption admits.                 *)
(***************************************************************************)
EXTENDS Arena, FiniteSetTheorems, WellFoundedInduction, TLAPS

-----------------------------------------------------------------------------
(* Numbers *)

\* A set of numbers has a least one.
LEMMA Least ==
  ASSUME NEW T, T \subseteq Nat, T # {}
  PROVE  \E x \in T : \A y \in T : x <= y
PROOF
<1>1. \E x \in T : \A y \in T : ~(<<y, x>> \in OpToRel(<, Nat))
  BY WFMin, NatLessThanWellFounded
<1>2. \A x, y \in T : <<y, x>> \in OpToRel(<, Nat) <=> y < x
  BY DEF OpToRel
<1>3. \E x \in T : \A y \in T : ~(y < x)
  BY <1>1, <1>2, Zenon
<1> QED BY <1>3

\* So a set that holds 0 and, up to n, the successor of each of its members, holds
\* all numbers up to n.
LEMMA UpTo ==
  ASSUME NEW n \in Nat, NEW S, 0 \in S, \A k \in 1 .. n : k - 1 \in S => k \in S
  PROVE  0 .. n \subseteq S
PROOF
<1> DEFINE T == (0 .. n) \ S
<1>1. CASE T = {}
  BY <1>1
<1>2. CASE T # {}
  <2>1. T \subseteq Nat
    OBVIOUS
  <2>2. PICK m \in T : \A y \in T : m <= y
    BY <1>2, <2>1, Least
  <2>3. m \in 1 .. n /\ m - 1 \in 0 .. n /\ ~(m <= m - 1)
    BY <2>2
  <2>4. m - 1 \in S
    BY <2>2, <2>3
  <2> QED BY <2>2, <2>3, <2>4
<1> QED BY <1>1, <1>2

-----------------------------------------------------------------------------
(* Powers of two *)

\* PowerOfTwo is the function that its definition says.
LEMMA Powers ==
  /\ PowerOfTwo[0] = 1
  /\ \A k \in 1 .. MaxDoublings : PowerOfTwo[k] = 2 * PowerOfTwo[k - 1]
PROOF
<1> DEFINE Power(m, f) == f = [k \in 0 .. m |-> IF k = 0 THEN 1 ELSE 2 * f[k - 1]]
           S == {m \in 0 .. MaxDoublings : \E f : Power(m, f)}
<1>0. MaxDoublings \in Nat
  BY RulesAssumption
<1>1. 0 \in S
  <2> DEFINE f == [k \in 0 .. 0 |-> 1]
  <2>1. Power(0, f)
    OBVIOUS
  <2> HIDE DEF f, Power
  <2> QED BY <1>0, <2>1
<1>2. ASSUME NEW m \in 1 .. MaxDoublings, m - 1 \in S
      PROVE  m \in S
  <2>1. PICK f : Power(m - 1, f)
    BY <1>2
  <2> DEFINE g == [k \in 0 .. m |-> IF k = 0 THEN 1 ELSE 2 * f[k - 1]]
  <2>2. \A k \in 0 .. (m - 1) : f[k] = IF k = 0 THEN 1 ELSE 2 * f[k - 1]
    BY <2>1
  <2>3. \A k \in 0 .. (m - 1) : g[k] = f[k]
    BY <1>0, <2>2
  <2>4. \A k \in 1 .. m : k - 1 \in 0 .. (m - 1)
    BY <1>0
  <2>5. \A k \in 0 .. m : (IF k = 0 THEN 1 ELSE 2 * f[k - 1]) = (IF k = 0 THEN 1 ELSE 2 * g[k - 1])
    <3> HIDE DEF g
    <3> QED BY <1>0, <2>3, <2>4
  <2>6. Power(m, g)
    BY <2>5, Zenon
  <2> HIDE DEF g, Power
  <2> QED BY <1>0, <2>6
<1>3. 0 .. MaxDoublings \subseteq S
  <2> HIDE DEF S
  <2> QED BY <1>0, <1>1, <1>2, UpTo
<1>4. \E f : Power(MaxDoublings, f)
  BY <1>0, <1>3
<1>5. PowerOfTwo = CHOOSE f : Power(MaxDoublings, f)
  BY Zenon DEF PowerOfTwo
<1>6. Power(MaxDoublings, PowerOfTwo)
  BY <1>4, <1>5, Zenon
<1>7. \A k \in 0 .. MaxDoublings : PowerOfTwo[k] = IF k = 0 THEN 1 ELSE 2 * PowerOfTwo[k - 1]
  BY <1>6
<1> QED BY <1>0, <1>7

LEMMA PowersGrow ==
  /\ PowerOfTwo[0] = 1 /\ PowerOfTwo[1] = 2
  /\ \A k \in 0 .. MaxDoublings : PowerOfTwo[k] \in Nat
  /\ \A k \in 2 .. MaxDoublings : PowerOfTwo[k] >= 4
PROOF
<1> DEFINE P == PowerOfTwo
           S == {k \in 0 .. MaxDoublings : P[k] \in Nat /\ (k >= 1 => P[k] >= 2) /\ (k >= 2 => P[k] >= 4)}
<1>1. MaxDoublings \in Nat /\ 1 \in 1 .. MaxDoublings
  BY RulesAssumption
<1>2. P[0] = 1 /\ \A k \in 1 .. MaxDoublings : P[k] = 2 * P[k - 1]
  BY Powers
<1> HIDE DEF P
<1>3. 0 \in S
  BY <1>1, <1>2
<1>4. ASSUME NEW k \in 1 .. MaxDoublings, k - 1 \in S
      PROVE  k \in S
  <2>1. P[k] = 2 * P[k - 1] /\ P[k - 1] \in Nat
    BY <1>2, <1>4
  <2>2. k - 1 >= 1 => P[k - 1] >= 2
    BY <1>4
  <2>3. k = 1 => P[k - 1] = 1
    BY <1>2
  <2>4. k = 1 \/ (k \in Nat /\ k >= 2 /\ k - 1 >= 1)
    BY <1>1
  <2>5. k \in 0 .. MaxDoublings
    BY <1>1
  <2> QED BY <2>1, <2>2, <2>3, <2>4, <2>5
<1>5. 0 .. MaxDoublings \subseteq S
  <2> HIDE DEF S
  <2> QED BY <1>1, <1>3, <1>4, UpTo
<1>6. P[1] = 2
  BY <1>1, <1>2
<1> QED BY <1>1, <1>2, <1>5, <1>6 DEF P

-----------------------------------------------------------------------------
(* Entities *)

Types == {"Ship", "Bullet", "Asteroid"}

Item ==
  [id : Nat, type : Types, isDestroyed : BOOLEAN, mass : Nat, radius : Nat,
   health : 0 .. FullHealth, score : 0 .. MaxScore, frags : 0 .. MaxFrags, owner : Nat, reward : Nat]

\* What GrowthIsBounded says of one ship.
Sized(e) ==
  /\ e.mass < 6 * MaxWeight
  /\ MassForRadius(e.radius) <= e.mass
  /\ e.mass < MassForRadius(2 * e.radius)

Sound(e) ==
  /\ e \in Item
  /\ e.type = "Ship" => Sized(e) /\ (e.isDestroyed \/ e.health > 0)
  /\ e.type = "Asteroid" => e.mass <= MaxWeight

\* f is e after something happened to it.
Follows(e, f) ==
  /\ Sound(f)
  /\ f.id = e.id /\ f.type = e.type /\ f.owner = e.owner
  /\ e.isDestroyed => f.isDestroyed
  /\ e.type # "Ship" => f.mass = e.mass

\* The constants are numbers.
LEMMA Constants ==
  /\ FullHealth \in Nat \ {0} /\ BulletDamage \in Nat /\ LighterDamage \in Nat /\ HeavierDamage \in Nat
  /\ EqualDamage \in Nat
  /\ RamPenalty \in Nat /\ RamReward \in Nat /\ HitReward \in Nat /\ KillReward \in Nat
  /\ MaxScore \in Nat /\ MaxFrags \in Nat
  /\ ShipMass \in Nat \ {0} /\ WorldSize \in Nat /\ MaxDoublings \in Nat \ {0}
  /\ MinWeight \in Nat \ {0} /\ MaxWeight \in Nat \ {0} /\ AsteroidsWeight \in Nat \ {0}
  BY RulesAssumption, ArenaAssumption

LEMMA NewEntities ==
  ASSUME NEW id \in Nat
  PROVE  /\ Sound(NewShip(id)) /\ NewShip(id).id = id /\ ~NewShip(id).isDestroyed
         /\ NewShip(id).owner = id /\ NewShip(id).type = "Ship"
         /\ \A owner \in Nat : /\ Sound(NewBullet(id, owner)) /\ NewBullet(id, owner).id = id
                               /\ ~NewBullet(id, owner).isDestroyed /\ NewBullet(id, owner).owner = owner
                               /\ NewBullet(id, owner).type = "Bullet"
         /\ \A m \in Nat : m <= MaxWeight =>
              /\ Sound(NewAsteroid(id, m)) /\ NewAsteroid(id, m).id = id /\ ~NewAsteroid(id, m).isDestroyed
              /\ NewAsteroid(id, m).owner = 0 /\ NewAsteroid(id, m).mass = m
              /\ NewAsteroid(id, m).type = "Asteroid"
PROOF
<1> USE Constants
<1>1. \A t \in Types : /\ NewEntity(id, t) \in Item /\ NewEntity(id, t).id = id /\ NewEntity(id, t).type = t
                        /\ ~NewEntity(id, t).isDestroyed /\ NewEntity(id, t).owner = 0
  BY DEF NewEntity, Item
<1>2. /\ NewShip(id) \in Item /\ NewShip(id).mass = ShipMass /\ NewShip(id).radius = 1 /\ NewShip(id).id = id
      /\ NewShip(id).owner = id /\ NewShip(id).type = "Ship" /\ ~NewShip(id).isDestroyed
      /\ NewShip(id).health > 0
  <2> DEFINE e == NewEntity(id, "Ship")
             f == NewShip(id)
  <2>1. e \in Item /\ e.id = id /\ e.type = "Ship" /\ ~e.isDestroyed
    BY <1>1 DEF Types
  <2>2. f = [e EXCEPT !.mass = ShipMass, !.radius = 1, !.health = FullHealth, !.owner = id]
    BY DEF NewShip
  <2> HIDE DEF e, f
  <2>3. f.mass = ShipMass /\ f.radius = 1 /\ f.id = e.id /\ f.owner = id /\ f.type = e.type
        /\ f.isDestroyed = e.isDestroyed /\ f.health = FullHealth
    BY <2>1, <2>2 DEF Item
  <2>4. f \in Item
    <3>1. ShipMass \in Nat /\ 1 \in Nat /\ FullHealth \in 0 .. FullHealth
      OBVIOUS
    <3> QED BY <2>1, <2>2, <3>1 DEF Item
  <2> QED BY <2>1, <2>3, <2>4 DEF f
<1>3. Sized(NewShip(id))
  <2>1. MassForRadius(1) = ShipMass /\ MassForRadius(2 * 1) = 4 * ShipMass
    BY DEF MassForRadius
  <2> QED BY <1>2, <2>1, GrowthAssumption DEF Sized
<1>4. ASSUME NEW owner \in Nat
      PROVE  /\ Sound(NewBullet(id, owner)) /\ NewBullet(id, owner).id = id
             /\ ~NewBullet(id, owner).isDestroyed /\ NewBullet(id, owner).owner = owner
             /\ NewBullet(id, owner).type = "Bullet"
  <2> DEFINE e == NewEntity(id, "Bullet")
             f == NewBullet(id, owner)
  <2>1. e \in Item /\ e.id = id /\ e.type = "Bullet" /\ ~e.isDestroyed
    BY <1>1 DEF Types
  <2>2. f = [e EXCEPT !.owner = owner]
    BY DEF NewBullet
  <2> HIDE DEF e, f
  <2>3. f \in Item /\ f.id = e.id /\ f.owner = owner /\ f.type = e.type /\ f.isDestroyed = e.isDestroyed
    BY <2>1, <2>2 DEF Item
  <2> QED BY <2>1, <2>3 DEF f, Sound
<1>5. ASSUME NEW m \in Nat, m <= MaxWeight
      PROVE  /\ Sound(NewAsteroid(id, m)) /\ NewAsteroid(id, m).id = id /\ ~NewAsteroid(id, m).isDestroyed
             /\ NewAsteroid(id, m).owner = 0 /\ NewAsteroid(id, m).mass = m
             /\ NewAsteroid(id, m).type = "Asteroid"
  <2> DEFINE e == NewEntity(id, "Asteroid")
             f == NewAsteroid(id, m)
  <2>1. e \in Item /\ e.id = id /\ e.type = "Asteroid" /\ ~e.isDestroyed /\ e.owner = 0
    BY <1>1 DEF Types
  <2>2. f = [e EXCEPT !.mass = m, !.health = FullHealth, !.reward = m]
    BY DEF NewAsteroid
  <2> HIDE DEF e, f
  <2>3. f.id = e.id /\ f.owner = e.owner /\ f.type = e.type /\ f.isDestroyed = e.isDestroyed
        /\ f.mass = m
    BY <2>1, <2>2 DEF Item
  <2>4. f \in Item
    <3>1. FullHealth \in 0 .. FullHealth
      OBVIOUS
    <3> QED BY <2>1, <2>2, <3>1 DEF Item
  <2> QED BY <1>5, <2>1, <2>3, <2>4 DEF f, Sound
<1> QED BY <1>2, <1>3, <1>4, <1>5 DEF Sound

\* The fields that damage, scores and flags do not touch.
LEMMA Scored ==
  ASSUME NEW e, Sound(e)
  PROVE  /\ Follows(e, e)
         /\ \A d \in Nat : Follows(e, ApplyDamage(e, d))
         /\ \A p \in Nat : /\ Follows(e, AddScore(e, p)) /\ (AddScore(e, p).isDestroyed <=> e.isDestroyed)
                           /\ Follows(e, SubtractScore(e, p)) /\ (SubtractScore(e, p).isDestroyed <=> e.isDestroyed)
         /\ Follows(e, CreditFrag(e)) /\ (CreditFrag(e).isDestroyed <=> e.isDestroyed)
         /\ Follows(e, [e EXCEPT !.isDestroyed = TRUE])
PROOF
<1> USE Constants DEF Follows
<1>1. e \in Item
  BY DEF Sound
<1>2. ASSUME NEW f \in Item, f.type = e.type, f.mass = e.mass, f.radius = e.radius,
             f.isDestroyed \/ f.health > 0 \/ (f.health = e.health /\ ~e.isDestroyed)
      PROVE  Sound(f)
  BY <1>2 DEF Sound, Sized
<1>3. Follows(e, e)
  OBVIOUS
<1>4. ASSUME NEW d \in Nat
      PROVE  Follows(e, ApplyDamage(e, d))
  <2> DEFINE f == ApplyDamage(e, d)
  <2>1. f \in Item
    <3> DEFINE left == IF d >= e.health THEN 0 ELSE e.health - d
               flag == e.isDestroyed \/ left = 0
    <3>1. left \in 0 .. FullHealth /\ flag \in BOOLEAN
      BY <1>1 DEF Item
    <3>2. f = [e EXCEPT !.health = left, !.isDestroyed = flag]
      BY <1>1 DEF ApplyDamage, Item
    <3> HIDE DEF left, flag, f
    <3> QED BY <1>1, <3>1, <3>2 DEF Item
  <2>2. /\ f.id = e.id /\ f.type = e.type /\ f.owner = e.owner /\ f.mass = e.mass /\ f.radius = e.radius
        /\ e.isDestroyed => f.isDestroyed
    BY <1>1 DEF ApplyDamage, Item
  <2>3. f.isDestroyed \/ f.health > 0
    <3> DEFINE left == IF d >= e.health THEN 0 ELSE e.health - d
               flag == e.isDestroyed \/ left = 0
    <3>1. left = 0 \/ left > 0
      BY <1>1 DEF Item
    <3>2. f = [e EXCEPT !.health = left, !.isDestroyed = flag]
      BY <1>1 DEF ApplyDamage, Item
    <3>3. left = 0 => flag
      OBVIOUS
    <3> HIDE DEF left, flag, f
    <3>4. f.health = left /\ f.isDestroyed = flag
      BY <1>1, <3>2 DEF Item
    <3> QED BY <3>1, <3>3, <3>4
  <2> HIDE DEF f
  <2> QED BY <1>2, <2>1, <2>2, <2>3 DEF f
<1>5. ASSUME NEW p \in Nat
      PROVE  /\ Follows(e, AddScore(e, p)) /\ (AddScore(e, p).isDestroyed <=> e.isDestroyed)
             /\ Follows(e, SubtractScore(e, p)) /\ (SubtractScore(e, p).isDestroyed <=> e.isDestroyed)
  <2> DEFINE f == AddScore(e, p)
             g == SubtractScore(e, p)
  <2>1. f \in Item /\ g \in Item
    BY <1>1 DEF AddScore, SubtractScore, Item
  <2>2. /\ f.id = e.id /\ f.type = e.type /\ f.owner = e.owner /\ f.mass = e.mass /\ f.radius = e.radius
        /\ e.isDestroyed <=> f.isDestroyed
        /\ f.health = e.health
    BY <1>1 DEF AddScore, Item
  <2>3. /\ g.id = e.id /\ g.type = e.type /\ g.owner = e.owner /\ g.mass = e.mass /\ g.radius = e.radius
        /\ e.isDestroyed <=> g.isDestroyed
        /\ g.health = e.health
    BY <1>1 DEF SubtractScore, Item
  <2> HIDE DEF f, g
  <2> QED BY <1>2, <2>1, <2>2, <2>3 DEF f, g
<1>6. Follows(e, CreditFrag(e)) /\ (CreditFrag(e).isDestroyed <=> e.isDestroyed)
  <2> DEFINE a == AddScore(e, RamReward)
             f == CreditFrag(e)
  <2>1. Follows(e, a) /\ (a.isDestroyed <=> e.isDestroyed) /\ a \in Item
    BY <1>5 DEF Sound
  <2>2. f = [a EXCEPT !.frags = IF @ < MaxFrags THEN @ + 1 ELSE @]
    BY DEF CreditFrag
  <2> HIDE DEF a, f
  <2>3. /\ f \in Item
        /\ f.id = a.id /\ f.type = a.type /\ f.owner = a.owner /\ f.mass = a.mass /\ f.radius = a.radius
        /\ f.isDestroyed = a.isDestroyed /\ f.health = a.health
    BY <2>1, <2>2 DEF Item
  <2>4. Sound(f)
    BY <2>1, <2>3 DEF Sound, Sized
  <2> QED BY <2>1, <2>3, <2>4 DEF f
<1>7. Follows(e, [e EXCEPT !.isDestroyed = TRUE])
  <2> DEFINE f == [e EXCEPT !.isDestroyed = TRUE]
  <2>1. f \in Item
    BY <1>1 DEF Item
  <2>2. /\ f.id = e.id /\ f.type = e.type /\ f.owner = e.owner /\ f.mass = e.mass /\ f.radius = e.radius
        /\ f.isDestroyed
    BY <1>1 DEF Item
  <2> HIDE DEF f
  <2> QED BY <1>2, <2>1, <2>2 DEF f
<1> QED BY <1>3, <1>4, <1>5, <1>6, <1>7

LEMMA FollowsTwice ==
  ASSUME NEW e, NEW f, NEW g, Follows(e, f), Follows(f, g)
  PROVE  Follows(e, g)
  BY DEF Follows

\* The masses at which the radius doubles.
LEMMA Sizes ==
  ASSUME NEW r \in Nat
  PROVE  /\ MassForRadius(r) \in Nat
         /\ MassForRadius(r * 1) = MassForRadius(r) /\ MassForRadius(r * 2) = MassForRadius(2 * r)
         /\ MassForRadius(2 * r) = 4 * MassForRadius(r)
         /\ MassForRadius(2 * (r * 2)) = 16 * MassForRadius(r)
         /\ \A p \in Nat : p >= 4 => MassForRadius(r * p) >= 16 * MassForRadius(r)
         /\ 4 * r >= WorldSize => MassForRadius(2 * r) >= 6 * MaxWeight
PROOF
<1> USE Constants
<1> DEFINE q == r * r
           m == ShipMass * q
<1>1. q \in Nat /\ m \in Nat
  OBVIOUS
<1>2. MassForRadius(r) = m
  BY DEF MassForRadius
<1>3. (2 * r) * (2 * r) = 4 * q /\ (r * 2) * (r * 2) = 4 * q /\ (2 * (r * 2)) * (2 * (r * 2)) = 16 * q
      /\ (4 * r) * (4 * r) = 16 * q
  OBVIOUS
<1>4. ShipMass * (4 * q) = 4 * m /\ ShipMass * (16 * q) = 16 * m
  OBVIOUS
<1>5. \A x \in Nat : MassForRadius(x) = ShipMass * (x * x)
  BY DEF MassForRadius
<1>6. ASSUME NEW p \in Nat, p >= 4
      PROVE  MassForRadius(r * p) >= 16 * m
  <2>1. p * p \in Nat /\ p * p >= 16
    BY <1>6
  <2>2. (r * p) * (r * p) = q * (p * p)
    OBVIOUS
  <2>3. ShipMass * (q * (p * p)) = m * (p * p)
    BY <2>1
  <2>4. m * (p * p) >= 16 * m
    BY <1>1, <2>1
  <2>5. MassForRadius(r * p) = ShipMass * ((r * p) * (r * p))
    BY <1>5
  <2> QED BY <2>2, <2>3, <2>4, <2>5
<1>7. ASSUME 4 * r >= WorldSize
      PROVE  4 * m >= 6 * MaxWeight
  <2>1. (4 * r) * (4 * r) >= WorldSize * WorldSize
    BY <1>7
  <2>2. 16 * q >= WorldSize * WorldSize /\ WorldSize * WorldSize \in Nat
    BY <1>3, <2>1
  <2>3. ShipMass * (16 * q) >= ShipMass * (WorldSize * WorldSize)
    BY <1>1, <2>2
  <2>4. ShipMass * (WorldSize * WorldSize) = ShipMass * WorldSize * WorldSize
    OBVIOUS
  <2>5. 16 * m >= 4 * 6 * MaxWeight
    BY <1>1, <1>4, <2>3, <2>4, GrowthAssumption
  <2> QED BY <1>1, <2>5
<1>8. MassForRadius(2 * r) = 4 * m /\ MassForRadius(r * 2) = 4 * m /\ MassForRadius(2 * (r * 2)) = 16 * m
  BY <1>3, <1>4, <1>5
<1>9. MassForRadius(r * 1) = MassForRadius(r)
  OBVIOUS
<1> HIDE DEF q, m
<1> QED BY <1>1, <1>2, <1>6, <1>7, <1>8, <1>9

\* A ship that absorbs an asteroid keeps the radius that its mass calls for, which
\* doubles at most once, and always fits into the world.
LEMMA Grown ==
  ASSUME NEW e, Sound(e), e.type = "Ship", NEW amount \in Nat, amount <= MaxWeight,
         5 * amount > e.mass, 2 * amount < e.mass, NEW edges \in BOOLEAN
  PROVE  Follows(e, AddMass(e, amount, edges)) /\ (AddMass(e, amount, edges).isDestroyed <=> e.isDestroyed)
PROOF
<1> USE Constants
<1> DEFINE r == e.radius
           m == MassForRadius(r)
           mass == e.mass + amount
           P == PowerOfTwo
           Fits(k) == \A n \in 1 .. k : CanGrow(r * P[n], edges)
           D == Doublings(e, mass)
           Best(k) == Fits(k) /\ \A n \in D : Fits(n) => n <= k
           growth == CHOOSE k \in D : Best(k)
           f == AddMass(e, amount, edges)
           flag == e.isDestroyed \/ \E k \in D : ~Fits(k)
<1>1. e \in Item /\ r \in Nat /\ e.mass \in Nat /\ mass \in Nat
  BY DEF Sound, Item
<1>2. f = [e EXCEPT !.mass = mass, !.radius = r * P[growth], !.isDestroyed = flag]
  BY <1>1 DEF AddMass, Item
<1>3. P[0] = 1 /\ P[1] = 2 /\ \A k \in 2 .. MaxDoublings : P[k] \in Nat /\ P[k] >= 4
  BY PowersGrow
<1>4. /\ m \in Nat /\ MassForRadius(r * 1) = m /\ MassForRadius(r * 2) = 4 * m /\ MassForRadius(2 * r) = 4 * m
      /\ MassForRadius(2 * (r * 2)) = 16 * m
      /\ \A p \in Nat : p >= 4 => MassForRadius(r * p) >= 16 * m
      /\ 4 * r >= WorldSize => 4 * m >= 6 * MaxWeight
  <2> HIDE DEF r
  <2>1. /\ MassForRadius(r) \in Nat
        /\ MassForRadius(r * 1) = MassForRadius(r) /\ MassForRadius(r * 2) = MassForRadius(2 * r)
        /\ MassForRadius(2 * r) = 4 * MassForRadius(r)
        /\ MassForRadius(2 * (r * 2)) = 16 * MassForRadius(r)
        /\ \A p \in Nat : p >= 4 => MassForRadius(r * p) >= 16 * MassForRadius(r)
        /\ 4 * r >= WorldSize => MassForRadius(2 * r) >= 6 * MaxWeight
    BY <1>1, Sizes, Zenon
  <2> QED BY <2>1, Zenon
<1>5. m <= e.mass /\ e.mass < 4 * m /\ mass < 6 * MaxWeight /\ mass < 6 * m /\ m <= mass
  <2>1. m <= e.mass /\ e.mass < 4 * m
    BY <1>4 DEF Sound, Sized
  <2>2. mass < 6 * amount /\ 2 * mass < 3 * e.mass
    BY <1>1
  <2> HIDE DEF m
  <2> QED BY <1>1, <1>4, <2>1, <2>2
<1> HIDE DEF m, P
\* One doubling at most, which fits.
<1>6. D = IF mass >= 4 * m THEN {0, 1} ELSE {0}
  <2>1. D = {k \in 0 .. MaxDoublings : k = 0 \/ mass >= MassForRadius(r * P[k])}
    BY DEF Doublings, P
  <2>2. ASSUME NEW k \in 2 .. MaxDoublings
        PROVE  ~(mass >= MassForRadius(r * P[k]))
    <3>1. MassForRadius(r * P[k]) >= 16 * m /\ r * P[k] \in Nat
      BY <1>1, <1>3, <1>4
    <3>2. MassForRadius(r * P[k]) \in Nat
      BY <3>1, Sizes
    <3> HIDE DEF mass
    <3> QED BY <1>1, <1>4, <1>5, <3>1, <3>2
  <2>3. (mass >= MassForRadius(r * P[1])) <=> mass >= 4 * m
    BY <1>3, <1>4
  <2>4. \A k \in 0 .. MaxDoublings : k = 0 \/ k = 1 \/ k \in 2 .. MaxDoublings
    OBVIOUS
  <2>5. 0 \in 0 .. MaxDoublings /\ 1 \in 0 .. MaxDoublings /\ 0 # 1
    OBVIOUS
  <2> HIDE DEF D, mass
  <2>6. \A k : k \in D <=> k = 0 \/ (k = 1 /\ mass >= 4 * m)
    BY <2>1, <2>2, <2>3, <2>4, <2>5
  <2> QED BY <2>6
<1>7. Fits(0) /\ (mass >= 4 * m => Fits(1))
  <2>1. ASSUME mass >= 4 * m
        PROVE  CanGrow(r * P[1], edges)
    <3>1. ~(4 * r >= WorldSize)
      BY <1>1, <1>4, <1>5, <2>1
    <3>2. 2 * (r * P[1]) < WorldSize
      BY <1>1, <1>3, <3>1
    <3> QED BY <3>2 DEF CanGrow
  <2> QED BY <2>1
<1> HIDE DEF D, Fits
<1>8. growth = (IF mass >= 4 * m THEN 1 ELSE 0) /\ (flag <=> e.isDestroyed)
  <2>1. CASE mass >= 4 * m
    <3>1. D = {0, 1} /\ Fits(0) /\ Fits(1)
      BY <1>6, <1>7, <2>1
    <3>2. Best(1) /\ ~Best(0)
      BY <3>1
    <3>3. growth \in {0, 1} /\ Best(growth)
      BY <3>1, <3>2, Zenon
    <3>4. growth = 1
      BY <3>2, <3>3
    <3> QED BY <2>1, <3>1, <3>4
  <2>2. CASE ~(mass >= 4 * m)
    <3>1. D = {0} /\ Fits(0)
      BY <1>6, <1>7, <2>2
    <3>2. Best(0)
      BY <3>1
    <3>3. growth \in {0}
      BY <3>1, <3>2, Zenon
    <3> QED BY <2>2, <3>1, <3>3
  <2> QED BY <2>1, <2>2
<1> HIDE DEF growth, flag
<1>9. flag \in BOOLEAN /\ e.isDestroyed \in BOOLEAN /\ flag = e.isDestroyed
  <2>1. e.isDestroyed \in BOOLEAN
    BY <1>1 DEF Item
  <2>2. flag \in BOOLEAN
    BY DEF flag
  <2> QED BY <1>8, <2>1, <2>2
<1> DEFINE s == r * P[growth]
<1>10. s \in Nat /\ MassForRadius(s) <= mass /\ mass < MassForRadius(2 * s)
  <2>1. CASE mass >= 4 * m
    <3>1. s = r * 2
      BY <1>3, <1>8, <2>1
    <3>2. MassForRadius(s) = 4 * m /\ MassForRadius(2 * s) = 16 * m /\ s \in Nat
      BY <1>1, <1>4, <3>1
    <3> HIDE DEF mass, s
    <3> QED BY <1>1, <1>4, <1>5, <2>1, <3>2
  <2>2. CASE ~(mass >= 4 * m)
    <3>1. s = r
      BY <1>1, <1>3, <1>8, <2>2
    <3>2. MassForRadius(s) = m /\ MassForRadius(2 * s) = 4 * m /\ s \in Nat
      BY <1>1, <1>4, <3>1 DEF m
    <3> HIDE DEF mass, s
    <3> QED BY <1>1, <1>4, <1>5, <2>2, <3>2
  <2> QED BY <2>1, <2>2
<1> HIDE DEF s, mass, f
<1>11. f = [e EXCEPT !.mass = mass, !.radius = s, !.isDestroyed = flag]
  BY <1>2 DEF s
<1>12. f \in Item
  BY <1>1, <1>9, <1>10, <1>11 DEF Item
<1>13. /\ f.mass = mass /\ f.radius = s /\ f.isDestroyed = flag /\ f.id = e.id /\ f.type = e.type
       /\ f.owner = e.owner /\ f.health = e.health
  BY <1>1, <1>11 DEF Item
<1>14. Sound(f)
  BY <1>5, <1>9, <1>10, <1>12, <1>13 DEF Sound, Sized
<1>15. Follows(e, f) /\ (f.isDestroyed <=> e.isDestroyed)
  BY <1>9, <1>13, <1>14 DEF Follows
<1> QED BY <1>15 DEF f

\* Two ships collide.
LEMMA ShipsCollide ==
  ASSUME NEW a, NEW b, Sound(a), Sound(b)
  PROVE  Follows(a, ShipShip(a, b)[1]) /\ Follows(b, ShipShip(a, b)[2])
PROOF
<1> USE Constants
<1> DEFINE Damage(x, y) == IF x.mass < y.mass THEN LighterDamage
                           ELSE IF x.mass > y.mass THEN HeavierDamage ELSE EqualDamage
           Hurt(x, y)   == ApplyDamage(SubtractScore(x, RamPenalty), Damage(x, y))
           Settle(x, y) == IF y.isDestroyed /\ ~x.isDestroyed THEN CreditFrag(x) ELSE x
<1>1. ASSUME NEW x, NEW y, Sound(x)
      PROVE  Follows(x, Hurt(x, y))
  <2>1. Follows(x, SubtractScore(x, RamPenalty))
    BY <1>1, Scored
  <2>2. Damage(x, y) \in Nat
    OBVIOUS
  <2> HIDE DEF Damage
  <2>3. Follows(SubtractScore(x, RamPenalty), Hurt(x, y))
    BY <2>1, <2>2, Scored DEF Follows
  <2> QED BY <2>1, <2>3, FollowsTwice
<1> HIDE DEF Hurt
<1>2. ASSUME NEW x, NEW y, Sound(x)
      PROVE  Follows(x, Settle(x, y))
  BY <1>2, Scored
<1> HIDE DEF Settle
<1>3. ASSUME NEW x, NEW y, NEW z, Sound(x)
      PROVE  Follows(x, Settle(Hurt(x, y), z))
  <2>1. Follows(x, Hurt(x, y))
    BY <1>1, <1>3
  <2>2. Follows(Hurt(x, y), Settle(Hurt(x, y), z))
    BY <1>2, <2>1 DEF Follows
  <2> QED BY <2>1, <2>2, FollowsTwice
<1>4. \/ ShipShip(a, b) = <<Settle(Hurt(a, b), Hurt(b, a)), Settle(Hurt(b, a), Hurt(a, b))>>
      \/ ShipShip(a, b) = <<a, b>>
  BY Zenon DEF ShipShip, Settle, Hurt
<1>5. Follows(a, a) /\ Follows(b, b)
  BY Scored
<1>6. Follows(a, Settle(Hurt(a, b), Hurt(b, a))) /\ Follows(b, Settle(Hurt(b, a), Hurt(a, b)))
  BY <1>3
<1> QED BY <1>4, <1>5, <1>6

\* A ship absorbs an asteroid.
LEMMA ShipAbsorbs ==
  ASSUME NEW a, NEW b, Sound(a), Sound(b), a.type = "Ship", b.type = "Asteroid", NEW edges \in BOOLEAN
  PROVE  /\ Follows(a, ShipAsteroid(a, b, edges)[1]) /\ Follows(b, ShipAsteroid(a, b, edges)[2])
         /\ ShipAsteroid(a, b, edges)[1].isDestroyed <=> a.isDestroyed
PROOF
<1> USE Constants
<1>1. b.mass \in Nat /\ b.reward \in Nat /\ b.mass <= MaxWeight
  BY DEF Sound, Item
<1>2. Follows(a, a) /\ Follows(b, b) /\ Follows(b, [b EXCEPT !.isDestroyed = TRUE])
  BY Scored
<1>3. CASE ShipAsteroid(a, b, edges) = <<a, b>>
  BY <1>2, <1>3
<1>4. CASE ShipAsteroid(a, b, edges) # <<a, b>>
  <2> DEFINE g == AddMass(a, b.mass, edges)
  <2>1. Edible(a, b) /\ ShipAsteroid(a, b, edges) = <<AddScore(g, b.reward), [b EXCEPT !.isDestroyed = TRUE]>>
    BY <1>4, Zenon DEF ShipAsteroid
  <2>2. Follows(a, g) /\ (g.isDestroyed <=> a.isDestroyed)
    BY <1>1, <2>1, Grown DEF Edible
  <2> HIDE DEF g
  <2>3. Follows(g, AddScore(g, b.reward)) /\ (AddScore(g, b.reward).isDestroyed <=> g.isDestroyed)
    BY <1>1, <2>2, Scored DEF Follows
  <2>4. Follows(a, AddScore(g, b.reward))
    BY <2>2, <2>3, FollowsTwice
  <2>5. AddScore(g, b.reward).isDestroyed <=> a.isDestroyed
    BY <2>2, <2>3
  <2> QED BY <1>2, <2>1, <2>4, <2>5
<1> QED BY <1>3, <1>4

\* A bullet hits a ship: it is spent.
LEMMA BulletHits ==
  ASSUME NEW a, NEW b, Sound(a), Sound(b), Hits(a, b)
  PROVE  /\ Follows(a, BulletShip(a, b)[1]) /\ Follows(b, BulletShip(a, b)[2])
         /\ BulletShip(a, b)[1].isDestroyed
PROOF
<1> DEFINE f == [a EXCEPT !.isDestroyed = TRUE]
           g == ApplyDamage(b, BulletDamage)
<1>1. BulletShip(a, b) = <<f, g>>
  BY DEF BulletShip
<1>2. Follows(a, f) /\ Follows(b, g)
  BY Constants, Scored
<1>3. f.isDestroyed
  BY DEF Sound, Item
<1> HIDE DEF f, g
<1> QED BY <1>1, <1>2, <1>3

-----------------------------------------------------------------------------
(* The pool *)

Values == Item \cup {Nullopt}

\* The pool is well formed: what is free is empty and listed once, entities are
\* sound and numbered below nextId, each with a number of its own.
PoolInv ==
  /\ storage \in Seq(Values) /\ nextId \in Nat \ {0}
  /\ freeIndices \in Seq(Slots)
  /\ \A k \in DOMAIN freeIndices : storage[freeIndices[k]] = Nullopt
  /\ \A j, k \in DOMAIN freeIndices : freeIndices[j] = freeIndices[k] => j = k
  /\ \A i \in Engaged : /\ Sound(storage[i])
                        /\ storage[i].id \in 1 .. (nextId - 1) /\ storage[i].owner \in 0 .. (nextId - 1)
  /\ \A i, j \in Engaged : storage[i].id = storage[j].id => i = j

\* What is credited is credited once, to an entity of the past or one that is
\* flagged: no live entity has a credit.
CreditInv ==
  /\ DOMAIN credits \subseteq 1 .. (nextId - 1)
  /\ \A k \in DOMAIN credits : credits[k] = 1
  /\ \A i \in Engaged : storage[i].id \in DOMAIN credits => storage[i].isDestroyed

LEMMA MaxOfTwo ==
  ASSUME NEW a \in Int, NEW b \in Int
  PROVE  Max({a, b}) = IF a >= b THEN a ELSE b
PROOF
<1> DEFINE m == IF a >= b THEN a ELSE b
<1>1. m \in {a, b} /\ \A y \in {a, b} : m >= y
  OBVIOUS
<1>2. \A x \in {a, b} : (\A y \in {a, b} : x >= y) => x = m
  OBVIOUS
<1>3. Max({a, b}) \in {a, b} /\ \A y \in {a, b} : Max({a, b}) >= y
  BY <1>1, Zenon DEF Max
<1> QED BY <1>2, <1>3

\* The slots stay and what is in them follows what was.
Changed ==
  /\ storage' = [i \in Slots |-> storage'[i]]
  /\ \A i \in Slots : storage'[i] = storage[i] \/ (i \in Engaged /\ Follows(storage[i], storage'[i]))
  /\ UNCHANGED <<freeIndices, nextId>>

LEMMA PoolChanged ==
  ASSUME PoolInv, Changed
  PROVE  /\ PoolInv' /\ Slots' = Slots
         /\ \A i \in Engaged' : i \in Engaged /\ Follows(storage[i], storage'[i])
PROOF
<1>1. /\ Len(storage) \in Nat /\ Slots = 1 .. Len(storage) /\ DOMAIN storage = 1 .. Len(storage)
      /\ \A i \in Slots : storage[i] \in Values
  BY DEF PoolInv, Slots
<1>2. Slots' = Slots /\ Engaged' \subseteq Engaged
  <2>1. Slots' = Slots
    BY DEF Changed, Slots
  <2> QED BY <2>1 DEF Changed, Engaged
<1>3. \A i \in Engaged' : Follows(storage[i], storage'[i])
  <2>1. \A i \in Engaged : Follows(storage[i], storage[i])
    BY Scored DEF PoolInv
  <2> QED BY <1>2, <2>1 DEF Changed, Engaged
<1>4. storage' \in Seq(Values)
  <2>1. \A i \in 1 .. Len(storage) : storage'[i] \in Values
    BY <1>1 DEF Changed, Follows, Sound, Values
  <2>2. storage' \in [1 .. Len(storage) -> Values]
    <3>1. storage' = [i \in Slots |-> storage'[i]]
      BY DEF Changed
    <3> QED BY <1>1, <2>1, <3>1
  <2> QED BY <1>1, <2>2
<1>5. \A k \in DOMAIN freeIndices : freeIndices[k] \in Slots /\ storage'[freeIndices[k]] = Nullopt
  BY DEF PoolInv, Changed, Engaged
<1>6. \A i \in Engaged' : /\ Sound(storage'[i]) /\ storage'[i].id = storage[i].id
                          /\ storage'[i].owner = storage[i].owner
  BY <1>3 DEF Follows
<1> QED BY <1>2, <1>3, <1>4, <1>5, <1>6 DEF PoolInv, Changed

LEMMA IsSequence ==
  ASSUME NEW S, NEW n \in Nat, NEW f \in [1 .. n -> S]
  PROVE  f \in Seq(S) /\ Len(f) = n
  OBVIOUS

LEMMA Taken ==
  ASSUME NEW S, NEW q \in Seq(S), NEW n \in Nat, n <= Len(q)
  PROVE  /\ SubSeq(q, 1, n) \in Seq(S) /\ DOMAIN SubSeq(q, 1, n) = 1 .. n
         /\ \A k \in 1 .. n : SubSeq(q, 1, n)[k] = q[k]
  OBVIOUS

\* Where acquire() puts entities: in slots of their own that were empty or new.
LEMMA Places ==
  ASSUME PoolInv, NEW es \in Seq(Item), Acquire(es)
  PROVE  /\ Len(storage) \in Nat /\ Len(storage') \in Nat /\ Len(storage) <= Len(storage')
         /\ Slots = 1 .. Len(storage) /\ Slots' = 1 .. Len(storage')
         /\ storage' \in Seq(Values)
         /\ nextId' = nextId + Len(es) /\ nextId' <= MaxId + 1
         /\ \A k \in DOMAIN es : SlotFor(k) \in Slots' /\ SlotFor(k) \notin Engaged
         /\ \A j, k \in DOMAIN es : SlotFor(j) = SlotFor(k) => j = k
         /\ \A k \in DOMAIN es : storage'[SlotFor(k)] = es[k]
         /\ \A i \in Slots' : (\A k \in DOMAIN es : SlotFor(k) # i) => i \in Slots /\ storage'[i] = storage[i]
         /\ freeIndices' \in Seq(Slots')
         /\ \A j, k \in DOMAIN freeIndices' : freeIndices'[j] = freeIndices'[k] => j = k
         /\ \A k \in DOMAIN freeIndices' : storage'[freeIndices'[k]] = Nullopt
PROOF
<1> DEFINE s == Len(storage)
           n == Len(es)
           L == Len(freeIndices)
           g == Max({s, s + n - L})
           m == Max({0, L - n})
<1>1. /\ s \in Nat /\ n \in Nat /\ L \in Nat
      /\ Slots = 1 .. s /\ DOMAIN storage = 1 .. s /\ DOMAIN es = 1 .. n /\ DOMAIN freeIndices = 1 .. L
      /\ \A k \in 1 .. L : freeIndices[k] \in 1 .. s /\ storage[freeIndices[k]] = Nullopt
      /\ \A j, k \in 1 .. L : freeIndices[j] = freeIndices[k] => j = k
      /\ \A i \in 1 .. s : storage[i] \in Values
      /\ \A k \in 1 .. n : es[k] \in Item
  BY DEF PoolInv, Slots
<1>2. /\ nextId' = nextId + n /\ nextId + n <= MaxId + 1
      /\ freeIndices' = SubSeq(freeIndices, 1, m)
      /\ storage' = [i \in 1 .. g |-> IF \E k \in DOMAIN es : SlotFor(k) = i
                                        THEN es[CHOOSE k \in DOMAIN es : SlotFor(k) = i] ELSE storage[i]]
  BY DEF Acquire
<1>3. /\ g = (IF n <= L THEN s ELSE s + n - L) /\ m = (IF n <= L THEN L - n ELSE 0)
  <2>1. s \in Int /\ s + n - L \in Int /\ 0 \in Int /\ L - n \in Int
    BY <1>1
  <2>2. /\ g = IF s >= s + n - L THEN s ELSE s + n - L
        /\ m = IF 0 >= L - n THEN 0 ELSE L - n
    BY <2>1, MaxOfTwo
  <2> HIDE DEF g, m, s, n, L
  <2> QED BY <1>1, <2>2
<1> HIDE DEF g, m, s, n, L
<1>4. g \in Nat /\ m \in Nat /\ s <= g /\ m <= L /\ m + n >= L
  BY <1>1, <1>3
<1>5. \A k \in 1 .. n : SlotFor(k) = IF k <= L THEN freeIndices[L + 1 - k] ELSE s + k - L
  BY DEF SlotFor, s, L
<1>6. ASSUME NEW k \in 1 .. n
      PROVE  /\ k <= L => L + 1 - k \in (m + 1) .. L /\ SlotFor(k) \in 1 .. s /\ storage[SlotFor(k)] = Nullopt
             /\ k > L => SlotFor(k) \in (s + 1) .. g
  <2>1. CASE k <= L
    <3>1. L + 1 - k \in (m + 1) .. L /\ L + 1 - k \in 1 .. L
      BY <1>1, <1>3, <2>1
    <3> QED BY <1>1, <1>5, <2>1, <3>1
  <2>2. CASE k > L
    BY <1>1, <1>3, <1>5, <2>2
  <2> QED BY <1>1, <2>1, <2>2
<1>7. ASSUME NEW k \in 1 .. n
      PROVE  SlotFor(k) \in 1 .. g /\ SlotFor(k) \notin Engaged
  BY <1>1, <1>4, <1>6 DEF Engaged
<1>8. ASSUME NEW j \in 1 .. n, NEW k \in 1 .. n, SlotFor(j) = SlotFor(k)
      PROVE  j = k
  <2>1. CASE j <= L /\ k <= L
    <3>1. L + 1 - j \in 1 .. L /\ L + 1 - k \in 1 .. L
      BY <1>1, <2>1
    <3>2. freeIndices[L + 1 - j] = freeIndices[L + 1 - k]
      BY <1>5, <1>8, <2>1
    <3>3. L + 1 - j = L + 1 - k
      BY <1>1, <3>1, <3>2
    <3> QED BY <1>1, <3>3
  <2>2. CASE j > L /\ k > L
    BY <1>1, <1>5, <1>8, <2>2
  <2>3. CASE (j <= L /\ k > L) \/ (j > L /\ k <= L)
    BY <1>1, <1>4, <1>6, <1>8, <2>3
  <2> QED BY <1>1, <2>1, <2>2, <2>3
<1>9. ASSUME NEW k \in 1 .. n
      PROVE  storage'[SlotFor(k)] = es[k]
  <2> DEFINE c == CHOOSE j \in DOMAIN es : SlotFor(j) = SlotFor(k)
  <2>1. c \in DOMAIN es /\ SlotFor(c) = SlotFor(k)
    BY <1>1, Zenon
  <2>2. storage'[SlotFor(k)] = es[c]
    BY <1>1, <1>2, <1>7
  <2> HIDE DEF c
  <2>3. c = k
    BY <1>1, <1>8, <2>1
  <2> QED BY <2>2, <2>3
<1>10. ASSUME NEW i \in 1 .. g, \A k \in 1 .. n : SlotFor(k) # i
       PROVE  i \in 1 .. s /\ storage'[i] = storage[i]
  <2>1. storage'[i] = storage[i]
    BY <1>1, <1>2, <1>10
  <2>2. CASE i > s
    <3>1. n > L /\ i - s + L \in 1 .. n /\ i - s + L > L
      BY <1>1, <1>3, <2>2
    <3>2. SlotFor(i - s + L) = s + (i - s + L) - L
      BY <1>1, <1>5, <3>1
    <3>3. s + (i - s + L) - L = i
      BY <1>1, <1>4
    <3> QED BY <1>10, <3>1, <3>2, <3>3
  <2> QED BY <1>1, <1>4, <2>1, <2>2
<1>11. storage' \in Seq(Values) /\ Len(storage') = g /\ Slots' = 1 .. g
  <2>1. \A i \in 1 .. g : storage'[i] \in Values
    <3>1. ASSUME NEW i \in 1 .. g, NEW k \in 1 .. n, SlotFor(k) = i
          PROVE  storage'[i] \in Values
      BY <1>1, <1>9, <3>1 DEF Values
    <3> QED BY <1>1, <1>10, <3>1
  <2>2. storage' = [i \in 1 .. g |-> storage'[i]]
    BY <1>2
  <2>3. storage' \in [1 .. g -> Values]
    BY <2>1, <2>2
  <2>4. storage' \in Seq(Values) /\ Len(storage') = g
    BY <1>4, <2>3
  <2> QED BY <2>2, <2>4 DEF Slots
<1>12. /\ freeIndices' \in Seq(1 .. g) /\ DOMAIN freeIndices' = 1 .. m
       /\ \A k \in 1 .. m : freeIndices'[k] = freeIndices[k] /\ k \in 1 .. L
  <2>1. freeIndices \in Seq(1 .. s)
    BY <1>1 DEF PoolInv
  <2>2. 1 .. s \subseteq 1 .. g
    BY <1>1, <1>4
  <2>3. freeIndices \in Seq(1 .. g)
    <3>1. freeIndices = [k \in 1 .. L |-> freeIndices[k]]
      BY <1>1, <2>1
    <3>2. \A k \in 1 .. L : freeIndices[k] \in 1 .. g
      BY <1>1, <2>2
    <3>3. freeIndices \in [1 .. L -> 1 .. g]
      BY <3>1, <3>2
    <3> QED BY <1>1, <3>3, IsSequence
  <2>4. \A k \in 1 .. m : k \in 1 .. L
    BY <1>1, <1>4
  <2>5. m \in Nat /\ m <= Len(freeIndices)
    BY <1>1, <1>4 DEF L
  <2> QED BY <1>2, <2>3, <2>4, <2>5, Taken
<1>13. ASSUME NEW k \in 1 .. m
       PROVE  storage'[freeIndices'[k]] = Nullopt
  <2> DEFINE i == freeIndices[k]
  <2>1. k \in 1 .. L /\ i \in 1 .. s /\ i \in 1 .. g /\ freeIndices'[k] = i /\ storage[i] = Nullopt
    BY <1>1, <1>4, <1>12
  <2>2. ASSUME NEW j \in 1 .. n, SlotFor(j) = i
        PROVE  FALSE
    <3>1. CASE j <= L
      <4>1. L + 1 - j \in (m + 1) .. L /\ L + 1 - j \in 1 .. L /\ freeIndices[L + 1 - j] = freeIndices[k]
        BY <1>1, <1>4, <1>5, <1>6, <2>2, <3>1
      <4>2. L + 1 - j = k
        BY <1>1, <2>1, <4>1
      <4> QED BY <1>1, <1>4, <4>1, <4>2
    <3>2. CASE j > L
      BY <1>1, <1>4, <1>6, <2>1, <2>2, <3>2
    <3> QED BY <1>1, <3>1, <3>2
  <2> QED BY <1>10, <2>1, <2>2
<1>14. /\ Len(storage) \in Nat /\ Len(storage') \in Nat /\ Len(storage) <= Len(storage')
       /\ Slots = 1 .. Len(storage) /\ Slots' = 1 .. Len(storage') /\ storage' \in Seq(Values)
       /\ nextId' = nextId + Len(es) /\ nextId' <= MaxId + 1
  BY <1>1, <1>2, <1>4, <1>11 DEF s, n
<1>15. /\ \A k \in DOMAIN es : SlotFor(k) \in Slots' /\ SlotFor(k) \notin Engaged
       /\ \A j, k \in DOMAIN es : SlotFor(j) = SlotFor(k) => j = k
       /\ \A k \in DOMAIN es : storage'[SlotFor(k)] = es[k]
  BY <1>1, <1>7, <1>8, <1>9, <1>11, Zenon
<1>16. \A i \in Slots' : (\A k \in DOMAIN es : SlotFor(k) # i) => i \in Slots /\ storage'[i] = storage[i]
  BY <1>1, <1>10, <1>11, Zenon
<1>17. /\ freeIndices' \in Seq(Slots')
       /\ \A j, k \in DOMAIN freeIndices' : freeIndices'[j] = freeIndices'[k] => j = k
       /\ \A k \in DOMAIN freeIndices' : storage'[freeIndices'[k]] = Nullopt
  BY <1>1, <1>11, <1>12, <1>13, Zenon
<1> QED BY <1>14, <1>15, <1>16, <1>17

\* acquire() numbers the new entities beyond all others, so that they are as yet
\* without a credit.
LEMMA PoolAcquired ==
  ASSUME PoolInv, CreditInv, NEW es \in Seq(Item), Acquire(es), UNCHANGED credits,
         \A k \in DOMAIN es : /\ Sound(es[k]) /\ es[k].id = nextId + k - 1
                              /\ es[k].owner \in 0 .. (nextId + Len(es) - 1)
  PROVE  PoolInv' /\ CreditInv'
PROOF
<1> DEFINE n == Len(es)
<1>1. n \in Nat /\ DOMAIN es = 1 .. n /\ nextId \in Nat \ {0} /\ nextId' = nextId + n
  BY Places DEF PoolInv
<1> HIDE DEF n
<1> DEFINE Old(i) == i \in Engaged /\ storage'[i] = storage[i]
           New(i, k) == k \in 1 .. n /\ SlotFor(k) = i /\ storage'[i] = es[k]
<1>2. ASSUME NEW i \in Engaged'
      PROVE  Old(i) \/ \E k \in 1 .. n : New(i, k)
  <2>1. i \in Slots' /\ storage'[i] # Nullopt
    BY DEF Engaged
  <2>2. CASE \A k \in 1 .. n : SlotFor(k) # i
    <3>1. i \in Slots /\ storage'[i] = storage[i]
      BY <1>1, <2>1, <2>2, Places
    <3> QED BY <2>1, <3>1 DEF Engaged
  <2>3. CASE \E k \in 1 .. n : SlotFor(k) = i
    BY <1>1, <2>3, Places
  <2> QED BY <2>2, <2>3
<1>3. ASSUME NEW i, Old(i)
      PROVE  /\ Sound(storage'[i]) /\ storage'[i].id = storage[i].id /\ storage'[i].owner = storage[i].owner
             /\ storage[i].id \in 1 .. (nextId - 1) /\ storage[i].owner \in 0 .. (nextId - 1)
  BY <1>3 DEF PoolInv
<1>4. ASSUME NEW i, NEW k \in 1 .. n, New(i, k)
      PROVE  /\ Sound(storage'[i]) /\ storage'[i].id = nextId + k - 1 /\ storage'[i].owner \in 0 .. (nextId' - 1)
  BY <1>1, <1>4 DEF n
<1>5. \A i \in Engaged' : /\ Sound(storage'[i]) /\ storage'[i].id \in 1 .. (nextId' - 1)
                          /\ storage'[i].owner \in 0 .. (nextId' - 1)
  <2> SUFFICES ASSUME NEW i \in Engaged'
               PROVE  /\ Sound(storage'[i]) /\ storage'[i].id \in 1 .. (nextId' - 1)
                      /\ storage'[i].owner \in 0 .. (nextId' - 1)
    OBVIOUS
  <2>1. CASE Old(i)
    <3>1. 1 .. (nextId - 1) \subseteq 1 .. (nextId' - 1) /\ 0 .. (nextId - 1) \subseteq 0 .. (nextId' - 1)
      BY <1>1
    <3> QED BY <1>3, <2>1, <3>1
  <2>2. ASSUME NEW k \in 1 .. n, New(i, k)
        PROVE  /\ Sound(storage'[i]) /\ storage'[i].id \in 1 .. (nextId' - 1)
               /\ storage'[i].owner \in 0 .. (nextId' - 1)
    <3>1. nextId + k - 1 \in 1 .. (nextId' - 1)
      BY <1>1
    <3> QED BY <1>4, <2>2, <3>1
  <2> HIDE DEF Old, New
  <2> QED BY <1>2, <2>1, <2>2
<1>6. ASSUME NEW i \in Engaged', NEW j \in Engaged', storage'[i].id = storage'[j].id
      PROVE  i = j
  <2>1. CASE Old(i) /\ Old(j)
    BY <1>3, <1>6, <2>1 DEF PoolInv
  <2>2. ASSUME NEW x, NEW y, Old(x), NEW k \in 1 .. n, New(y, k)
        PROVE  storage'[x].id # storage'[y].id
    <3>1. storage'[x].id \in 1 .. (nextId - 1) /\ storage'[y].id = nextId + k - 1
      BY <1>3, <1>4, <2>2
    <3> QED BY <1>1, <3>1
  <2>3. ASSUME NEW k \in 1 .. n, New(i, k), NEW l \in 1 .. n, New(j, l)
        PROVE  i = j
    <3>1. nextId + k - 1 = nextId + l - 1
      <4>1. storage'[i].id = nextId + k - 1
        BY <1>4, <2>3, Zenon
      <4>2. storage'[j].id = nextId + l - 1
        BY <1>4, <2>3, Zenon
      <4> QED BY <1>6, <4>1, <4>2, Zenon
    <3>2. k = l
      BY <1>1, <3>1
    <3> QED BY <2>3, <3>2
  <2> HIDE DEF Old, New
  <2> QED BY <1>2, <1>6, <2>1, <2>2, <2>3
<1>7. PoolInv'
  <2>1. nextId' \in Nat \ {0}
    BY <1>1
  <2> QED BY <1>5, <1>6, <2>1, Places DEF PoolInv
<1>8. CreditInv'
  <2>1. DOMAIN credits \subseteq 1 .. (nextId - 1) /\ \A k \in DOMAIN credits : credits[k] = 1
    BY DEF CreditInv
  <2>2. 1 .. (nextId - 1) \subseteq 1 .. (nextId' - 1)
    BY <1>1
  <2>3. ASSUME NEW i \in Engaged', storage'[i].id \in DOMAIN credits
        PROVE  storage'[i].isDestroyed
    <3>1. CASE Old(i)
      BY <2>3, <3>1 DEF CreditInv
    <3>2. ASSUME NEW k \in 1 .. n, New(i, k)
          PROVE  FALSE
      <4>1. nextId + k - 1 \in 1 .. (nextId - 1)
        BY <1>4, <2>1, <2>3, <3>2
      <4> QED BY <1>1, <4>1
    <3> HIDE DEF Old, New
    <3> QED BY <1>2, <3>1, <3>2
  <2> QED BY <2>1, <2>2, <2>3 DEF CreditInv
<1> QED BY <1>7, <1>8

LEMMA Joined ==
  ASSUME NEW S, NEW p \in Seq(S), NEW q \in Seq(S)
  PROVE  /\ p \o q \in Seq(S) /\ Len(p \o q) = Len(p) + Len(q) /\ DOMAIN (p \o q) = 1 .. (Len(p) + Len(q))
         /\ \A k \in 1 .. Len(p) : (p \o q)[k] = p[k]
         /\ \A k \in 1 .. (Len(p) + Len(q)) : k > Len(p) => (p \o q)[k] = q[k - Len(p)] /\ k - Len(p) \in 1 .. Len(q)
  OBVIOUS

\* recycleDestroyed() frees the slots of flagged entities and forgets their credits.
LEMMA PoolRecycled ==
  ASSUME PoolInv, CreditInv, RecycleDestroyed
  PROVE  /\ PoolInv' /\ CreditInv' /\ Slots' = Slots
         /\ \A i \in Engaged' : i \in Engaged /\ storage'[i] = storage[i]
PROOF
<1> DEFINE dead == {i \in Engaged : storage[i].isDestroyed}
           ids == {storage[i].id : i \in dead}
<1>1. /\ storage' = [i \in Slots |-> IF i \in dead THEN Nullopt ELSE storage[i]]
      /\ \E freed \in [1 .. Cardinality(dead) -> dead] : Ascends(freed) /\ freeIndices' = freeIndices \o freed
      /\ credits' = [k \in DOMAIN credits \ ids |-> credits[k]]
      /\ nextId' = nextId
  BY DEF RecycleDestroyed, Restrict
<1>2. Len(storage) \in Nat /\ Slots = 1 .. Len(storage) /\ DOMAIN storage = 1 .. Len(storage)
  BY DEF PoolInv, Slots
<1>3. Slots' = Slots
  BY <1>1 DEF Slots
<1>4. Engaged' = Engaged \ dead /\ \A i \in Engaged' : storage'[i] = storage[i]
  BY <1>1, <1>3 DEF Engaged
<1>5. storage' \in Seq(Values)
  <2>1. \A i \in 1 .. Len(storage) : storage[i] \in Values
    BY DEF PoolInv
  <2>2. storage' \in [1 .. Len(storage) -> Values]
    BY <1>1, <1>2, <2>1 DEF Values
  <2> QED BY <1>2, <2>2, IsSequence
<1>6. /\ freeIndices' \in Seq(Slots)
      /\ \A k \in DOMAIN freeIndices' : storage'[freeIndices'[k]] = Nullopt
      /\ \A j, k \in DOMAIN freeIndices' : freeIndices'[j] = freeIndices'[k] => j = k
  <2>1. dead \subseteq Slots /\ IsFiniteSet(Slots)
    BY <1>2, FS_Interval DEF Engaged
  <2>2. Cardinality(dead) \in Nat
    BY <2>1, FS_Subset, FS_CardinalityType
  <2> DEFINE c == Cardinality(dead)
             L == Len(freeIndices)
             f == freeIndices'
  <2>3. PICK freed \in [1 .. c -> dead] : Ascends(freed) /\ f = freeIndices \o freed
    BY <1>1
  <2> HIDE DEF c
  <2>4. c \in Nat
    BY <2>2 DEF c
  <2>5. /\ freeIndices \in Seq(Slots) /\ L \in Nat /\ DOMAIN freeIndices = 1 .. L
        /\ \A k \in 1 .. L : freeIndices[k] \in Slots /\ storage[freeIndices[k]] = Nullopt
        /\ \A j, k \in 1 .. L : freeIndices[j] = freeIndices[k] => j = k
    BY DEF PoolInv
  <2>6. freed \in Seq(Slots) /\ Len(freed) = c /\ DOMAIN freed = 1 .. c
    <3>1. freed \in [1 .. c -> Slots]
      BY <2>1, <2>3
    <3> QED BY <2>4, <3>1, IsSequence
  <2>7. f \in Seq(Slots) /\ Len(f) = L + c /\ DOMAIN f = 1 .. (L + c)
    BY <2>3, <2>5, <2>6, Joined
  <2>8. /\ \A k \in 1 .. L : f[k] = freeIndices[k]
        /\ \A k \in 1 .. (L + c) : k > L => f[k] = freed[k - L] /\ k - L \in 1 .. c
    BY <2>3, <2>5, <2>6, Joined
  <2> HIDE DEF f, L, dead
  <2>9. ASSUME NEW k \in 1 .. (L + c)
        PROVE  storage'[f[k]] = Nullopt
    <3>1. CASE k <= L
      <4>1. k \in 1 .. L
        BY <2>4, <2>5, <3>1
      <4> QED BY <1>1, <2>5, <2>8, <4>1
    <3>2. CASE k > L
      <4>1. f[k] \in dead /\ f[k] \in Slots
        BY <2>1, <2>3, <2>8, <3>2
      <4> QED BY <1>1, <4>1
    <3> QED BY <2>4, <2>5, <3>1, <3>2
  <2>10. \A i, j \in 1 .. c : freed[i] = freed[j] => i = j
    <3> SUFFICES ASSUME NEW i \in 1 .. c, NEW j \in 1 .. c, freed[i] = freed[j]
                 PROVE  i = j
      OBVIOUS
    <3>1. i < j => freed[i] < freed[j]
      BY <2>3, <2>6 DEF Ascends
    <3>2. j < i => freed[j] < freed[i]
      BY <2>3, <2>6 DEF Ascends
    <3>3. freed[i] \in Slots
      BY <2>1, <2>3
    <3>4. freed[i] \in Nat
      BY <1>2, <3>3
    <3> QED BY <2>4, <3>1, <3>2, <3>4
  <2>11. ASSUME NEW j \in 1 .. (L + c), NEW k \in 1 .. (L + c), f[j] = f[k]
         PROVE  j = k
    <3>1. \A i \in 1 .. L : f[i] \notin dead
      BY <2>5, <2>8 DEF dead, Engaged
    <3>2. \A i \in 1 .. (L + c) : i > L => f[i] \in dead
      BY <2>3, <2>8
    <3>3. (j \in 1 .. L \/ j > L) /\ (k \in 1 .. L \/ k > L)
      BY <2>4, <2>5
    <3>4. CASE j \in 1 .. L /\ k \in 1 .. L
      BY <2>5, <2>8, <2>11, <3>4
    <3>5. CASE j > L /\ k > L
      <4>1. j - L = k - L
        BY <2>8, <2>10, <2>11, <3>5
      <4> QED BY <2>4, <2>5, <4>1
    <3>6. ~(j \in 1 .. L /\ k > L) /\ ~(k \in 1 .. L /\ j > L)
      BY <2>11, <3>1, <3>2
    <3> QED BY <3>3, <3>4, <3>5, <3>6
  <2> QED BY <2>7, <2>9, <2>11 DEF f
<1> HIDE DEF dead
<1>7. PoolInv'
  <2>1. \A i \in Engaged' : i \in Engaged /\ storage'[i] = storage[i]
    BY <1>4
  <2>2. \A i \in Engaged' : /\ Sound(storage'[i]) /\ storage'[i].id \in 1 .. (nextId' - 1)
                            /\ storage'[i].owner \in 0 .. (nextId' - 1)
    BY <1>1, <2>1 DEF PoolInv
  <2>3. \A i, j \in Engaged' : storage'[i].id = storage'[j].id => i = j
    BY <2>1 DEF PoolInv
  <2>4. nextId' \in Nat \ {0}
    BY <1>1 DEF PoolInv
  <2> QED BY <1>3, <1>5, <1>6, <2>2, <2>3, <2>4 DEF PoolInv
<1>8. CreditInv'
  <2>1. DOMAIN credits' = DOMAIN credits \ ids /\ \A k \in DOMAIN credits' : credits'[k] = credits[k]
    BY <1>1
  <2>2. \A i \in Engaged' : storage'[i].id \in DOMAIN credits' => storage'[i].isDestroyed
    BY <1>4, <2>1 DEF CreditInv
  <2> QED BY <1>1, <2>1, <2>2 DEF CreditInv
<1> QED BY <1>3, <1>4, <1>7, <1>8

-----------------------------------------------------------------------------
(* The stages of a tick *)

\* A credit goes to live entities that the step flags.
LEMMA CreditChanged ==
  ASSUME PoolInv, CreditInv, Changed, NEW ids, Credit(ids),
         \A k \in ids : \E i \in Engaged : /\ storage[i].id = k /\ ~storage[i].isDestroyed
                                           /\ storage'[i].isDestroyed
  PROVE  CreditInv'
PROOF
<1>1. \A i \in Engaged' : i \in Engaged /\ Follows(storage[i], storage'[i])
  BY PoolChanged
<1>2. /\ DOMAIN credits' = DOMAIN credits \cup ids
      /\ \A k \in DOMAIN credits \cup ids :
           credits'[k] = (IF k \in DOMAIN credits THEN credits[k] ELSE 0) + (IF k \in ids THEN 1 ELSE 0)
  BY DEF Credit
<1>3. ids \cap DOMAIN credits = {} /\ ids \subseteq 1 .. (nextId - 1)
  BY DEF CreditInv, PoolInv
<1>4. \A k \in DOMAIN credits' : credits'[k] = 1
  BY <1>2, <1>3 DEF CreditInv
<1>5. ASSUME NEW i \in Engaged', storage'[i].id \in DOMAIN credits'
      PROVE  storage'[i].isDestroyed
  <2>1. i \in Engaged /\ storage'[i].id = storage[i].id /\ (storage[i].isDestroyed => storage'[i].isDestroyed)
    BY <1>1 DEF Follows
  <2>2. CASE storage[i].id \in DOMAIN credits
    BY <2>1, <2>2 DEF CreditInv
  <2>3. CASE storage[i].id \in ids
    BY <2>1, <2>3 DEF PoolInv
  <2> QED BY <1>2, <1>5, <2>1, <2>2, <2>3
<1>6. DOMAIN credits' \subseteq 1 .. (nextId' - 1)
  BY <1>2, <1>3 DEF CreditInv, Changed
<1> QED BY <1>4, <1>5, <1>6 DEF CreditInv

LEMMA CreditKept ==
  ASSUME PoolInv, CreditInv, Changed, UNCHANGED credits
  PROVE  CreditInv'
PROOF
<1>1. \A i \in Engaged' : i \in Engaged /\ Follows(storage[i], storage'[i])
  BY PoolChanged
<1>2. \A i \in Engaged' : storage'[i].id = storage[i].id /\ (storage[i].isDestroyed => storage'[i].isDestroyed)
  BY <1>1 DEF Follows
<1> QED BY <1>1, <1>2 DEF CreditInv, Changed

\* Entities are flagged.
LEMMA FlagChanges ==
  ASSUME PoolInv, NEW S, S \subseteq Engaged, Flag(S), UNCHANGED <<freeIndices, nextId>>
  PROVE  Changed
PROOF
<1>1. ASSUME NEW i \in Slots
      PROVE  storage'[i] = storage[i] \/ (i \in Engaged /\ Follows(storage[i], storage'[i]))
  <2>1. CASE i \in S
    <3>1. storage'[i] = [storage[i] EXCEPT !.isDestroyed = TRUE] /\ i \in Engaged /\ Sound(storage[i])
      BY <2>1 DEF Flag, PoolInv
    <3>2. Follows(storage[i], [storage[i] EXCEPT !.isDestroyed = TRUE])
      BY <3>1, Scored
    <3> QED BY <3>1, <3>2
  <2>2. CASE i \notin S
    BY <2>2 DEF Flag
  <2> QED BY <2>1, <2>2
<1>2. storage' = [i \in Slots |-> storage'[i]]
  BY DEF Flag
<1> QED BY <1>1, <1>2 DEF Changed

\* Two slots change.
LEMMA TwoChange ==
  ASSUME PoolInv, NEW i \in Engaged, NEW j \in Engaged, i # j, NEW a, NEW b,
         Follows(storage[i], a), Follows(storage[j], b),
         storage' = [storage EXCEPT ![i] = a, ![j] = b], UNCHANGED <<freeIndices, nextId>>
  PROVE  Changed /\ storage'[i] = a /\ storage'[j] = b
PROOF
<1>1. storage \in Seq(Values) /\ i \in Slots /\ j \in Slots /\ Slots = DOMAIN storage
  BY DEF PoolInv, Engaged, Slots
<1>2. storage = [k \in Slots |-> storage[k]]
  BY <1>1
<1>3. storage' = [k \in Slots |-> IF k = j THEN b ELSE IF k = i THEN a ELSE storage[k]]
  BY <1>1, <1>2
<1>4. storage' = [k \in Slots |-> storage'[k]]
  BY <1>3
<1> QED BY <1>1, <1>3, <1>4 DEF Changed

\* Live entities of a type.
LEMMA Alive ==
  ASSUME PoolInv, NEW t, NEW i \in Live(t)
  PROVE  i \in Engaged /\ i \in Slots /\ ~storage[i].isDestroyed /\ storage[i].type = t /\ Sound(storage[i])
  BY DEF Live, Active, PoolInv, Engaged

LEMMA StepShips ==
  ASSUME PoolInv, CreditInv, NEW i, NEW j, CollideShips(i, j)
  PROVE  Changed /\ CreditInv'
PROOF
<1> DEFINE after == ShipShip(storage[i], storage[j])
           ids == {after[k].id : k \in {n \in 1 .. 2 : after[n].isDestroyed /\ ~after[3 - n].isDestroyed}}
<1>1. /\ i \in Live("Ship") /\ j \in Live("Ship") /\ UNCHANGED <<freeIndices, nextId>>
      /\ storage' = [storage EXCEPT ![i] = after[1], ![j] = after[2]]
  BY DEF CollideShips, Visit
<1>2. /\ i \in Engaged /\ ~storage[i].isDestroyed /\ Sound(storage[i])
      /\ j \in Engaged /\ ~storage[j].isDestroyed /\ Sound(storage[j])
  BY <1>1, Alive
<1>3. i # j
  <2>1. i \in Nat
    BY <1>2 DEF Engaged, Slots, PoolInv
  <2> QED BY <2>1 DEF CollideShips
<1>4. Follows(storage[i], after[1]) /\ Follows(storage[j], after[2])
  BY <1>2, ShipsCollide
<1> HIDE DEF after
<1>5. Changed /\ storage'[i] = after[1] /\ storage'[j] = after[2]
  <2> DEFINE a == after[1]
             b == after[2]
  <2>1. storage' = [storage EXCEPT ![i] = a, ![j] = b] /\ Follows(storage[i], a) /\ Follows(storage[j], b)
    BY <1>1, <1>4
  <2> HIDE DEF a, b
  <2>2. Changed /\ storage'[i] = a /\ storage'[j] = b
    BY <1>1, <1>2, <1>3, <2>1, TwoChange
  <2> QED BY <2>2 DEF a, b
<1>6. ASSUME NEW k \in ids
      PROVE  \E s \in Engaged : storage[s].id = k /\ ~storage[s].isDestroyed /\ storage'[s].isDestroyed
  <2>1. PICK n \in 1 .. 2 : k = after[n].id /\ after[n].isDestroyed
    OBVIOUS
  <2>2. after[1].id = storage[i].id /\ after[2].id = storage[j].id
    BY <1>4 DEF Follows
  <2>3. n = 1 \/ n = 2
    OBVIOUS
  <2>4. CASE n = 1
    BY <1>2, <1>5, <2>1, <2>2, <2>4
  <2>5. CASE n = 2
    BY <1>2, <1>5, <2>1, <2>2, <2>5
  <2> QED BY <2>3, <2>4, <2>5
<1>7. CreditInv'
  <2>1. Credit(ids)
    BY DEF CollideShips, after
  <2> HIDE DEF ids
  <2> QED BY <1>5, <1>6, <2>1, CreditChanged
<1> QED BY <1>5, <1>7

LEMMA StepAsteroid ==
  ASSUME PoolInv, CreditInv, NEW i, NEW j, NEW edges \in BOOLEAN, CollideShipAsteroid(i, j, edges)
  PROVE  Changed /\ CreditInv'
PROOF
<1> DEFINE after == ShipAsteroid(storage[i], storage[j], edges)
<1>1. /\ i \in Live("Ship") /\ j \in Live("Asteroid") /\ UNCHANGED <<freeIndices, nextId, credits>>
      /\ storage' = [storage EXCEPT ![i] = after[1], ![j] = after[2]]
  BY DEF CollideShipAsteroid, Visit
<1>2. /\ i \in Engaged /\ Sound(storage[i]) /\ storage[i].type = "Ship"
      /\ j \in Engaged /\ Sound(storage[j]) /\ storage[j].type = "Asteroid"
  BY <1>1, Alive
<1>3. i # j
  BY <1>2
<1>4. Follows(storage[i], after[1]) /\ Follows(storage[j], after[2])
  BY <1>2, ShipAbsorbs
<1> HIDE DEF after
<1>5. Changed
  BY <1>1, <1>2, <1>3, <1>4, TwoChange
<1> QED BY <1>1, <1>5, CreditKept

LEMMA StepBullet ==
  ASSUME PoolInv, CreditInv, NEW b, NEW i, CollideBulletShip(b, i)
  PROVE  Changed /\ CreditInv'
PROOF
<1> DEFINE after   == BulletShip(storage[b], storage[i])
           killed  == after[2].isDestroyed
           shooter == {k \in Live("Ship") : storage[k].id = storage[b].owner}
           New(k)  == CASE k = b -> after[1]
                        [] k = i -> after[2]
                        [] k \in shooter -> RewardShooter(storage[k], killed)
                        [] OTHER -> storage[k]
           ids     == {storage[b].id} \cup IF killed /\ shooter # {} THEN {storage[i].id} ELSE {}
<1>1. /\ b \in Live("Bullet") /\ i \in Live("Ship") /\ Hits(storage[b], storage[i])
      /\ UNCHANGED <<freeIndices, nextId>>
      /\ storage' = [k \in Slots |-> New(k)]
      /\ Credit(ids)
  BY DEF CollideBulletShip, Visit
<1>2. /\ b \in Engaged /\ b \in Slots /\ ~storage[b].isDestroyed /\ Sound(storage[b]) /\ storage[b].type = "Bullet"
      /\ i \in Engaged /\ i \in Slots /\ ~storage[i].isDestroyed /\ Sound(storage[i]) /\ storage[i].type = "Ship"
  BY <1>1, Alive
<1>3. b # i
  BY <1>2
<1>4. /\ Follows(storage[b], after[1]) /\ Follows(storage[i], after[2])
      /\ after[1].isDestroyed
  BY <1>1, <1>2, BulletHits
<1>5. ASSUME NEW k \in shooter
      PROVE  k \in Engaged /\ Follows(storage[k], RewardShooter(storage[k], killed))
  <2>1. k \in Engaged /\ Sound(storage[k])
    BY Alive
  <2>2. (IF killed THEN KillReward ELSE HitReward) \in Nat
    BY Constants
  <2> QED BY <2>1, <2>2, Scored DEF RewardShooter
<1> HIDE DEF after, shooter, killed
<1>6. /\ New(b) = after[1] /\ (b # i => New(i) = after[2])
      /\ \A k \in Slots : /\ k # b /\ k # i /\ k \in shooter => New(k) = RewardShooter(storage[k], killed)
                          /\ k # b /\ k # i /\ k \notin shooter => New(k) = storage[k]
  <2>0. b \notin shooter /\ i \notin shooter
    BY <1>1, <1>2 DEF shooter, Hits, Live
  <2>1. New(b) = after[1]
    BY <1>3, <2>0, Zenon
  <2>2. b # i => New(i) = after[2]
    BY <1>3, <2>0, Zenon
  <2>3. ASSUME NEW k \in Slots, k # b, k # i
        PROVE  /\ k \in shooter => New(k) = RewardShooter(storage[k], killed)
               /\ k \notin shooter => New(k) = storage[k]
    BY <2>3, Zenon
  <2> QED BY <2>1, <2>2, <2>3, Zenon
<1> HIDE DEF New
<1>7. storage'[b] = after[1] /\ storage'[i] = after[2]
  BY <1>1, <1>2, <1>3, <1>6
<1>8. Changed
  <2>1. ASSUME NEW k \in Slots
        PROVE  storage'[k] = storage[k] \/ (k \in Engaged /\ Follows(storage[k], storage'[k]))
    <3>1. CASE k = b \/ k = i
      BY <1>2, <1>4, <1>7, <3>1
    <3>2. CASE k # b /\ k # i /\ k \in shooter
      <4>1. storage'[k] = RewardShooter(storage[k], killed)
        BY <1>1, <1>6, <3>2
      <4> QED BY <1>5, <3>2, <4>1
    <3>3. CASE k # b /\ k # i /\ k \notin shooter
      BY <1>1, <1>6, <3>3
    <3> QED BY <3>1, <3>2, <3>3
  <2>2. storage' = [k \in Slots |-> storage'[k]]
    BY <1>1
  <2> QED BY <1>1, <2>1, <2>2 DEF Changed
<1>9. ASSUME NEW k \in ids
      PROVE  \E s \in Engaged : storage[s].id = k /\ ~storage[s].isDestroyed /\ storage'[s].isDestroyed
  <2>1. k = storage[b].id \/ (k = storage[i].id /\ killed)
    OBVIOUS
  <2> QED BY <1>2, <1>4, <1>7, <2>1 DEF killed
<1>10. CreditInv'
  <2> HIDE DEF ids
  <2> QED BY <1>1, <1>8, <1>9, CreditChanged
<1> QED BY <1>8, <1>10

-----------------------------------------------------------------------------
(* Sums *)

\* f holds the sums of the first numbers of w.
Sums(f, w, n) ==
  /\ f \in [0 .. n -> Nat] /\ f[0] = 0
  /\ \A k \in 1 .. n : f[k] = f[k - 1] + w[k]

\* Total computes them.
LEMMA TotalSums ==
  ASSUME NEW n \in Nat, NEW w \in [1 .. n -> Nat]
  PROVE  \E f : Sums(f, w, n) /\ Total(w) = f[n]
PROOF
<1> DEFINE Sum(m, f) == f = [k \in 0 .. m |-> IF k = 0 THEN 0 ELSE f[k - 1] + w[k]]
           S == {m \in 0 .. n : \E f : Sum(m, f)}
<1>1. 0 \in S
  <2> DEFINE f == [k \in 0 .. 0 |-> 0]
  <2>1. Sum(0, f)
    OBVIOUS
  <2> HIDE DEF f, Sum
  <2> QED BY <2>1
<1>2. ASSUME NEW m \in 1 .. n, m - 1 \in S
      PROVE  m \in S
  <2>1. PICK f : Sum(m - 1, f)
    BY <1>2
  <2> DEFINE g == [k \in 0 .. m |-> IF k = 0 THEN 0 ELSE f[k - 1] + w[k]]
  <2>2. \A k \in 0 .. (m - 1) : f[k] = IF k = 0 THEN 0 ELSE f[k - 1] + w[k]
    BY <2>1
  <2>3. \A k \in 0 .. (m - 1) : g[k] = f[k]
    BY <2>2
  <2>4. \A k \in 1 .. m : k - 1 \in 0 .. (m - 1)
    OBVIOUS
  <2>5. \A k \in 0 .. m : (IF k = 0 THEN 0 ELSE f[k - 1] + w[k]) = (IF k = 0 THEN 0 ELSE g[k - 1] + w[k])
    <3> HIDE DEF g
    <3> QED BY <2>3, <2>4
  <2>6. Sum(m, g)
    BY <2>5, Zenon
  <2> HIDE DEF g, Sum
  <2> QED BY <2>6
<1>3. 0 .. n \subseteq S
  <2> HIDE DEF S
  <2> QED BY <1>1, <1>2, UpTo
<1>4. \E f : Sum(n, f)
  <2>1. n \in 0 .. n
    OBVIOUS
  <2>2. n \in S
    BY <1>3, <2>1, Zenon
  <2> HIDE DEF Sum
  <2> QED BY <2>2, Zenon
<1> DEFINE t == CHOOSE f : Sum(n, f)
<1>5. Sum(n, t)
  BY <1>4, Zenon
<1>6. Total(w) = t[n]
  <2>1. Len(w) = n
    BY IsSequence
  <2>2. Total(w) = (CHOOSE f : f = [k \in 0 .. Len(w) |-> IF k = 0 THEN 0 ELSE f[k - 1] + w[k]])[Len(w)]
    BY Zenon DEF Total
  <2> QED BY <2>1, <2>2
<1> HIDE DEF t
<1>7. /\ t = [k \in 0 .. n |-> t[k]] /\ t[0] = 0
      /\ \A k \in 1 .. n : t[k] = t[k - 1] + w[k]
  <2>1. \A k \in 0 .. n : t[k] = IF k = 0 THEN 0 ELSE t[k - 1] + w[k]
    BY <1>5
  <2>2. t = [k \in 0 .. n |-> t[k]]
    BY <1>5
  <2>3. 0 \in 0 .. n
    OBVIOUS
  <2>4. t[0] = 0
    BY <2>1, <2>3, Zenon
  <2>5. \A k \in 1 .. n : k \in 0 .. n /\ k # 0
    OBVIOUS
  <2>6. \A k \in 1 .. n : t[k] = t[k - 1] + w[k]
    BY <2>1, <2>5, Zenon
  <2> QED BY <2>2, <2>4, <2>6, Zenon
<1> DEFINE R == {k \in 0 .. n : t[k] \in Nat}
<1>8. 0 .. n \subseteq R
  <2>1. 0 \in R
    BY <1>7
  <2>2. ASSUME NEW k \in 1 .. n, k - 1 \in R
        PROVE  k \in R
    <3>1. t[k] = t[k - 1] + w[k]
      BY <1>7, Zenon
    <3>2. t[k - 1] \in Nat /\ w[k] \in Nat /\ k \in 0 .. n
      BY <2>2
    <3>3. t[k] \in Nat
      BY <3>1, <3>2
    <3> QED BY <3>2, <3>3
  <2> HIDE DEF R
  <2> QED BY <2>1, <2>2, UpTo
<1>9. t \in [0 .. n -> Nat]
  BY <1>7, <1>8
<1>10. Sums(t, w, n)
  BY <1>7, <1>9 DEF Sums
<1> QED BY <1>6, <1>10

LEMMA Adds ==
  ASSUME NEW a \in Nat, NEW b \in Nat, NEW x \in Nat, NEW y \in Nat, NEW c \in Nat, NEW d \in Nat,
         a <= x + c, b <= y + d
  PROVE  a + b <= (x + y) + (c + d)
  OBVIOUS

LEMMA AddsUp ==
  ASSUME NEW a \in Nat, NEW b \in Nat, NEW c \in Nat, NEW d \in Nat, NEW e \in Nat,
         a <= b + c, b <= d + e
  PROVE  a <= d + (e + c)
  OBVIOUS

LEMMA AddsAtMost ==
  ASSUME NEW a \in Nat, NEW b \in Nat, NEW c \in Nat, NEW d \in Nat,
         a <= b + c, c <= d
  PROVE  a <= b + d
  OBVIOUS

\* w has more than v only at i, and there at most c more.
More(v, m, w, n, i, c) ==
  \A k \in 1 .. n : w[k] <= (IF k <= m THEN v[k] ELSE 0) + (IF k = i THEN c ELSE 0)

\* So its sum is at most c more.
LEMMA TotalGrows ==
  ASSUME NEW m \in Nat, NEW n \in Nat, m <= n, NEW v \in [1 .. m -> Nat], NEW w \in [1 .. n -> Nat],
         NEW i \in Nat \ {0}, NEW c \in Nat, More(v, m, w, n, i, c)
  PROVE  Total(v) \in Nat /\ Total(w) \in Nat /\ Total(w) <= Total(v) + c
PROOF
<1>1. PICK f : Sums(f, v, m) /\ Total(v) = f[m]
  BY TotalSums
<1>2. PICK g : Sums(g, w, n) /\ Total(w) = g[n]
  BY TotalSums
<1> DEFINE F(k) == IF k <= m THEN f[k] ELSE f[m]
           C(k) == IF i <= k THEN c ELSE 0
           S == {k \in 0 .. n : g[k] <= F(k) + C(k)}
<1>3. \A k \in 0 .. n : F(k) \in Nat /\ g[k] \in Nat /\ C(k) \in Nat
  BY <1>1, <1>2 DEF Sums
<1>4. 0 \in S
  BY <1>1, <1>2, <1>3 DEF Sums
<1>5. ASSUME NEW k \in 1 .. n, k - 1 \in S
      PROVE  k \in S
  <2>1. g[k] = g[k - 1] + w[k] /\ k - 1 \in 0 .. n /\ k \in 0 .. n
    BY <1>2 DEF Sums
  <2>2. F(k) = F(k - 1) + (IF k <= m THEN v[k] ELSE 0)
    <3>1. CASE k <= m
      <4>1. k \in 1 .. m /\ k - 1 <= m
        BY <3>1
      <4>2. f[k] = f[k - 1] + v[k]
        BY <1>1, <4>1 DEF Sums
      <4> QED BY <3>1, <4>1, <4>2
    <3>2. CASE ~(k <= m)
      <4>1. F(k - 1) = f[m] /\ F(k) = f[m]
        BY <3>2
      <4>2. f[m] \in Nat
        BY <1>1 DEF Sums
      <4> HIDE DEF F
      <4> QED BY <3>2, <4>1, <4>2
    <3> QED BY <3>1, <3>2
  <2>3. C(k) >= C(k - 1) /\ (k = i => C(k) = C(k - 1) + c)
    OBVIOUS
  <2>4. g[k - 1] <= F(k - 1) + C(k - 1)
    BY <1>5
  <2>5. (IF k <= m THEN v[k] ELSE 0) \in Nat /\ w[k] \in Nat
    OBVIOUS
  <2> DEFINE a == IF k <= m THEN v[k] ELSE 0
  <2>6. w[k] <= a + (IF k = i THEN c ELSE 0)
    BY DEF More
  <2>7. /\ F(k - 1) \in Nat /\ g[k - 1] \in Nat /\ C(k - 1) \in Nat
        /\ F(k) \in Nat /\ g[k] \in Nat /\ C(k) \in Nat
    BY <1>3, <2>1
  <2> HIDE DEF F, C, a
  <2>8. g[k] <= F(k) + C(k)
    <3>1. F(k) = F(k - 1) + a /\ a \in Nat
      BY <2>2, <2>5 DEF a
    <3>2. CASE k = i
      <4>1. w[k] <= a + c /\ C(k) = C(k - 1) + c
        BY <2>3, <2>6, <3>2
      <4>2. g[k - 1] + w[k] <= (F(k - 1) + a) + (C(k - 1) + c)
        BY <2>4, <2>5, <2>7, <3>1, <4>1, Adds
      <4> QED BY <2>1, <3>1, <4>1, <4>2
    <3>3. CASE k # i
      <4>1. w[k] <= a + 0 /\ C(k) >= C(k - 1)
        BY <2>3, <2>6, <3>3
      <4>2. g[k - 1] + w[k] <= (F(k - 1) + a) + (C(k - 1) + 0)
        BY <2>4, <2>5, <2>7, <3>1, <4>1, Adds
      <4>3. g[k] <= F(k) + C(k - 1)
        BY <2>1, <2>7, <3>1, <4>2
      <4> QED BY <2>7, <4>1, <4>3, AddsAtMost
    <3> QED BY <3>2, <3>3
  <2> QED BY <2>1, <2>8
<1>6. 0 .. n \subseteq S
  <2> HIDE DEF S
  <2> QED BY <1>4, <1>5, UpTo
<1>7. g[n] <= F(n) + C(n) /\ n \in 0 .. n
  BY <1>6
<1>8. F(n) = f[m]
  OBVIOUS
<1>9. f[m] \in Nat /\ g[n] \in Nat /\ C(n) \in {0, c}
  BY <1>1, <1>2 DEF Sums
<1> HIDE DEF C, F
<1> QED BY <1>1, <1>2, <1>7, <1>8, <1>9

\* What u has more than v are numbers of w in places of their own, where v has none.
Fills(w, l, to, v, m, u, n) ==
  /\ \A j, k \in 1 .. l : to[j] = to[k] => j = k
  /\ \A k \in 1 .. l : to[k] <= m => v[to[k]] = 0
  /\ \A i \in 1 .. n : \/ \E k \in 1 .. l : to[k] = i /\ u[i] <= w[k]
                       \/ u[i] <= (IF i <= m THEN v[i] ELSE 0)

LEMMA TotalPlaced ==
  ASSUME NEW m \in Nat, NEW n \in Nat, m <= n, NEW v \in [1 .. m -> Nat], NEW u \in [1 .. n -> Nat],
         NEW l \in Nat, NEW w \in [1 .. l -> Nat], NEW to \in [1 .. l -> 1 .. n],
         Fills(w, l, to, v, m, u, n)
  PROVE  Total(u) <= Total(v) + Total(w)
PROOF
<1>0. /\ \A j, k \in 1 .. l : to[j] = to[k] => j = k
      /\ \A k \in 1 .. l : to[k] <= m => v[to[k]] = 0
  BY DEF Fills
<1>1. PICK h : Sums(h, w, l) /\ Total(w) = h[l]
  BY TotalSums
<1> DEFINE V(i) == IF i <= m THEN v[i] ELSE 0
           Fed(x, k) == \A i \in 1 .. n : (\E j \in 1 .. k : to[j] = i /\ x[i] <= w[j]) \/ x[i] <= V(i)
           Low(x, k) == Total(x) <= Total(v) + h[k]
           S == {k \in 0 .. l : \A x \in [1 .. n -> Nat] : Fed(x, k) => Low(x, k)}
<1>2. /\ \A k \in 0 .. l : h[k] \in Nat
      /\ h[0] = 0 /\ \A k \in 1 .. l : h[k] = h[k - 1] + w[k] /\ w[k] \in Nat
      /\ \A i \in 1 .. n : V(i) \in Nat
  <2>1. \A k \in 0 .. l : h[k] \in Nat
    BY <1>1 DEF Sums
  <2>2. h[0] = 0 /\ \A k \in 1 .. l : h[k] = h[k - 1] + w[k] /\ w[k] \in Nat
    BY <1>1 DEF Sums
  <2>3. \A i \in 1 .. n : V(i) \in Nat
    OBVIOUS
  <2> QED BY <2>1, <2>2, <2>3, Zenon
<1>3. Total(v) \in Nat /\ \A x \in [1 .. n -> Nat] : Total(x) \in Nat
  <2>1. ASSUME NEW p \in Nat, NEW x \in [1 .. p -> Nat]
        PROVE  Total(x) \in Nat
    <3>1. PICK f : Sums(f, x, p) /\ Total(x) = f[p]
      BY TotalSums
    <3> QED BY <3>1 DEF Sums
  <2> QED BY <2>1
<1>4. 0 \in S
  <2>0. 0 \in 0 .. l
    OBVIOUS
  <2> SUFFICES ASSUME NEW x \in [1 .. n -> Nat], Fed(x, 0)
               PROVE  Low(x, 0)
    <3> HIDE DEF Fed, Low
    <3> QED BY <2>0
  <2>1. More(v, m, x, n, 1, 0)
    BY <1>2 DEF More
  <2>2. Total(x) <= Total(v) + 0
    <3>1. 1 \in Nat \ {0} /\ 0 \in Nat
      OBVIOUS
    <3> QED BY <2>1, <3>1, TotalGrows
  <2> QED BY <1>2, <2>2
<1>5. ASSUME NEW k \in 1 .. l, k - 1 \in S
      PROVE  k \in S
  <2>0. k \in 0 .. l
    OBVIOUS
  <2> SUFFICES ASSUME NEW x \in [1 .. n -> Nat], Fed(x, k)
               PROVE  Low(x, k)
    <3> HIDE DEF Fed, Low
    <3> QED BY <2>0
  <2> DEFINE p == to[k]
             y == [i \in 1 .. n |-> IF i = p THEN 0 ELSE x[i]]
  <2>1. p \in 1 .. n /\ y \in [1 .. n -> Nat] /\ x[p] \in Nat
    OBVIOUS
  <2>2. Fed(y, k - 1)
    <3> SUFFICES ASSUME NEW i \in 1 .. n
                 PROVE  (\E j \in 1 .. (k - 1) : to[j] = i /\ y[i] <= w[j]) \/ y[i] <= V(i)
      OBVIOUS
    <3>1. CASE i = p
      BY <1>2, <3>1
    <3>2. CASE i # p
      <4>1. y[i] = x[i]
        BY <3>2
      <4>2. ASSUME NEW j \in 1 .. k, to[j] = i, x[i] <= w[j]
            PROVE  \E q \in 1 .. (k - 1) : to[q] = i /\ y[i] <= w[q]
        <5>1. j # k
          BY <1>0, <3>2, <4>2, Zenon
        <5>2. j \in 1 .. (k - 1)
          BY <5>1
        <5> QED BY <4>1, <4>2, <5>2
      <4> HIDE DEF V, y
      <4> QED BY <4>1, <4>2
    <3> QED BY <3>1, <3>2
  <2>3. Low(y, k - 1)
    <3> HIDE DEF Fed, Low, y
    <3> QED BY <1>5, <2>1, <2>2
  <2>4. x[p] <= w[k]
    <3>1. V(p) = 0
      BY <1>0
    <3>2. ASSUME NEW j \in 1 .. k, to[j] = p, x[p] <= w[j]
          PROVE  x[p] <= w[k]
      <4>1. j = k
        BY <1>0, <3>2
      <4> QED BY <3>2, <4>1
    <3>3. x[p] <= 0 => x[p] <= w[k]
      BY <1>2, <2>1
    <3> HIDE DEF V, p
    <3> QED BY <2>1, <3>1, <3>2, <3>3
  <2>5. Total(x) <= Total(y) + x[p]
    <3>1. More(y, n, x, n, p, x[p])
      <4> SUFFICES ASSUME NEW i \in 1 .. n
                   PROVE  x[i] <= y[i] + (IF i = p THEN x[p] ELSE 0)
        <5> HIDE DEF p, y
        <5> QED BY DEF More
      <4>1. y[i] = (IF i = p THEN 0 ELSE x[i]) /\ x[i] \in Nat
        OBVIOUS
      <4> HIDE DEF p, y
      <4>2. CASE i = p
        <5>1. y[i] = 0 /\ (IF i = p THEN x[p] ELSE 0) = x[i]
          BY <4>1, <4>2
        <5> QED BY <4>1, <5>1
      <4>3. CASE i # p
        <5>1. y[i] = x[i] /\ (IF i = p THEN x[p] ELSE 0) = 0
          BY <4>1, <4>3
        <5> QED BY <4>1, <5>1
      <4> QED BY <4>2, <4>3
    <3>2. p \in Nat \ {0} /\ n <= n
      BY <2>1
    <3> HIDE DEF y, p
    <3> QED BY <2>1, <3>1, <3>2, TotalGrows
  <2>6. Total(y) \in Nat /\ Total(x) \in Nat
    BY <1>3, <2>1
  <2>7. h[k] = h[k - 1] + w[k] /\ h[k - 1] \in Nat /\ w[k] \in Nat
    <3>1. k - 1 \in 0 .. l
      OBVIOUS
    <3> QED BY <1>2, <3>1, Zenon
  <2> HIDE DEF y, p
  <2>8. Total(y) <= Total(v) + h[k - 1]
    BY <2>3
  <2>9. Total(x) <= Total(v) + h[k]
    <3> HIDE DEF V, Fed, Low, S
    <3>1. x[p] \in Nat
      BY <2>1
    <3>2. Total(x) <= Total(y) + w[k]
      BY <2>4, <2>5, <2>6, <2>7, <3>1, AddsAtMost, Zenon
    <3>3. Total(x) <= Total(v) + (h[k - 1] + w[k])
      BY <1>3, <2>6, <2>7, <2>8, <3>2, AddsUp, Zenon
    <3> QED BY <2>7, <3>3, Zenon
  <2> QED BY <2>9
<1>6. 0 .. l \subseteq S
  <2> HIDE DEF S
  <2> QED BY <1>4, <1>5, UpTo
<1>7. Fed(u, l)
  BY DEF Fills
<1>8. l \in 0 .. l
  OBVIOUS
<1> HIDE DEF Fed
<1> QED BY <1>1, <1>6, <1>7, <1>8

-----------------------------------------------------------------------------
(* The budget of asteroids *)

Weights == [i \in Slots |-> IF i \in Live("Asteroid") THEN storage[i].mass ELSE 0]

LEMMA Weighed ==
  PoolInv => /\ Len(storage) \in Nat /\ Slots = 1 .. Len(storage) /\ Weights \in [1 .. Len(storage) -> Nat]
             /\ CurrentWeight = Total(Weights)
PROOF
<1> HAVE PoolInv
<1>1. Len(storage) \in Nat /\ Slots = 1 .. Len(storage)
  BY DEF PoolInv, Slots
<1>2. \A i \in Live("Asteroid") : storage[i].mass \in Nat
  BY Alive DEF Sound, Item
<1>3. Weights \in [1 .. Len(storage) -> Nat]
  BY <1>1, <1>2 DEF Weights
<1>4. CurrentWeight = Total(Weights)
  BY DEF CurrentWeight, Weights
<1> QED BY <1>1, <1>3, <1>4

LEMMA WeighedNext ==
  PoolInv' => /\ Len(storage') \in Nat /\ Slots' = 1 .. Len(storage') /\ Weights' \in [1 .. Len(storage') -> Nat]
              /\ CurrentWeight' = Total(Weights')
PROOF
<1> HAVE PoolInv'
<1>1. Len(storage') \in Nat /\ Slots' = 1 .. Len(storage')
  BY DEF PoolInv, Slots
<1>2. ASSUME NEW i \in Live("Asteroid")'
      PROVE  storage'[i].mass \in Nat
  <2>1. i \in Engaged'
    BY DEF Live, Active
  <2> QED BY <2>1 DEF PoolInv, Sound, Item
<1>3. Weights' \in [1 .. Len(storage') -> Nat]
  BY <1>1, <1>2 DEF Weights
<1>4. CurrentWeight' = Total(Weights')
  BY DEF CurrentWeight, Weights
<1> QED BY <1>1, <1>3, <1>4

\* Asteroids do not appear and do not become heavier when no entity is acquired.
LEMMA Lighter ==
  ASSUME PoolInv, PoolInv', Slots' = Slots,
         \A i \in Engaged' : /\ i \in Engaged /\ storage'[i].type = storage[i].type
                             /\ storage[i].isDestroyed => storage'[i].isDestroyed
                             /\ storage[i].type # "Ship" => storage'[i].mass = storage[i].mass
  PROVE  CurrentWeight' <= CurrentWeight
PROOF
<1> DEFINE n == Len(storage)
<1>1. /\ n \in Nat /\ Slots = 1 .. n /\ Weights \in [1 .. n -> Nat] /\ CurrentWeight = Total(Weights)
  BY Weighed
<1>2. /\ Slots' = 1 .. n /\ Weights' \in [1 .. n -> Nat] /\ CurrentWeight' = Total(Weights')
  <2>1. /\ Len(storage') \in Nat /\ Slots' = 1 .. Len(storage')
        /\ Weights' \in [1 .. Len(storage') -> Nat] /\ CurrentWeight' = Total(Weights')
    BY WeighedNext
  <2>2. Slots' = 1 .. n
    BY <1>1
  <2> HIDE DEF n
  <2> QED BY <2>1, <2>2
<1> HIDE DEF n
<1>3. ASSUME NEW i \in 1 .. n
      PROVE  Weights'[i] <= Weights[i]
  <2>1. Weights'[i] = IF i \in Live("Asteroid")' THEN storage'[i].mass ELSE 0
    BY <1>2 DEF Weights
  <2>2. Weights[i] = IF i \in Live("Asteroid") THEN storage[i].mass ELSE 0
    BY <1>1 DEF Weights
  <2>3. Weights[i] \in Nat
    BY <1>1
  <2>4. CASE i \in Live("Asteroid")'
    <3>1. i \in Engaged' /\ storage'[i].type = "Asteroid" /\ ~storage'[i].isDestroyed
      BY <2>4 DEF Live, Active
    <3>2. i \in Live("Asteroid") /\ storage'[i].mass = storage[i].mass
      BY <1>1, <3>1 DEF Live, Active
    <3> QED BY <2>1, <2>2, <2>3, <2>4, <3>2
  <2>5. CASE i \notin Live("Asteroid")'
    BY <2>1, <2>3, <2>5
  <2> QED BY <2>4, <2>5
<1>4. More(Weights, n, Weights', n, 1, 0)
  <2> SUFFICES ASSUME NEW k \in 1 .. n
               PROVE  Weights'[k] <= (IF k <= n THEN Weights[k] ELSE 0) + (IF k = 1 THEN 0 ELSE 0)
    BY DEF More
  <2>1. Weights'[k] \in Nat /\ Weights[k] \in Nat /\ Weights'[k] <= Weights[k] /\ k <= n
    BY <1>1, <1>2, <1>3
  <2> QED BY <2>1
<1>5. Total(Weights) \in Nat /\ Total(Weights') \in Nat /\ Total(Weights') <= Total(Weights) + 0
  <2>1. n <= n /\ 1 \in Nat \ {0} /\ 0 \in Nat
    BY <1>1
  <2> DEFINE v == Weights
             w == Weights'
  <2>2. v \in [1 .. n -> Nat] /\ w \in [1 .. n -> Nat] /\ More(v, n, w, n, 1, 0)
    BY <1>1, <1>2, <1>4
  <2> HIDE DEF v, w
  <2>3. Total(v) \in Nat /\ Total(w) \in Nat /\ Total(w) <= Total(v) + 0
    BY <1>1, <2>1, <2>2, TotalGrows
  <2> QED BY <2>3 DEF v, w
<1> QED BY <1>1, <1>2, <1>5

\* acquire() adds the weight of the asteroids among the new entities.
LEMMA AcquiredWeight ==
  ASSUME PoolInv, PoolInv', NEW es \in Seq(Item), Acquire(es), NEW w \in [1 .. Len(es) -> Nat],
         \A k \in DOMAIN es : es[k].type = "Asteroid" => es[k].mass <= w[k]
  PROVE  CurrentWeight' <= CurrentWeight + Total(w)
PROOF
<1> DEFINE l == Len(es)
           m == Len(storage)
           n == Len(storage')
           v == Weights
           u == Weights'
           to == [k \in 1 .. l |-> SlotFor(k)]
<1>1. /\ m \in Nat /\ Slots = 1 .. m /\ v \in [1 .. m -> Nat] /\ CurrentWeight = Total(v)
      /\ n \in Nat /\ Slots' = 1 .. n /\ u \in [1 .. n -> Nat] /\ CurrentWeight' = Total(u)
      /\ l \in Nat /\ DOMAIN es = 1 .. l /\ m <= n
  BY Weighed, WeighedNext, Places
<1>2. to \in [1 .. l -> 1 .. n] /\ \A k \in 1 .. l : to[k] = SlotFor(k)
  BY <1>1, Places
<1>3. \A j, k \in 1 .. l : to[j] = to[k] => j = k
  BY <1>1, <1>2, Places
<1>4. \A k \in 1 .. l : to[k] <= m => v[to[k]] = 0
  <2> SUFFICES ASSUME NEW k \in 1 .. l, to[k] <= m
               PROVE  v[to[k]] = 0
    OBVIOUS
  <2>1. to[k] \notin Engaged /\ to[k] \in Slots
    BY <1>1, <1>2, Places
  <2> QED BY <2>1 DEF Weights, Live, Active
<1> HIDE DEF to, l, m, n
<1>5. ASSUME NEW i \in 1 .. n
      PROVE  \/ \E k \in 1 .. l : to[k] = i /\ u[i] <= w[k]
             \/ u[i] <= (IF i <= m THEN v[i] ELSE 0)
  <2>1. u[i] = IF i \in Live("Asteroid")' THEN storage'[i].mass ELSE 0
    BY <1>1 DEF Weights
  <2>2. CASE \E k \in 1 .. l : to[k] = i
    <3>1. PICK k \in 1 .. l : to[k] = i
      BY <2>2
    <3>2. storage'[i] = es[k] /\ w[k] \in Nat
      <4>1. i = SlotFor(k) /\ k \in DOMAIN es
        BY <1>1, <1>2, <3>1
      <4>2. storage'[i] = es[k]
        BY <4>1, Places
      <4>3. w[k] \in Nat
        BY DEF l
      <4> QED BY <4>2, <4>3
    <3>3. CASE i \in Live("Asteroid")'
      <4>1. storage'[i].type = "Asteroid"
        BY <3>3 DEF Live
      <4>2. u[i] <= w[k]
        BY <1>1, <2>1, <3>2, <3>3, <4>1
      <4> QED BY <3>1, <4>2
    <3>4. CASE i \notin Live("Asteroid")'
      <4>1. u[i] = 0
        BY <2>1, <3>4
      <4>2. u[i] <= w[k]
        BY <3>2, <4>1
      <4> QED BY <3>1, <4>2
    <3> QED BY <3>3, <3>4
  <2>3. CASE \A k \in 1 .. l : to[k] # i
    <3>1. i \in Slots /\ storage'[i] = storage[i] /\ i \in Slots'
      <4>1. i \in Slots'
        BY <1>1
      <4>2. \A k \in DOMAIN es : SlotFor(k) # i
        BY <1>1, <1>2, <2>3
      <4>3. (\A k \in DOMAIN es : SlotFor(k) # i) => i \in Slots /\ storage'[i] = storage[i]
        BY <4>1, Places, Zenon
      <4> QED BY <4>1, <4>2, <4>3
    <3>2. i \in Live("Asteroid")' <=> i \in Live("Asteroid")
      BY <3>1 DEF Live, Active, Engaged
    <3>3. v[i] = IF i \in Live("Asteroid") THEN storage[i].mass ELSE 0
      BY <3>1 DEF Weights
    <3>4. u[i] = v[i]
      BY <2>1, <3>1, <3>2, <3>3, Zenon
    <3>5. i <= m /\ v[i] \in Nat
      BY <1>1, <3>1
    <3> HIDE DEF u, v
    <3> QED BY <3>4, <3>5
  <2> QED BY <2>2, <2>3
<1>6. Total(u) <= Total(v) + Total(w)
  <2>1. w \in [1 .. l -> Nat]
    BY DEF l
  <2> HIDE DEF u, v
  <2>2. Fills(w, l, to, v, m, u, n)
    BY <1>3, <1>4, <1>5 DEF Fills
  <2> QED BY <1>1, <1>2, <2>1, <2>2, TotalPlaced
<1> QED BY <1>1, <1>6

LEMMA TotalIsNumber ==
  ASSUME NEW n \in Nat, NEW v \in [1 .. n -> Nat]
  PROVE  Total(v) \in Nat
PROOF
<1>1. PICK f : Sums(f, v, n) /\ Total(v) = f[n]
  BY TotalSums
<1> QED BY <1>1 DEF Sums

LEMMA IsWeight == (PoolInv => CurrentWeight \in Nat) /\ (PoolInv' => CurrentWeight' \in Nat)
  BY TotalIsNumber, Weighed, WeighedNext

LEMMA TotalOfZero == Total([k \in 1 .. 1 |-> 0]) = 0
PROOF
<1> DEFINE w == [k \in 1 .. 1 |-> 0]
<1>1. w \in [1 .. 1 -> Nat] /\ w[1] = 0
  OBVIOUS
<1> HIDE DEF w
<1>2. PICK f : Sums(f, w, 1) /\ Total(w) = f[1]
  BY <1>1, TotalSums
<1>3. f[1] = f[1 - 1] + w[1] /\ f[0] = 0
  BY <1>2 DEF Sums
<1>4. Total(w) = 0
  BY <1>1, <1>2, <1>3
<1> QED BY <1>4 DEF w

\* A bullet or a ship does not count.
LEMMA OneAcquired ==
  ASSUME PoolInv, PoolInv', NEW e \in Item, Acquire(<<e>>), e.type # "Asteroid"
  PROVE  CurrentWeight' <= CurrentWeight
PROOF
<1> DEFINE es == <<e>>
           w == [k \in 1 .. 1 |-> 0]
<1>1. es \in Seq(Item) /\ Len(es) = 1 /\ DOMAIN es = 1 .. 1 /\ w \in [1 .. Len(es) -> Nat]
  OBVIOUS
<1>2. \A k \in DOMAIN es : es[k] = e
  OBVIOUS
<1>3. Acquire(es) /\ Total(w) = 0
  BY TotalOfZero
<1> HIDE DEF es, w
<1>4. CurrentWeight' <= CurrentWeight + Total(w)
  BY <1>1, <1>2, <1>3, AcquiredWeight
<1>5. CurrentWeight \in Nat /\ CurrentWeight' \in Nat
  BY IsWeight
<1> QED BY <1>3, <1>4, <1>5

-----------------------------------------------------------------------------
(* The invariant *)

ArenaInv ==
  /\ PoolInv /\ CreditInv
  /\ AsteroidBudgetKept
  /\ nextId <= MaxId + 1
  /\ stage \in {"idle", "input", "collide", "asteroids", "spawn"}

LEMMA ArenaInit == Init => ArenaInv
PROOF
<1> HAVE Init
<1>1. /\ storage = << >> /\ freeIndices = << >> /\ nextId = 1 /\ stage = "idle"
      /\ DOMAIN credits = {}
  BY DEF Init
<1>2. Len(storage) = 0 /\ Slots = {} /\ Engaged = {}
  BY <1>1 DEF Slots, Engaged
<1>3. PoolInv
  BY <1>1, <1>2 DEF PoolInv
<1>4. CreditInv
  BY <1>1, <1>2 DEF CreditInv
<1>5. AsteroidBudgetKept
  <2>1. Weights \in [1 .. 0 -> Nat] /\ CurrentWeight = Total(Weights)
    BY <1>2, <1>3, Weighed
  <2> DEFINE w == Weights
  <2> HIDE DEF w
  <2>2. PICK f : Sums(f, w, 0) /\ Total(w) = f[0]
    BY <2>1, TotalSums DEF w
  <2>3. CurrentWeight = 0
    BY <2>1, <2>2 DEF Sums, w
  <2> QED BY <2>3, Constants DEF AsteroidBudgetKept
<1>6. nextId <= MaxId + 1
  BY <1>1, ArenaAssumption
<1> QED BY <1>1, <1>3, <1>4, <1>5, <1>6 DEF ArenaInv

\* A step that changes entities in place keeps the pool and the budget.
LEMMA ChangeKeeps ==
  ASSUME ArenaInv, Changed
  PROVE  PoolInv' /\ AsteroidBudgetKept' /\ nextId' <= MaxId + 1
PROOF
<1>1. PoolInv' /\ Slots' = Slots /\ \A i \in Engaged' : i \in Engaged /\ Follows(storage[i], storage'[i])
  BY PoolChanged DEF ArenaInv
<1>2. CurrentWeight' <= CurrentWeight
  BY <1>1, Lighter DEF ArenaInv, Follows
<1>3. CurrentWeight \in Nat /\ CurrentWeight' \in Nat
  BY <1>1, IsWeight DEF ArenaInv
<1>4. CurrentWeight' <= AsteroidsWeight
  BY <1>2, <1>3, Constants DEF ArenaInv, AsteroidBudgetKept
<1> QED BY <1>1, <1>4 DEF ArenaInv, AsteroidBudgetKept, Changed

LEMMA RecycleKeeps ==
  ASSUME ArenaInv, RecycleDestroyed
  PROVE  PoolInv' /\ CreditInv' /\ AsteroidBudgetKept' /\ nextId' <= MaxId + 1
PROOF
<1>1. /\ PoolInv' /\ CreditInv' /\ Slots' = Slots
      /\ \A i \in Engaged' : i \in Engaged /\ storage'[i] = storage[i]
  BY PoolRecycled DEF ArenaInv
<1>2. CurrentWeight' <= CurrentWeight
  BY <1>1, Lighter DEF ArenaInv
<1>3. CurrentWeight \in Nat /\ CurrentWeight' \in Nat
  BY <1>1, IsWeight DEF ArenaInv
<1>4. CurrentWeight' <= AsteroidsWeight
  BY <1>2, <1>3, Constants DEF ArenaInv, AsteroidBudgetKept
<1> QED BY <1>1, <1>4 DEF ArenaInv, AsteroidBudgetKept, RecycleDestroyed

\* One bullet or one ship is acquired.
LEMMA OneKeeps ==
  ASSUME ArenaInv, NEW e, Sound(e), e.id = nextId, e.owner \in 0 .. nextId, e.type # "Asteroid",
         Acquire(<<e>>), UNCHANGED credits
  PROVE  PoolInv' /\ CreditInv' /\ AsteroidBudgetKept' /\ nextId' <= MaxId + 1
PROOF
<1> DEFINE es == <<e>>
<1>1. PoolInv /\ CreditInv /\ AsteroidBudgetKept /\ nextId \in Nat \ {0}
  BY DEF ArenaInv, PoolInv
<1>2. e \in Item
  BY DEF Sound
<1>3. es \in Seq(Item) /\ Len(es) = 1 /\ DOMAIN es = 1 .. 1 /\ Acquire(es)
  BY <1>2
<1>4. \A k \in DOMAIN es : /\ Sound(es[k]) /\ es[k].id = nextId + k - 1
                           /\ es[k].owner \in 0 .. (nextId + Len(es) - 1)
  <2>1. nextId + 1 - 1 = nextId
    BY <1>1
  <2>2. \A k \in DOMAIN es : k = 1 /\ es[k] = e
    BY <1>3
  <2> HIDE DEF es
  <2> QED BY <1>3, <2>1, <2>2
<1> HIDE DEF es
<1>5. PoolInv' /\ CreditInv' /\ nextId' <= MaxId + 1
  BY <1>1, <1>3, <1>4, PoolAcquired, Places
<1>6. CurrentWeight' <= CurrentWeight
  BY <1>1, <1>2, <1>5, OneAcquired
<1>7. CurrentWeight \in Nat /\ CurrentWeight' \in Nat
  BY <1>1, <1>5, IsWeight
<1>8. CurrentWeight' <= AsteroidsWeight
  BY <1>1, <1>6, <1>7, Constants DEF AsteroidBudgetKept
<1> QED BY <1>5, <1>8 DEF AsteroidBudgetKept

\* AsteroidFactory spends what is left of the budget.
LEMMA AsteroidsKeep ==
  ASSUME ArenaInv, UpdateAsteroids
  PROVE  PoolInv' /\ CreditInv' /\ AsteroidBudgetKept' /\ nextId' <= MaxId + 1
PROOF
<1>1. PoolInv /\ CreditInv /\ nextId \in Nat \ {0} /\ CurrentWeight \in Nat
  BY IsWeight DEF ArenaInv, PoolInv
<1>2. PICK w \in GenerateAsteroidWeight(CurrentWeight) :
        Acquire([k \in DOMAIN w |-> NewAsteroid(nextId + k - 1, w[k])])
  BY DEF UpdateAsteroids
<1>3. PICK l \in 0 .. MaxSlots : w \in [1 .. l -> MinWeight .. MaxWeight]
  BY <1>2 DEF GenerateAsteroidWeight, SeqOf
<1>4. PICK drawn \in MinWeight .. (AsteroidsWeight - CurrentWeight) : Total(w) <= drawn
  BY <1>2 DEF GenerateAsteroidWeight
<1>5. l \in Nat /\ DOMAIN w = 1 .. l /\ w \in [1 .. l -> Nat]
      /\ \A k \in 1 .. l : w[k] \in Nat /\ w[k] <= MaxWeight
  BY <1>3, Constants
<1> DEFINE es == [k \in 1 .. l |-> NewAsteroid(nextId + k - 1, w[k])]
<1>6. Acquire(es)
  BY <1>2, <1>5
<1>7. ASSUME NEW k \in 1 .. l
      PROVE  /\ es[k] = NewAsteroid(nextId + k - 1, w[k]) /\ Sound(es[k]) /\ es[k] \in Item
             /\ es[k].id = nextId + k - 1 /\ es[k].owner = 0 /\ es[k].mass = w[k]
  <2>1. nextId + k - 1 \in Nat
    BY <1>1, <1>5
  <2>2. es[k] = NewAsteroid(nextId + k - 1, w[k])
    OBVIOUS
  <2> HIDE DEF es
  <2>3. Sound(es[k]) /\ es[k].id = nextId + k - 1 /\ es[k].owner = 0 /\ es[k].mass = w[k]
    BY <1>5, <2>1, <2>2, NewEntities
  <2> QED BY <2>2, <2>3 DEF Sound
<1>8. es \in Seq(Item) /\ Len(es) = l /\ DOMAIN es = 1 .. l
  <2>1. es \in [1 .. l -> Item]
    <3>1. es = [k \in 1 .. l |-> es[k]]
      OBVIOUS
    <3> HIDE DEF es
    <3> QED BY <1>7, <3>1
  <2> HIDE DEF es
  <2> QED BY <1>5, <2>1, IsSequence
<1> HIDE DEF es
<1>9. UNCHANGED credits
  BY DEF UpdateAsteroids
<1>10. PoolInv' /\ CreditInv'
  <2>1. \A k \in DOMAIN es : /\ Sound(es[k]) /\ es[k].id = nextId + k - 1
                             /\ es[k].owner \in 0 .. (nextId + Len(es) - 1)
    <3>1. 0 \in 0 .. (nextId + l - 1)
      BY <1>1, <1>5
    <3> QED BY <1>7, <1>8, <3>1
  <2> QED BY <1>1, <1>6, <1>8, <1>9, <2>1, PoolAcquired
<1>11. nextId' <= MaxId + 1
  BY <1>1, <1>6, <1>8, Places
<1>12. CurrentWeight' <= CurrentWeight + Total(w)
  <2>1. \A k \in DOMAIN es : es[k].mass <= w[k]
    BY <1>5, <1>7, <1>8
  <2>2. w \in [1 .. Len(es) -> Nat]
    BY <1>5, <1>8
  <2> QED BY <1>1, <1>6, <1>8, <1>10, <2>1, <2>2, AcquiredWeight
<1>13. Total(w) \in Nat /\ CurrentWeight' \in Nat
  BY <1>5, <1>10, TotalIsNumber, IsWeight
<1>14. CurrentWeight' <= AsteroidsWeight
  <2>1. drawn \in Int /\ drawn <= AsteroidsWeight - CurrentWeight
    BY <1>1, Constants
  <2> QED BY <1>1, <1>4, <1>12, <1>13, <2>1, Constants
<1> QED BY <1>10, <1>11, <1>14 DEF AsteroidBudgetKept

\* Every step preserves the invariant.
LEMMA ArenaNext == ArenaInv /\ [Next]_vars => ArenaInv'
PROOF
<1> SUFFICES ASSUME ArenaInv, [Next]_vars
             PROVE  ArenaInv'
  OBVIOUS
<1> USE DEF ArenaInv
<1>1. ASSUME NEW i \in Slots, Shoot(i)
      PROVE  ArenaInv'
  <2> DEFINE e == NewBullet(nextId, storage[i].id)
  <2>1. nextId \in Nat /\ storage[i].id \in 1 .. (nextId - 1)
    <3>1. i \in Live("Ship")
      BY <1>1 DEF Shoot
    <3>2. i \in Engaged
      BY <3>1, Alive
    <3> QED BY <3>2 DEF PoolInv
  <2>2. storage[i].id \in Nat /\ storage[i].id \in 0 .. nextId
    BY <2>1
  <2>3. Sound(e) /\ e.id = nextId /\ e.owner \in 0 .. nextId /\ e.type # "Asteroid"
    BY <2>1, <2>2, NewEntities
  <2>4. Acquire(<<e>>) /\ UNCHANGED credits /\ stage' = "input"
    BY <1>1 DEF Shoot, Input
  <2> HIDE DEF e
  <2> QED BY <2>3, <2>4, OneKeeps
<1>2. ASSUME NEW i \in Slots, Quit(i)
      PROVE  ArenaInv'
  <2>1. {i} \subseteq Engaged
    BY <1>2, Alive DEF Quit
  <2>2. Changed /\ UNCHANGED credits /\ stage' = "input"
    BY <1>2, <2>1, FlagChanges DEF Quit, Input
  <2> QED BY <2>2, ChangeKeeps, CreditKept
<1>3. ASSUME UpdatePhysics
      PROVE  ArenaInv'
  <2>1. PICK S \in SUBSET Live("Bullet") : Flag(S)
    BY <1>3 DEF UpdatePhysics
  <2>2. S \subseteq Engaged
    BY <2>1, Alive
  <2>3. Changed /\ UNCHANGED credits /\ stage' = "collide"
    BY <1>3, <2>1, <2>2, FlagChanges DEF UpdatePhysics, Input
  <2> QED BY <2>3, ChangeKeeps, CreditKept
<1>4. ASSUME NEW i \in Slots, NEW j \in Slots, CollideShips(i, j)
      PROVE  ArenaInv'
  <2>1. stage' = stage
    BY <1>4 DEF CollideShips, Visit
  <2> QED BY <1>4, <2>1, StepShips, ChangeKeeps
<1>5. ASSUME NEW i \in Slots, NEW j \in Slots, NEW edges \in BOOLEAN, CollideShipAsteroid(i, j, edges)
      PROVE  ArenaInv'
  <2>1. stage' = stage
    BY <1>5 DEF CollideShipAsteroid, Visit
  <2> QED BY <1>5, <2>1, StepAsteroid, ChangeKeeps
<1>6. ASSUME NEW i \in Slots, NEW j \in Slots, CollideBulletShip(i, j)
      PROVE  ArenaInv'
  <2>1. stage' = stage
    BY <1>6 DEF CollideBulletShip, Visit
  <2> QED BY <1>6, <2>1, StepBullet, ChangeKeeps
<1>7. ASSUME Reap
      PROVE  ArenaInv'
  <2>1. RecycleDestroyed /\ stage' = "asteroids"
    BY <1>7 DEF Reap
  <2> QED BY <2>1, RecycleKeeps
<1>8. ASSUME UpdateAsteroids
      PROVE  ArenaInv'
  <2>1. stage' = "spawn"
    BY <1>8 DEF UpdateAsteroids
  <2> QED BY <1>8, <2>1, AsteroidsKeep
<1>9. ASSUME SpawnShip
      PROVE  ArenaInv'
  <2> DEFINE e == NewShip(nextId)
  <2>1. nextId \in Nat /\ nextId \in 0 .. nextId
    BY DEF PoolInv
  <2>2. Sound(e) /\ e.id = nextId /\ e.owner \in 0 .. nextId /\ e.type # "Asteroid"
    BY <2>1, NewEntities
  <2>3. Acquire(<<e>>) /\ UNCHANGED credits /\ stage' = "spawn"
    BY <1>9 DEF SpawnShip
  <2> HIDE DEF e
  <2> QED BY <2>2, <2>3, OneKeeps
<1>10. ASSUME NEW tick \in Words, Broadcast(tick)
       PROVE  ArenaInv'
  <2>1. RecycleDestroyed /\ stage' = "idle"
    BY <1>10 DEF Broadcast
  <2> QED BY <2>1, RecycleKeeps
<1>11. ASSUME UNCHANGED vars
       PROVE  ArenaInv'
  <2>1. UNCHANGED <<storage, freeIndices, nextId, stage, credits>>
    BY <1>11 DEF vars, pool
  <2>2. PoolInv' /\ CreditInv'
    BY <2>1 DEF PoolInv, CreditInv, Engaged, Slots
  <2>3. CurrentWeight' = CurrentWeight
    BY <2>1 DEF CurrentWeight, Live, Active, Engaged, Slots
  <2> QED BY <2>1, <2>2, <2>3 DEF AsteroidBudgetKept
<1> HIDE DEF ArenaInv
<1> QED BY <1>1, <1>2, <1>3, <1>4, <1>5, <1>6, <1>7, <1>8, <1>9, <1>10, <1>11 DEF Next, Collide

LEMMA ArenaCorrect == Spec => []ArenaInv
  BY ArenaInit, ArenaNext, PTL DEF Spec

-----------------------------------------------------------------------------
(* What it means for the game *)

\* The type invariant of the arena.
THEOREM TypeCorrect == Spec => []TypeOK
PROOF
<1>1. ArenaInv => TypeOK
  <2>1. \A e : Sound(e) => /\ e.type \in Types /\ e.health \in 0 .. FullHealth /\ e.score \in 0 .. MaxScore
                           /\ e.frags \in 0 .. MaxFrags
    BY DEF Sound, Item
  <2>2. ASSUME ArenaInv
        PROVE  nextId \in 1 .. (MaxId + 1)
    BY <2>2, ArenaAssumption DEF ArenaInv, PoolInv
  <2> QED BY <2>1, <2>2 DEF ArenaInv, PoolInv, Types, TypeOK
<1> QED BY <1>1, ArenaCorrect, PTL

\* resolveCollisions() never counts a bullet twice and never rewards the death of a
\* ship twice, whatever touches whatever in a tick: what earns a credit is live
\* before and flagged by the same handler, and no live entity has a credit.
THEOREM RewardedCorrect == Spec => []RewardedOnce
PROOF
<1>1. ArenaInv => RewardedOnce
  BY DEF ArenaInv, CreditInv, RewardedOnce
<1> QED BY <1>1, ArenaCorrect, PTL

\* Entity::addMass() keeps radius and mass in step, and no ship outgrows the world:
\* as absorbing needs an asteroid of more than a fifth of the ship's mass, one
\* doubling is always enough and tryGrowShip() never refuses it.
THEOREM GrowthCorrect == Spec => []GrowthIsBounded
PROOF
<1>1. ArenaInv => GrowthIsBounded
  BY DEF ArenaInv, PoolInv, Sound, Sized, GrowthIsBounded
<1> QED BY <1>1, ArenaCorrect, PTL

\* Absorbing an asteroid never destroys the ship.
GrowthSurvived ==
  \A i, j \in Slots, edges \in BOOLEAN :
    CollideShipAsteroid(i, j, edges) => ~storage'[i].isDestroyed

\* WorldInstance never has to destroy a ship because tryGrowShip() refused it: where
\* that could happen, the mass would have to exceed the bound of GrowthIsBounded.
THEOREM GrowthSurvivedCorrect == Spec => [][GrowthSurvived]_vars
PROOF
<1>1. ASSUME ArenaInv, NEW i \in Slots, NEW j \in Slots, NEW edges \in BOOLEAN, CollideShipAsteroid(i, j, edges)
      PROVE  ~storage'[i].isDestroyed
  <2> DEFINE after == ShipAsteroid(storage[i], storage[j], edges)
  <2>1. /\ i \in Live("Ship") /\ j \in Live("Asteroid")
        /\ storage' = [storage EXCEPT ![i] = after[1], ![j] = after[2]]
    BY <1>1 DEF CollideShipAsteroid
  <2>2. /\ ~storage[i].isDestroyed /\ Sound(storage[i]) /\ storage[i].type = "Ship"
        /\ Sound(storage[j]) /\ storage[j].type = "Asteroid"
    BY <1>1, <2>1, Alive DEF ArenaInv
  <2>3. ~after[1].isDestroyed
    BY <2>2, ShipAbsorbs
  <2>4. i # j
    BY <2>2
  <2> HIDE DEF after
  <2>5. storage'[i] = after[1]
    BY <1>1, <2>1, <2>4 DEF ArenaInv, PoolInv, Slots
  <2> QED BY <2>3, <2>5
<1>2. ArenaInv /\ [Next]_vars => [GrowthSurvived]_vars
  BY <1>1 DEF GrowthSurvived
<1> QED BY <1>2, ArenaCorrect, PTL DEF Spec

\* AsteroidFactory::update() keeps the live asteroids within their budget, however
\* many slots acquire() takes from those freed before.
THEOREM BudgetCorrect == Spec => []AsteroidBudgetKept
PROOF
<1>1. ArenaInv => AsteroidBudgetKept
  BY DEF ArenaInv
<1> QED BY <1>1, ArenaCorrect, PTL

-----------------------------------------------------------------------------
(* Flattening *)

\* r is p, of m elements, followed by q, of n elements.
Appended(r, p, m, q, n) ==
  /\ Len(r) = m + n
  /\ \A k \in 1 .. m : r[k] = p[k]
  /\ \A j \in 1 .. n : r[m + j] = q[j]

LEMMA ConcatenatedFacts ==
  ASSUME NEW S, NEW p \in Seq(S), NEW q \in Seq(S)
  PROVE  p \o q \in Seq(S) /\ Appended(p \o q, p, Len(p), q, Len(q))
  BY DEF Appended

LEMMA Concatenated ==
  ASSUME NEW S, NEW p \in Seq(S), NEW q \in Seq(S), NEW m, NEW n, Len(p) = m, Len(q) = n,
         NEW r, r = p \o q
  PROVE  r \in Seq(S) /\ Appended(r, p, m, q, n)
  BY ConcatenatedFacts, Zenon

\* t[k] is the concatenation of the first k of n sequences.
Joins(t, seqs, n, S) ==
  /\ t \in [0 .. n -> Seq(S)] /\ t[0] = << >>
  /\ \A k \in 1 .. n : t[k] = t[k - 1] \o seqs[k]

LEMMA NoElements ==
  ASSUME NEW S, NEW f \in [1 .. 0 -> S]
  PROVE  f = << >>
PROOF
<1>1. f \in Seq(S) /\ Len(f) = 0
  BY IsSequence
<1> QED BY <1>1

\* FlattenSeq computes the concatenation.
LEMMA Flattened ==
  ASSUME NEW S, NEW n \in Nat, NEW seqs \in [1 .. n -> Seq(S)]
  PROVE  \E t : Joins(t, seqs, n, S) /\ FlattenSeq(seqs) = t[n]
PROOF
<1> DEFINE Flat(m, f) == f = [i \in 1 .. m |-> IF i = 1 THEN seqs[i] ELSE f[i - 1] \o seqs[i]]
           M == {m \in 0 .. n : \E f : Flat(m, f)}
<1>0. Len(seqs) = n
  BY IsSequence
<1>1. 0 \in M
  <2> DEFINE f == [i \in 1 .. 0 |-> 0]
  <2>1. Flat(0, f)
    OBVIOUS
  <2> HIDE DEF f, Flat
  <2> QED BY <2>1
<1>2. ASSUME NEW m \in 1 .. n, m - 1 \in M
      PROVE  m \in M
  <2>1. PICK f : Flat(m - 1, f)
    BY <1>2
  <2> DEFINE g == [i \in 1 .. m |-> IF i = 1 THEN seqs[i] ELSE f[i - 1] \o seqs[i]]
  <2>2. \A i \in 1 .. (m - 1) : f[i] = IF i = 1 THEN seqs[i] ELSE f[i - 1] \o seqs[i]
    BY <2>1
  <2>3. \A i \in 1 .. (m - 1) : g[i] = f[i]
    BY <2>2
  <2>4. \A i \in 1 .. m : i = 1 \/ i - 1 \in 1 .. (m - 1)
    OBVIOUS
  <2>5. \A i \in 1 .. m : (IF i = 1 THEN seqs[i] ELSE f[i - 1] \o seqs[i])
                            = (IF i = 1 THEN seqs[i] ELSE g[i - 1] \o seqs[i])
    <3> HIDE DEF g
    <3> QED BY <2>3, <2>4, Zenon
  <2>6. Flat(m, g)
    BY <2>5, Zenon
  <2> HIDE DEF g, Flat
  <2> QED BY <2>6
<1>3. 0 .. n \subseteq M
  <2> HIDE DEF M
  <2> QED BY <1>1, <1>2, UpTo
<1>4. \E f : Flat(n, f)
  <2>1. n \in 0 .. n
    OBVIOUS
  <2>2. n \in M
    BY <1>3, <2>1, Zenon
  <2> HIDE DEF Flat
  <2> QED BY <2>2, Zenon
<1> DEFINE u == CHOOSE f : Flat(n, f)
           t == [k \in 0 .. n |-> IF k = 0 THEN << >> ELSE u[k]]
<1>5. Flat(n, u)
  BY <1>4, Zenon
<1>6. FlattenSeq(seqs) = t[n]
  <2>1. CASE n = 0
    <3>1. seqs \in [1 .. 0 -> Seq(S)]
      BY <2>1
    <3>2. seqs = << >>
      BY <3>1, NoElements
    <3>3. FlattenSeq(seqs) = seqs
      BY <1>0, <2>1, Zenon DEF FlattenSeq
    <3>4. t[n] = << >>
      BY <2>1
    <3> QED BY <3>2, <3>3, <3>4, Zenon
  <2>2. CASE n # 0
    <3>1. FlattenSeq(seqs) = (CHOOSE f : f = [i \in 1 .. Len(seqs) |->
                                IF i = 1 THEN seqs[i] ELSE f[i - 1] \o seqs[i]])[Len(seqs)]
      BY <1>0, <2>2, Zenon DEF FlattenSeq
    <3>2. FlattenSeq(seqs) = u[n]
      BY <1>0, <3>1
    <3> HIDE DEF u
    <3>3. t[n] = u[n]
      BY <2>2
    <3> QED BY <3>2, <3>3, Zenon
  <2> QED BY <2>1, <2>2
<1> HIDE DEF u
<1>7. t[0] = << >> /\ \A k \in 1 .. n : t[k] = u[k]
  OBVIOUS
<1>8. \A i \in 1 .. n : u[i] = IF i = 1 THEN seqs[i] ELSE u[i - 1] \o seqs[i]
  BY <1>5
<1> HIDE DEF t
<1>9. ASSUME NEW k \in 1 .. n
      PROVE  t[k] = t[k - 1] \o seqs[k]
  <2>1. CASE k = 1
    <3>1. t[k] = seqs[k] /\ t[k - 1] = << >>
      BY <1>7, <1>8, <2>1
    <3>2. seqs[k] \in Seq(S)
      OBVIOUS
    <3> QED BY <3>1, <3>2
  <2>2. CASE k # 1
    <3>1. k - 1 \in 1 .. n
      BY <2>2
    <3>2. t[k - 1] = u[k - 1] /\ t[k] = u[k]
      BY <1>7, <3>1, Zenon
    <3>3. u[k] = u[k - 1] \o seqs[k]
      BY <1>8, <2>2, Zenon
    <3> QED BY <3>2, <3>3, Zenon
  <2> QED BY <2>1, <2>2
<1> DEFINE R == {k \in 0 .. n : t[k] \in Seq(S)}
<1>10. 0 .. n \subseteq R
  <2>1. 0 \in R
    <3>1. << >> \in Seq(S) /\ 0 \in 0 .. n
      OBVIOUS
    <3>2. t[0] \in Seq(S)
      BY <1>7, <3>1, Zenon
    <3> QED BY <3>1, <3>2, Zenon
  <2>2. ASSUME NEW k \in 1 .. n, k - 1 \in R
        PROVE  k \in R
    <3>1. t[k - 1] \in Seq(S) /\ seqs[k] \in Seq(S) /\ k \in 0 .. n
      BY <2>2
    <3>2. t[k - 1] \o seqs[k] \in Seq(S)
      BY <3>1
    <3> QED BY <1>9, <3>1, <3>2
  <2> HIDE DEF R
  <2> QED BY <2>1, <2>2, UpTo
<1>11. t \in [0 .. n -> Seq(S)]
  <2>1. t = [k \in 0 .. n |-> t[k]]
    BY DEF t
  <2> QED BY <1>10, <2>1
<1>12. Joins(t, seqs, n, S)
  BY <1>7, <1>9, <1>11, Zenon DEF Joins
<1> QED BY <1>6, <1>12

LEMMA Times ==
  ASSUME NEW w \in Nat
  PROVE  /\ w * 0 = 0 /\ \A k \in Nat : w * k \in Nat
         /\ \A k \in Nat \ {0} : w * k = w * (k - 1) + w
         /\ \A j, k \in Nat : j < k => w * j + w <= w * k
PROOF
<1>1. w * 0 = 0 /\ (\A k \in Nat : w * k \in Nat) /\ \A k \in Nat \ {0} : w * k = w * (k - 1) + w
  OBVIOUS
<1>2. ASSUME NEW j \in Nat, NEW k \in Nat, j < k
      PROVE  w * j + w <= w * k
  <2>1. PICK d \in Nat : k = j + 1 + d
    <3>1. k - j - 1 \in Nat /\ k = j + 1 + (k - j - 1)
      BY <1>2
    <3> QED BY <3>1
  <2>2. w * k = w * j + w + w * d /\ w * d \in Nat
    BY <2>1
  <2>3. w * j \in Nat
    OBVIOUS
  <2> QED BY <2>2, <2>3
<1> QED BY <1>1, <1>2

\* r is made of n sequences of w elements.
MadeOf(r, seqs, n, w) ==
  /\ Len(r) = w * n
  /\ \A k \in 1 .. n : \A j \in 1 .. w :
       w * (k - 1) + j \in 1 .. (w * n) /\ r[w * (k - 1) + j] = seqs[k][j]

LEMMA Blocks ==
  ASSUME NEW S, NEW n \in Nat, NEW w \in Nat, NEW seqs \in [1 .. n -> Seq(S)],
         \A k \in 1 .. n : Len(seqs[k]) = w
  PROVE  FlattenSeq(seqs) \in Seq(S) /\ MadeOf(FlattenSeq(seqs), seqs, n, w)
PROOF
<1>1. PICK t : Joins(t, seqs, n, S) /\ FlattenSeq(seqs) = t[n]
  BY Flattened
<1> DEFINE P(m) == MadeOf(t[m], seqs, m, w)
           R == {m \in 0 .. n : P(m)}
<1>2. \A k \in 0 .. n : t[k] \in Seq(S)
  BY <1>1 DEF Joins
<1>3. 0 \in R
  <2>1. t[0] = << >> /\ w * 0 = 0
    BY <1>1, Times DEF Joins
  <2> QED BY <2>1 DEF MadeOf
<1>4. ASSUME NEW m \in 1 .. n, m - 1 \in R
      PROVE  m \in R
  <2>1. /\ t[m] = t[m - 1] \o seqs[m] /\ t[m - 1] \in Seq(S) /\ seqs[m] \in Seq(S)
        /\ Len(seqs[m]) = w /\ P(m - 1)
    BY <1>1, <1>2, <1>4 DEF Joins
  <2> DEFINE a == w * (m - 1)
             b == w * m
  <2>2. a \in Nat /\ b = a + w
    BY Times
  <2>3. Len(t[m - 1]) = a
    BY <2>1 DEF MadeOf
  <2>4. ASSUME NEW k \in 1 .. (m - 1), NEW j \in 1 .. w
        PROVE  w * (k - 1) + j \in 1 .. a /\ t[m - 1][w * (k - 1) + j] = seqs[k][j]
    BY <2>1 DEF MadeOf
  <2> HIDE DEF P, a, b
  <2>5. /\ Len(t[m]) = b
        /\ \A x \in 1 .. a : x \in 1 .. b /\ t[m][x] = t[m - 1][x]
        /\ \A j \in 1 .. w : a + j \in 1 .. b /\ t[m][a + j] = seqs[m][j]
    <3>1. /\ Len(t[m]) = a + w /\ \A x \in 1 .. a : t[m][x] = t[m - 1][x]
          /\ \A j \in 1 .. w : t[m][a + j] = seqs[m][j]
      <4>1. Appended(t[m], t[m - 1], a, seqs[m], w)
        BY <2>1, <2>3, Concatenated, Zenon
      <4> QED BY <4>1 DEF Appended
    <3> QED BY <2>2, <3>1
  <2>6. ASSUME NEW k \in 1 .. m, NEW j \in 1 .. w
        PROVE  w * (k - 1) + j \in 1 .. b /\ t[m][w * (k - 1) + j] = seqs[k][j]
    <3>1. CASE k = m
      <4>1. w * (k - 1) = a
        BY <3>1 DEF a
      <4> QED BY <2>5, <3>1, <4>1
    <3>2. CASE k # m
      <4>1. k \in 1 .. (m - 1)
        BY <3>2
      <4>2. w * (k - 1) + j \in 1 .. a /\ t[m - 1][w * (k - 1) + j] = seqs[k][j]
        BY <2>4, <4>1
      <4> QED BY <2>5, <4>2, Zenon
    <3> QED BY <3>1, <3>2
  <2>7. P(m)
    BY <2>5, <2>6 DEF P, b, MadeOf
  <2> QED BY <2>7
<1>5. 0 .. n \subseteq R
  <2> HIDE DEF R
  <2> QED BY <1>3, <1>4, UpTo
<1>6. n \in R
  <2>1. n \in 0 .. n
    OBVIOUS
  <2> QED BY <1>5, <2>1, Zenon
<1> QED BY <1>1, <1>2, <1>6

\* The elements of r are those of n sequences.
Collects(r, seqs, n) ==
  \A v : (\E x \in 1 .. Len(r) : r[x] = v) <=> \E k \in 1 .. n : \E j \in 1 .. Len(seqs[k]) : seqs[k][j] = v

LEMMA FlatElements ==
  ASSUME NEW S, NEW n \in Nat, NEW seqs \in [1 .. n -> Seq(S)]
  PROVE  FlattenSeq(seqs) \in Seq(S) /\ Collects(FlattenSeq(seqs), seqs, n)
PROOF
<1>1. PICK t : Joins(t, seqs, n, S) /\ FlattenSeq(seqs) = t[n]
  BY Flattened
<1> DEFINE Has(m, v) == \E x \in 1 .. Len(t[m]) : t[m][x] = v
           In(k, v) == \E j \in 1 .. Len(seqs[k]) : seqs[k][j] = v
           R == {m \in 0 .. n : \A v : Has(m, v) <=> \E k \in 1 .. m : In(k, v)}
<1>2. \A k \in 0 .. n : t[k] \in Seq(S)
  BY <1>1 DEF Joins
<1>3. 0 \in R
  <2>1. t[0] = << >>
    BY <1>1 DEF Joins
  <2>2. \A v : ~Has(0, v)
    BY <2>1
  <2> HIDE DEF Has
  <2> QED BY <2>2
<1>4. ASSUME NEW m \in 1 .. n, m - 1 \in R
      PROVE  m \in R
  <2>1. t[m] = t[m - 1] \o seqs[m] /\ t[m - 1] \in Seq(S) /\ seqs[m] \in Seq(S)
    <3>1. m - 1 \in 0 .. n
      OBVIOUS
    <3>2. t[m - 1] \in Seq(S)
      BY <1>2, <3>1, Zenon
    <3> QED BY <1>1, <3>2 DEF Joins
  <2>2. /\ Len(t[m]) = Len(t[m - 1]) + Len(seqs[m])
        /\ \A x \in 1 .. Len(t[m - 1]) : t[m][x] = t[m - 1][x]
        /\ \A j \in 1 .. Len(seqs[m]) : t[m][Len(t[m - 1]) + j] = seqs[m][j]
        /\ Len(t[m - 1]) \in Nat /\ Len(seqs[m]) \in Nat
    BY <2>1
  <2>3. ASSUME NEW v
        PROVE  Has(m, v) <=> Has(m - 1, v) \/ In(m, v)
    <3>1. ASSUME Has(m, v)
          PROVE  Has(m - 1, v) \/ In(m, v)
      <4>1. PICK x \in 1 .. Len(t[m]) : t[m][x] = v
        BY <3>1
      <4>2. CASE x <= Len(t[m - 1])
        <5>1. x \in 1 .. Len(t[m - 1])
          BY <2>2, <4>1, <4>2
        <5> QED BY <2>2, <4>1, <5>1, Zenon
      <4>3. CASE ~(x <= Len(t[m - 1]))
        <5> DEFINE j == x - Len(t[m - 1])
        <5>1. j \in 1 .. Len(seqs[m]) /\ x = Len(t[m - 1]) + j
          BY <2>2, <4>1, <4>3
        <5> HIDE DEF j
        <5> QED BY <2>2, <4>1, <5>1
      <4> QED BY <4>2, <4>3
    <3>2. ASSUME Has(m - 1, v)
          PROVE  Has(m, v)
      <4>1. PICK x \in 1 .. Len(t[m - 1]) : t[m - 1][x] = v
        BY <3>2
      <4>2. x \in 1 .. Len(t[m])
        BY <2>2
      <4>3. t[m][x] = v
        BY <2>2, <4>1, Zenon
      <4> QED BY <4>2, <4>3, Zenon
    <3>3. ASSUME In(m, v)
          PROVE  Has(m, v)
      <4>1. PICK j \in 1 .. Len(seqs[m]) : seqs[m][j] = v
        BY <3>3
      <4>2. Len(t[m - 1]) + j \in 1 .. Len(t[m]) /\ t[m][Len(t[m - 1]) + j] = v
        BY <2>2, <4>1
      <4> QED BY <4>2
    <3> QED BY <3>1, <3>2, <3>3
  <2> HIDE DEF Has, In
  <2>4. \A v : Has(m - 1, v) <=> \E k \in 1 .. (m - 1) : In(k, v)
    BY <1>4
  <2>5. \A k : k \in 1 .. m <=> k \in 1 .. (m - 1) \/ k = m
    OBVIOUS
  <2>6. \A v : Has(m, v) <=> \E k \in 1 .. m : In(k, v)
    BY <2>3, <2>4, <2>5, Zenon
  <2> QED BY <2>6
<1>5. 0 .. n \subseteq R
  <2> HIDE DEF R
  <2> QED BY <1>3, <1>4, UpTo
<1>6. n \in R
  <2>1. n \in 0 .. n
    OBVIOUS
  <2> QED BY <1>5, <2>1, Zenon
<1> QED BY <1>1, <1>2, <1>6 DEF Collects

-----------------------------------------------------------------------------
(* Packets *)

Entry == [name : Nat, score : Nat]

Cell == Nat \cup {Identifier} \cup Item

\* r is a and b, then p of m elements, then c, then q of n elements.
Framed(r, a, b, p, m, c, q, n) ==
  /\ Len(r) = 3 + m + n
  /\ r[1] = a /\ r[2] = b /\ r[3 + m] = c
  /\ \A k \in 1 .. m : r[2 + k] = p[k]
  /\ \A k \in 1 .. n : r[3 + m + k] = q[k]

LEMMA FourParts ==
  ASSUME NEW S, NEW a \in S, NEW b \in S, NEW c \in S, NEW p \in Seq(S), NEW q \in Seq(S),
         NEW m \in Nat, NEW n \in Nat, Len(p) = m, Len(q) = n,
         NEW r, r = <<a, b>> \o p \o <<c>> \o q
  PROVE  r \in Seq(S) /\ Framed(r, a, b, p, m, c, q, n)
PROOF
<1> DEFINE x == <<a, b>>
           y == x \o p
           z == <<c>>
           u == y \o z
<1>1. x \in Seq(S) /\ Len(x) = 2 /\ x[1] = a /\ x[2] = b /\ z \in Seq(S) /\ Len(z) = 1 /\ z[1] = c
  OBVIOUS
<1>2. r = u \o q
  BY Zenon
<1> HIDE DEF x, z
<1>3. y \in Seq(S) /\ Appended(y, x, 2, p, m)
  BY <1>1, Concatenated, Zenon
<1>4. y \in Seq(S) /\ Len(y) = 2 + m /\ y[1] = a /\ y[2] = b /\ \A k \in 1 .. m : y[2 + k] = p[k]
  <2> HIDE DEF y
  <2> QED BY <1>1, <1>3 DEF Appended
<1> HIDE DEF y
<1>5. u \in Seq(S) /\ Appended(u, y, 2 + m, z, 1)
  BY <1>1, <1>4, Concatenated, Zenon
<1>6. /\ u \in Seq(S) /\ Len(u) = 3 + m /\ u[1] = a /\ u[2] = b /\ u[3 + m] = c
      /\ \A k \in 1 .. m : u[2 + k] = p[k]
  <2> HIDE DEF u
  <2> QED BY <1>1, <1>4, <1>5 DEF Appended
<1> HIDE DEF u
<1>7. r \in Seq(S) /\ Appended(r, u, 3 + m, q, n)
  BY <1>2, <1>6, Concatenated, Zenon
<1>8. /\ Len(r) = (3 + m) + n /\ \A k \in 1 .. (3 + m) : r[k] = u[k]
      /\ \A k \in 1 .. n : r[3 + m + k] = q[k]
  BY <1>7, Zenon DEF Appended
<1>9. /\ 1 \in 1 .. (3 + m) /\ 2 \in 1 .. (3 + m) /\ 3 + m \in 1 .. (3 + m)
      /\ \A k \in 1 .. m : 2 + k \in 1 .. (3 + m)
  OBVIOUS
<1>10. r[1] = a /\ r[2] = b /\ r[3 + m] = c /\ \A k \in 1 .. m : r[2 + k] = p[k]
  BY <1>6, <1>8, <1>9, Zenon
<1> QED BY <1>7, <1>8, <1>10, Zenon DEF Framed

\* Where things are in a packet.
Layout(p, tick, n, board, c, ents) ==
  /\ p \in Seq(Cell) /\ Len(p) = 3 + 2 * n + 3 * c
  /\ p[1] = tick /\ p[2] = n /\ p[3 + 2 * n] = c
  /\ \A k \in 1 .. n : p[2 * k + 1] = board[k].name /\ p[2 * k + 2] = board[k].score
  /\ \A k \in 1 .. c : /\ p[3 * k + 2 * n + 1] = 2 /\ p[3 * k + 2 * n + 2] = Identifier
                       /\ p[3 * k + 2 * n + 3] = ents[k]

LEMMA Serialized ==
  ASSUME NEW tick \in Nat, NEW n \in Nat, NEW board \in [1 .. n -> Entry],
         NEW c \in Nat, NEW ents \in [1 .. c -> Item]
  PROVE  Layout(Serialize(tick, board, ents), tick, n, board, c, ents)
PROOF
<1> DEFINE b == [k \in 1 .. n |-> <<board[k].name, board[k].score>>]
           e == [k \in 1 .. c |-> <<2, Identifier, ents[k]>>]
           B == FlattenSeq(b)
           E == FlattenSeq(e)
           r == Serialize(tick, board, ents)
<1>1. Len(board) = n /\ DOMAIN board = 1 .. n /\ Len(ents) = c /\ DOMAIN ents = 1 .. c
  BY IsSequence
<1>2. r = <<tick, n>> \o B \o <<c>> \o E
  <2>1. ASSUME NEW x
        PROVE  <<Len(SerializeEntity(x))>> \o SerializeEntity(x) = <<2, Identifier, x>>
    <3>1. SerializeEntity(x) = <<Identifier, x>> /\ Len(<<Identifier, x>>) = 2
      BY DEF SerializeEntity
    <3>2. <<2>> \o <<Identifier, x>> = <<2, Identifier, x>>
      <4> DEFINE S == {2, Identifier, x}
                 p == <<2>>
                 q == <<Identifier, x>>
                 s == p \o q
                 u == <<2, Identifier, x>>
      <4>1. p \in Seq(S) /\ q \in Seq(S) /\ Len(p) = 1 /\ Len(q) = 2 /\ p[1] = 2 /\ q[1] = Identifier /\ q[2] = x
        OBVIOUS
      <4> HIDE DEF p, q
      <4>2. s \in Seq(S) /\ Appended(s, p, 1, q, 2)
        BY <4>1, Concatenated, Zenon
      <4> HIDE DEF s
      <4>3. Len(s) = 3 /\ s[1] = 2 /\ s[2] = Identifier /\ s[3] = x
        BY <4>1, <4>2 DEF Appended
      <4>4. s = u
        BY <4>2, <4>3
      <4> QED BY <4>4 DEF s, p, q
    <3> QED BY <3>1, <3>2, Zenon
  <2>2. [k \in 1 .. c |-> <<Len(SerializeEntity(ents[k]))>> \o SerializeEntity(ents[k])] = e
    BY <2>1
  <2> HIDE DEF e
  <2> QED BY <1>1, <2>2 DEF Serialize
<1>3. /\ \A k \in 1 .. n : board[k].name \in Cell /\ board[k].score \in Cell
      /\ \A k \in 1 .. c : ents[k] \in Cell
      /\ tick \in Cell /\ n \in Cell /\ c \in Cell /\ 2 \in Cell /\ Identifier \in Cell
  <2>1. \A k \in 1 .. n : board[k].name \in Nat /\ board[k].score \in Nat
    BY DEF Entry
  <2>2. \A k \in 1 .. c : ents[k] \in Item
    OBVIOUS
  <2> QED BY <2>1, <2>2, Zenon DEF Cell
<1> HIDE DEF r
<1>4. /\ B \in Seq(Cell) /\ Len(B) = 2 * n
      /\ \A k \in 1 .. n : /\ 2 * (k - 1) + 1 \in 1 .. (2 * n) /\ B[2 * (k - 1) + 1] = board[k].name
                           /\ 2 * (k - 1) + 2 \in 1 .. (2 * n) /\ B[2 * (k - 1) + 2] = board[k].score
  <2>1. b \in [1 .. n -> Seq(Cell)] /\ \A k \in 1 .. n : /\ Len(b[k]) = 2 /\ b[k][1] = board[k].name
                                                        /\ b[k][2] = board[k].score
    <3>1. ASSUME NEW k \in 1 .. n
          PROVE  <<board[k].name, board[k].score>> \in Seq(Cell)
      BY <1>3
    <3> QED BY <3>1
  <2> HIDE DEF b
  <2>2. B \in Seq(Cell) /\ MadeOf(B, b, n, 2)
    <3>1. 2 \in Nat /\ \A k \in 1 .. n : Len(b[k]) = 2
      BY <2>1
    <3> QED BY <2>1, <3>1, Blocks
  <2>3. 1 \in 1 .. 2 /\ 2 \in 1 .. 2
    OBVIOUS
  <2> HIDE DEF B
  <2> QED BY <2>1, <2>2, <2>3, Zenon DEF MadeOf
<1>5. /\ E \in Seq(Cell) /\ Len(E) = 3 * c
      /\ \A k \in 1 .. c : /\ 3 * (k - 1) + 1 \in 1 .. (3 * c) /\ E[3 * (k - 1) + 1] = 2
                           /\ 3 * (k - 1) + 2 \in 1 .. (3 * c) /\ E[3 * (k - 1) + 2] = Identifier
                           /\ 3 * (k - 1) + 3 \in 1 .. (3 * c) /\ E[3 * (k - 1) + 3] = ents[k]
  <2>1. e \in [1 .. c -> Seq(Cell)] /\ \A k \in 1 .. c : /\ Len(e[k]) = 3 /\ e[k][1] = 2
                                                        /\ e[k][2] = Identifier /\ e[k][3] = ents[k]
    <3>1. ASSUME NEW k \in 1 .. c
          PROVE  <<2, Identifier, ents[k]>> \in Seq(Cell)
      BY <1>3
    <3> QED BY <3>1
  <2> HIDE DEF e
  <2>2. E \in Seq(Cell) /\ MadeOf(E, e, c, 3)
    <3>1. 3 \in Nat /\ \A k \in 1 .. c : Len(e[k]) = 3
      BY <2>1
    <3> QED BY <2>1, <3>1, Blocks
  <2>3. 1 \in 1 .. 3 /\ 2 \in 1 .. 3 /\ 3 \in 1 .. 3
    OBVIOUS
  <2> HIDE DEF E
  <2> QED BY <2>1, <2>2, <2>3, Zenon DEF MadeOf
<1> HIDE DEF B, E
<1>6. /\ r \in Seq(Cell) /\ Len(r) = 3 + 2 * n + 3 * c
      /\ r[1] = tick /\ r[2] = n /\ r[3 + 2 * n] = c
      /\ \A k \in 1 .. (2 * n) : r[2 + k] = B[k]
      /\ \A k \in 1 .. (3 * c) : r[3 + 2 * n + k] = E[k]
  <2>1. 2 * n \in Nat /\ 3 * c \in Nat
    OBVIOUS
  <2>2. r \in Seq(Cell) /\ Framed(r, tick, n, B, 2 * n, c, E, 3 * c)
    BY <1>2, <1>3, <1>4, <1>5, <2>1, FourParts
  <2> QED BY <2>2, Zenon DEF Framed
<1>7. ASSUME NEW k \in 1 .. n
      PROVE  r[2 * k + 1] = board[k].name /\ r[2 * k + 2] = board[k].score
  <2>1. r[2 + (2 * (k - 1) + 1)] = board[k].name /\ r[2 + (2 * (k - 1) + 2)] = board[k].score
    BY <1>4, <1>6, Zenon
  <2>2. 2 + (2 * (k - 1) + 1) = 2 * k + 1 /\ 2 + (2 * (k - 1) + 2) = 2 * k + 2
    OBVIOUS
  <2> QED BY <2>1, <2>2, Zenon
<1>8. ASSUME NEW k \in 1 .. c
      PROVE  /\ r[3 * k + 2 * n + 1] = 2 /\ r[3 * k + 2 * n + 2] = Identifier
             /\ r[3 * k + 2 * n + 3] = ents[k]
  <2>1. /\ r[3 + 2 * n + (3 * (k - 1) + 1)] = 2 /\ r[3 + 2 * n + (3 * (k - 1) + 2)] = Identifier
        /\ r[3 + 2 * n + (3 * (k - 1) + 3)] = ents[k]
    <3>1. /\ 3 * (k - 1) + 1 \in 1 .. (3 * c) /\ E[3 * (k - 1) + 1] = 2
          /\ 3 * (k - 1) + 2 \in 1 .. (3 * c) /\ E[3 * (k - 1) + 2] = Identifier
          /\ 3 * (k - 1) + 3 \in 1 .. (3 * c) /\ E[3 * (k - 1) + 3] = ents[k]
      BY <1>5, Zenon
    <3>2. \A x \in 1 .. (3 * c) : r[3 + 2 * n + x] = E[x]
      BY <1>6, Zenon
    <3> QED BY <3>1, <3>2, Zenon
  <2>2. /\ 3 + 2 * n + (3 * (k - 1) + 1) = 3 * k + 2 * n + 1
        /\ 3 + 2 * n + (3 * (k - 1) + 2) = 3 * k + 2 * n + 2
        /\ 3 + 2 * n + (3 * (k - 1) + 3) = 3 * k + 2 * n + 3
    OBVIOUS
  <2> QED BY <2>1, <2>2, Zenon
<1>9. Layout(r, tick, n, board, c, ents)
  BY <1>6, <1>7, <1>8, Zenon DEF Layout
<1> QED BY <1>9 DEF r

\* EntityAt is the function that its definition says.
LEMMA Walk ==
  ASSUME NEW q, NEW n
  PROVE  /\ EntityAt(q, n, 0) = EntityCountAt(n) + 1
         /\ \A k \in Nat \ {0} :
              EntityAt(q, n, k) = IF EntityAt(q, n, k - 1) > Len(q) THEN EntityAt(q, n, k - 1)
                                  ELSE EntityAt(q, n, k - 1) + 1 + q[EntityAt(q, n, k - 1)]
PROOF
<1> DEFINE Advance(x) == IF x > Len(q) THEN x ELSE x + 1 + q[x]
           first == EntityCountAt(n) + 1
           Body(f, i) == IF i = 0 THEN first ELSE Advance(f[i - 1])
           At(m, f) == f = [i \in 0 .. m |-> Body(f, i)]
           at(m) == CHOOSE f : At(m, f)
<1>1. ASSUME NEW m
      PROVE  EntityAt(q, n, m) = at(m)[m]
  <2>1. EntityAt(q, n, m) = (CHOOSE f : f = [i \in 0 .. m |-> IF i = 0 THEN EntityCountAt(n) + 1
                                                             ELSE IF f[i - 1] > Len(q) THEN f[i - 1]
                                                             ELSE f[i - 1] + 1 + q[f[i - 1]]])[m]
    BY Zenon DEF EntityAt
  <2> QED BY <2>1
<1> HIDE DEF Advance, first
<1>2. ASSUME NEW m \in Nat
      PROVE  At(m, at(m))
  <2> DEFINE S == {k \in 0 .. m : \E f : At(k, f)}
  <2>1. 0 \in S
    <3> DEFINE f == [i \in 0 .. 0 |-> first]
    <3>1. At(0, f)
      OBVIOUS
    <3> HIDE DEF f, At
    <3> QED BY <3>1
  <2>2. ASSUME NEW k \in 1 .. m, k - 1 \in S
        PROVE  k \in S
    <3>1. PICK f : At(k - 1, f)
      BY <2>2
    <3> DEFINE g == [i \in 0 .. k |-> Body(f, i)]
    <3>2. \A i \in 0 .. (k - 1) : f[i] = Body(f, i)
      BY <3>1
    <3>3. \A i \in 0 .. (k - 1) : g[i] = f[i]
      <4> HIDE DEF Body
      <4> QED BY <3>2
    <3>4. \A i \in 0 .. k : i = 0 \/ i - 1 \in 0 .. (k - 1)
      OBVIOUS
    <3>5. \A i \in 0 .. k : Body(f, i) = Body(g, i)
      <4> HIDE DEF g
      <4> QED BY <3>3, <3>4, Zenon
    <3> HIDE DEF Body
    <3>6. At(k, g)
      BY <3>5, Zenon
    <3> HIDE DEF g, At
    <3> QED BY <3>6
  <2>3. 0 .. m \subseteq S
    <3> HIDE DEF S
    <3> QED BY <2>1, <2>2, UpTo
  <2>4. m \in 0 .. m
    OBVIOUS
  <2>5. m \in S
    BY <2>3, <2>4, Zenon
  <2>6. \E f : At(m, f)
    <3> HIDE DEF At
    <3> QED BY <2>5, Zenon
  <2> QED BY <2>6, Zenon
<1> HIDE DEF at
<1>3. ASSUME NEW m \in Nat, NEW i \in 0 .. m
      PROVE  at(m)[i] = Body(at(m), i)
  <2>1. at(m) = [j \in 0 .. m |-> Body(at(m), j)]
    BY <1>2
  <2> HIDE DEF Body
  <2> QED BY <2>1
<1>4. ASSUME NEW k \in Nat \ {0}
      PROVE  EntityAt(q, n, k) = Advance(EntityAt(q, n, k - 1))
  <2> DEFINE f == at(k)
             g == at(k - 1)
             S == {i \in 0 .. (k - 1) : f[i] = g[i]}
  <2>1. k - 1 \in Nat /\ \A i \in 0 .. (k - 1) : i \in 0 .. k
    OBVIOUS
  <2>2. \A i \in 0 .. (k - 1) : f[i] = Body(f, i) /\ g[i] = Body(g, i)
    <3> HIDE DEF Body
    <3> QED BY <1>3, <2>1
  <2> HIDE DEF f, g
  <2>3. 0 \in S
    <3>1. 0 \in 0 .. (k - 1)
      BY <2>1
    <3> QED BY <2>2, <3>1
  <2>4. ASSUME NEW i \in 1 .. (k - 1), i - 1 \in S
        PROVE  i \in S
    <3>1. i \in 0 .. (k - 1) /\ i # 0 /\ f[i - 1] = g[i - 1]
      BY <2>4
    <3>2. f[i] = Advance(f[i - 1]) /\ g[i] = Advance(g[i - 1])
      BY <2>2, <3>1, Zenon
    <3>3. f[i] = g[i]
      BY <3>1, <3>2, Zenon
    <3> QED BY <3>1, <3>3
  <2>5. 0 .. (k - 1) \subseteq S
    <3> HIDE DEF S
    <3> QED BY <2>1, <2>3, <2>4, UpTo
  <2>6. f[k - 1] = g[k - 1]
    <3>1. k - 1 \in 0 .. (k - 1)
      BY <2>1
    <3> QED BY <2>5, <3>1
  <2>7. f[k] = Advance(f[k - 1])
    <3>1. k \in Nat /\ k \in 0 .. k /\ k # 0
      OBVIOUS
    <3>2. at(k)[k] = Body(at(k), k)
      <4> HIDE DEF Body
      <4> QED BY <1>3, <3>1
    <3> QED BY <3>1, <3>2, Zenon DEF f
  <2>8. EntityAt(q, n, k) = f[k] /\ EntityAt(q, n, k - 1) = g[k - 1]
    BY <1>1, Zenon DEF f, g
  <2> QED BY <2>6, <2>7, <2>8, Zenon
<1>5. EntityAt(q, n, 0) = first
  <2>1. 0 \in Nat /\ 0 \in 0 .. 0
    OBVIOUS
  <2>2. at(0)[0] = Body(at(0), 0)
    <3> HIDE DEF Body
    <3> QED BY <1>3, <2>1
  <2> QED BY <1>1, <2>2, Zenon
<1> QED BY <1>4, <1>5 DEF Advance, first

\* Where the entities begin, as long as they begin in the packet and each has two words.
LEMMA Positions ==
  ASSUME NEW q, Len(q) \in Nat, NEW n \in Nat, NEW c \in Nat,
         \A k \in 1 .. c : /\ EntityAt(q, n, k - 1) <= Len(q) \/ 3 * k + 2 * n + 1 <= Len(q)
                           /\ 3 * k + 2 * n + 1 <= Len(q) => q[3 * k + 2 * n + 1] = 2
  PROVE  \A k \in 0 .. c : EntityAt(q, n, k) = 3 * k + 2 * n + 4
PROOF
<1> DEFINE S == {k \in 0 .. c : EntityAt(q, n, k) = 3 * k + 2 * n + 4}
<1>1. 0 \in S
  <2>1. EntityAt(q, n, 0) = EntityCountAt(n) + 1
    BY Walk
  <2> QED BY <2>1 DEF EntityCountAt
<1>2. ASSUME NEW k \in 1 .. c, k - 1 \in S
      PROVE  k \in S
  <2> DEFINE x == EntityAt(q, n, k - 1)
  <2>1. k \in Nat \ {0} /\ k \in 0 .. c
    OBVIOUS
  <2>2. EntityAt(q, n, k) = IF x > Len(q) THEN x ELSE x + 1 + q[x]
    BY <2>1, Walk, Zenon
  <2>3. x = 3 * k + 2 * n + 1
    BY <1>2
  <2>4. x <= Len(q) /\ q[x] = 2
    <3>1. x <= Len(q) \/ 3 * k + 2 * n + 1 <= Len(q)
      OBVIOUS
    <3>2. 3 * k + 2 * n + 1 <= Len(q) => q[3 * k + 2 * n + 1] = 2
      OBVIOUS
    <3> HIDE DEF x
    <3>3. x <= Len(q)
      BY <2>3, <3>1
    <3> QED BY <2>3, <3>2, <3>3
  <2> HIDE DEF x
  <2>5. EntityAt(q, n, k) = x + 3
    BY <2>2, <2>3, <2>4
  <2> QED BY <2>1, <2>3, <2>5
<1>3. 0 .. c \subseteq S
  <2> HIDE DEF S
  <2> QED BY <1>1, <1>2, UpTo
<1> QED BY <1>3

\* What Deserialize() makes of a packet of Serialize().
LEMMA RoundTrip ==
  ASSUME NEW tick \in Nat, NEW n \in Nat, NEW board \in [1 .. n -> Entry],
         NEW c \in Nat, NEW ents \in [1 .. c -> Item], n <= MaxLeaderboardSize,
         NEW p, Layout(p, tick, n, board, c, ents)
  PROVE  Deserialize(p) = [tick |-> tick, leaderboard |-> board, entities |-> ents]
PROOF
<1> USE SnapshotAssumption
<1>1. p[2] = n /\ EntityCountAt(n) = 3 + 2 * n /\ p[EntityCountAt(n)] = c /\ Len(p) = 3 + 2 * n + 3 * c
  BY DEF Layout, EntityCountAt
<1>2. ValidHead(p)
  <2>1. n <= (3 + 2 * n + 3 * c - 2) \div 2
    OBVIOUS
  <2>2. /\ Len(p) >= 2 /\ EntityCountAt(n) <= Len(p) /\ c <= Len(p) - EntityCountAt(n)
        /\ n <= (Len(p) - 2) \div 2
    BY <1>1, <2>1
  <2> QED BY <1>1, <2>2 DEF ValidHead
<1>3. \A k \in 0 .. c : EntityAt(p, n, k) = 3 * k + 2 * n + 4
  <2>1. Len(p) \in Nat
    BY <1>1
  <2>2. \A k \in 1 .. c : 3 * k + 2 * n + 1 <= Len(p) /\ p[3 * k + 2 * n + 1] = 2
    <3>1. \A k \in 1 .. c : 3 * k + 2 * n + 1 <= Len(p)
      BY <1>1
    <3>2. \A k \in 1 .. c : p[3 * k + 2 * n + 1] = 2
      BY Zenon DEF Layout
    <3> QED BY <3>1, <3>2, Zenon
  <2> QED BY <2>1, <2>2, Positions
<1>4. ASSUME NEW k \in 1 .. c
      PROVE  /\ EntityAt(p, n, k - 1) = 3 * k + 2 * n + 1 /\ EntityAt(p, n, k) = 3 * k + 2 * n + 4
             /\ Len(Payload(p, n, k)) = 2 /\ Payload(p, n, k)[1] = Identifier /\ Payload(p, n, k)[2] = ents[k]
  <2>1. EntityAt(p, n, k - 1) = 3 * k + 2 * n + 1 /\ EntityAt(p, n, k) = 3 * k + 2 * n + 4
    BY <1>3
  <2> DEFINE a == 3 * k + 2 * n + 2
  <2>2. a \in 1 .. Len(p) /\ a + 1 \in 1 .. Len(p)
    BY <1>1
  <2>3. p[a] = Identifier /\ p[a + 1] = ents[k]
    <3>1. a + 1 = 3 * k + 2 * n + 3
      OBVIOUS
    <3> QED BY <3>1 DEF Layout
  <2>4. Payload(p, n, k) = SubSeq(p, a, a + 1)
    <3>1. EntityAt(p, n, k - 1) + 1 = a /\ EntityAt(p, n, k) - 1 = a + 1
      BY <2>1
    <3> QED BY <3>1, Zenon DEF Payload
  <2> HIDE DEF a
  <2>5. p \in Seq(Cell)
    BY DEF Layout
  <2>6. Len(SubSeq(p, a, a + 1)) = 2 /\ SubSeq(p, a, a + 1)[1] = p[a] /\ SubSeq(p, a, a + 1)[2] = p[a + 1]
    BY <2>2, <2>5
  <2> QED BY <2>1, <2>3, <2>4, <2>6, Zenon
<1>5. ValidEntities(p, n, c)
  <2>1. \A k \in 1 .. c : EntityAt(p, n, k - 1) <= Len(p) /\ EntityAt(p, n, k) <= Len(p) + 1
    BY <1>1, <1>4
  <2> QED BY <1>4, <2>1 DEF ValidEntities, ValidEntity
<1>6. EntityAt(p, n, c) = Len(p) + 1
  <2>1. c \in 0 .. c
    OBVIOUS
  <2> QED BY <1>1, <1>3, <2>1
<1>7. Deserialize(p) = Contents(p, n, c)
  BY <1>1, <1>2, <1>5, <1>6, Zenon DEF Deserialize
<1>8. [k \in 1 .. n |-> [name |-> p[2 * k + 1], score |-> p[2 * k + 2]]] = board
  <2>1. ASSUME NEW k \in 1 .. n
        PROVE  [name |-> p[2 * k + 1], score |-> p[2 * k + 2]] = board[k]
    <3>1. p[2 * k + 1] = board[k].name /\ p[2 * k + 2] = board[k].score /\ board[k] \in Entry
      BY DEF Layout
    <3> QED BY <3>1 DEF Entry
  <2> QED BY <2>1
<1>9. [k \in 1 .. c |-> Payload(p, n, k)[2]] = ents
  BY <1>4
<1>10. p[1] = tick
  BY DEF Layout
<1> QED BY <1>7, <1>8, <1>9, <1>10, Zenon DEF Contents

\* A packet of another length that begins, or goes on, like one of Serialize().
LEMMA Rejected ==
  ASSUME NEW tick, NEW n \in Nat, NEW board, NEW c \in Nat, NEW ents,
         NEW p, Layout(p, tick, n, board, c, ents),
         NEW q, Len(q) \in Nat, Len(q) # Len(p),
         \A i \in 1 .. Len(p) : i <= Len(q) => q[i] = p[i]
  PROVE  Deserialize(q) = Malformed
PROOF
<1> DEFINE m == q[2]
           count == q[EntityCountAt(m)]
<1>0. Len(p) = 3 + 2 * n + 3 * c /\ p[2] = n /\ p[3 + 2 * n] = c
      /\ \A k \in 1 .. c : p[3 * k + 2 * n + 1] = 2
  BY DEF Layout
<1>1. ASSUME ValidHead(q), ValidEntities(q, m, count), EntityAt(q, m, count) = Len(q) + 1
      PROVE  FALSE
  <2>1. m = n
    <3>1. Len(q) >= 2 /\ 2 \in 1 .. Len(p)
      BY <1>0, <1>1 DEF ValidHead
    <3> QED BY <1>0, <3>1
  <2>2. count = c
    <3>1. EntityCountAt(m) = 3 + 2 * n /\ 3 + 2 * n <= Len(q)
      BY <1>1, <2>1 DEF ValidHead, EntityCountAt
    <3>2. 3 + 2 * n \in 1 .. Len(p)
      BY <1>0
    <3>3. q[3 + 2 * n] = c
      BY <1>0, <3>1, <3>2
    <3> QED BY <3>1, <3>3
  <2>3. \A k \in 1 .. c : EntityAt(q, n, k - 1) <= Len(q)
    BY <1>1, <2>1, <2>2, Zenon DEF ValidEntities
  <2> HIDE DEF m, count
  <2>4. \A k \in 1 .. c : 3 * k + 2 * n + 1 <= Len(q) => q[3 * k + 2 * n + 1] = 2
    <3>1. \A k \in 1 .. c : 3 * k + 2 * n + 1 \in 1 .. Len(p)
      BY <1>0
    <3> QED BY <1>0, <3>1
  <2>5. \A k \in 0 .. c : EntityAt(q, n, k) = 3 * k + 2 * n + 4
    BY <2>3, <2>4, Positions
  <2>6. EntityAt(q, n, c) = Len(q) + 1
    BY <1>1, <2>1, <2>2
  <2>7. c \in 0 .. c
    OBVIOUS
  <2> QED BY <1>0, <2>5, <2>6, <2>7
<1>2. Deserialize(q) = IF /\ ValidHead(q) /\ ValidEntities(q, m, count)
                          /\ EntityAt(q, m, count) = Len(q) + 1
                         THEN Contents(q, m, count) ELSE Malformed
  BY Zenon DEF Deserialize
<1> HIDE DEF m, count
<1> QED BY <1>1, <1>2, Zenon

-----------------------------------------------------------------------------
(* The leaderboard *)

LEMMA MinOfTwo ==
  ASSUME NEW a \in Nat, NEW b \in Nat
  PROVE  Min({a, b}) = IF a <= b THEN a ELSE b
PROOF
<1> DEFINE m == IF a <= b THEN a ELSE b
<1>1. m \in {a, b} /\ \A y \in {a, b} : m <= y
  OBVIOUS
<1>2. \A x \in {a, b} : (\A y \in {a, b} : x <= y) => x = m
  OBVIOUS
<1>3. Min({a, b}) \in {a, b} /\ \A y \in {a, b} : Min({a, b}) <= y
  BY <1>1, Zenon DEF Min
<1> QED BY <1>2, <1>3

\* The best of the ships are listed, the best first.
Lists(board, ships) ==
  /\ Len(board) = Min({MaxLeaderboardSize, Cardinality(ships)})
  /\ \A k \in DOMAIN board :
       /\ \E e \in ships : e.id = board[k].name /\ e.score = board[k].score
       /\ \A e \in ships : (\A n \in 1 .. k : board[n].name # e.id) => e.score <= board[k].score

LEMMA Listed ==
  ASSUME NEW A, NEW ships, ships = {e \in A : LiveShip(e)}, IsFiniteSet(ships), ships \subseteq Item,
         NEW board \in Leaderboards(A)
  PROVE  /\ Lists(board, ships)
         /\ \E n \in Nat : n <= MaxLeaderboardSize /\ board \in [1 .. n -> Entry]
PROOF
<1> USE SnapshotAssumption
<1> DEFINE N == Cardinality(ships)
           count == Min({MaxLeaderboardSize, N})
<1>1. N \in Nat
  BY FS_CardinalityType
<1>2. count \in Nat /\ count <= MaxLeaderboardSize /\ count <= N
  BY <1>1, MinOfTwo
<1>3. PICK s \in [1 .. N -> ships] :
        /\ IsInjective(s) /\ Ranks(s)
        /\ board = [k \in 1 .. count |-> [name |-> s[k].id, score |-> s[k].score]]
  BY Zenon DEF Leaderboards
<1>4. \A e \in ships : \E x \in 1 .. N : s[x] = e
  <2>1. s \in Injection(1 .. N, ships)
    BY <1>3 DEF Injection
  <2>2. Cardinality(1 .. N) = N
    BY <1>1, FS_Interval
  <2>3. s \in Surjection(1 .. N, ships)
    BY <2>1, <2>2, FS_Injection
  <2> QED BY <2>3 DEF Surjection
<1> HIDE DEF count, N
<1>5. \A k \in 1 .. count : k \in 1 .. N
  BY <1>1, <1>2
<1>6. \A k \in 1 .. N : s[k] \in ships /\ s[k].id \in Nat /\ s[k].score \in Nat
  <2>1. \A e \in Item : e.id \in Nat /\ e.score \in Nat
    BY Constants DEF Item
  <2> QED BY <1>3, <2>1
<1>7. DOMAIN board = 1 .. count
      /\ \A k \in 1 .. count : board[k].name = s[k].id /\ board[k].score = s[k].score
  BY <1>3
<1>8. board \in [1 .. count -> Entry]
  <2>1. \A k \in 1 .. count : [name |-> s[k].id, score |-> s[k].score] \in Entry
    BY <1>5, <1>6 DEF Entry
  <2> QED BY <1>3, <2>1
<1>9. Len(board) = count
  BY <1>2, <1>8, IsSequence
<1>10. ASSUME NEW k \in 1 .. count
       PROVE  /\ \E e \in ships : e.id = board[k].name /\ e.score = board[k].score
              /\ \A e \in ships : (\A n \in 1 .. k : board[n].name # e.id) => e.score <= board[k].score
  <2>1. \E e \in ships : e.id = board[k].name /\ e.score = board[k].score
    BY <1>5, <1>6, <1>7, Zenon
  <2>2. ASSUME NEW e \in ships, \A n \in 1 .. k : board[n].name # e.id
        PROVE  e.score <= board[k].score
    <3>1. PICK x \in 1 .. N : s[x] = e
      BY <1>4
    <3>2. k \in Nat /\ x \in Nat /\ k \in 1 .. N /\ (x <= k => x \in 1 .. k /\ x \in 1 .. count)
      BY <1>1, <1>2, <1>5
    <3>3. ~(x <= k)
      <4>1. ASSUME x <= k
            PROVE  FALSE
        <5>1. x \in 1 .. k /\ board[x].name = e.id
          BY <1>7, <3>1, <3>2, <4>1, Zenon
        <5> QED BY <2>2, <5>1, Zenon
      <4> QED BY <4>1
    <3>4. k < x
      BY <3>2, <3>3
    <3>5. s[k].score >= s[x].score
      BY <1>3, <3>2, <3>4 DEF Ranks
    <3>6. board[k].score = s[k].score /\ s[k].score \in Nat /\ s[x].score \in Nat
      BY <1>6, <1>7, <3>2, Zenon
    <3> QED BY <3>1, <3>5, <3>6
  <2> QED BY <2>1, <2>2
<1>11. Lists(board, ships)
  BY <1>7, <1>9, <1>10 DEF Lists, count, N
<1> QED BY <1>2, <1>8, <1>11

-----------------------------------------------------------------------------
(* The packet *)

Ships == {storage[i] : i \in Live("Ship")}

\* p is a packet with these entities and a leaderboard of these ships.
Describes(p, entities, ships) ==
  \E tick, n, c \in Nat : \E board \in [1 .. n -> Entry], ents \in [1 .. c -> Item] :
    /\ n <= MaxLeaderboardSize /\ p = Serialize(tick, board, ents)
    /\ Lists(board, ships)
    /\ {ents[k] : k \in 1 .. c} = entities

\* Between two ticks the packet, if there is one, describes the pool, in which
\* nothing is flagged.
PacketInv ==
  packet # << >> =>
    /\ stage = "idle"
    /\ \A i \in Engaged : ~storage[i].isDestroyed
    /\ Describes(packet, {storage[i] : i \in Engaged}, Ships)

\* What a sweep leaves.
LEMMA Swept ==
  ASSUME PoolInv, RecycleDestroyed
  PROVE  /\ \A i : i \in Engaged' <=> i \in Engaged /\ ~storage[i].isDestroyed
         /\ \A i \in Engaged' : storage'[i] = storage[i]
         /\ Ships' = Ships
PROOF
<1> DEFINE dead == {i \in Engaged : storage[i].isDestroyed}
<1>1. storage' = [i \in Slots |-> IF i \in dead THEN Nullopt ELSE storage[i]]
  BY DEF RecycleDestroyed
<1>2. Slots' = Slots
  BY <1>1 DEF Slots
<1>3. (\A i : i \in Engaged' <=> i \in Engaged /\ ~storage[i].isDestroyed)
      /\ \A i \in Engaged' : storage'[i] = storage[i]
  BY <1>1, <1>2 DEF Engaged
<1>4. Live("Ship")' = Live("Ship") /\ \A i \in Live("Ship") : storage'[i] = storage[i]
  BY <1>2, <1>3 DEF Live, Active
<1> QED BY <1>3, <1>4 DEF Ships

\* buildEntitySnapshots() takes the entities that are live.
LEMMA Snapped ==
  ASSUME PoolInv
  PROVE  \E c \in Nat : /\ EntitySnapshots(storage, Nullopt) \in [1 .. c -> Item]
                        /\ \A v : (\E k \in 1 .. c : EntitySnapshots(storage, Nullopt)[k] = v)
                                    <=> \E i \in Engaged : ~storage[i].isDestroyed /\ storage[i] = v
PROOF
<1> DEFINE N == Len(storage)
           b == [i \in 1 .. N |-> IF storage[i] # Nullopt /\ ~storage[i].isDestroyed
                                    THEN <<storage[i]>> ELSE << >>]
           s == EntitySnapshots(storage, Nullopt)
<1>1. N \in Nat /\ DOMAIN storage = 1 .. N /\ \A i \in 1 .. N : storage[i] # Nullopt => storage[i] \in Item
  BY DEF PoolInv, Values
<1>2. s = FlattenSeq(b)
  BY <1>1, Zenon DEF EntitySnapshots
<1>3. \A i \in 1 .. N : i \in Engaged <=> storage[i] # Nullopt
  BY <1>1 DEF Engaged, Slots
<1>4. \A i \in Engaged : i \in 1 .. N
  BY <1>1 DEF Engaged, Slots
<1>5. b \in [1 .. N -> Seq(Item)]
  <2>1. \A i \in 1 .. N : (IF storage[i] # Nullopt /\ ~storage[i].isDestroyed
                             THEN <<storage[i]>> ELSE << >>) \in Seq(Item)
    BY <1>1
  <2> QED BY <2>1
<1>6. \A i \in 1 .. N : \A v : (\E j \in 1 .. Len(b[i]) : b[i][j] = v)
                                 <=> i \in Engaged /\ ~storage[i].isDestroyed /\ storage[i] = v
  <2> TAKE i \in 1 .. N
  <2> TAKE v
  <2>1. CASE i \in Engaged /\ ~storage[i].isDestroyed
    <3>1. b[i] = <<storage[i]>>
      BY <1>3, <2>1
    <3> HIDE DEF b
    <3>2. Len(b[i]) = 1 /\ b[i][1] = storage[i]
      BY <3>1
    <3>3. \A j : j \in 1 .. 1 <=> j = 1
      OBVIOUS
    <3> QED BY <2>1, <3>2, <3>3
  <2>2. CASE ~(i \in Engaged /\ ~storage[i].isDestroyed)
    <3>1. b[i] = << >>
      BY <1>3, <2>2
    <3> HIDE DEF b
    <3>2. Len(b[i]) = 0 /\ 1 .. 0 = {}
      BY <3>1
    <3> QED BY <2>2, <3>2
  <2> QED BY <2>1, <2>2
<1> HIDE DEF b, N
<1>7. s \in Seq(Item) /\ Collects(s, b, N)
  BY <1>1, <1>2, <1>5, FlatElements
<1> HIDE DEF s
<1>8. Len(s) \in Nat /\ s \in [1 .. Len(s) -> Item]
  BY <1>7
<1>9. \A v : (\E k \in 1 .. Len(s) : s[k] = v) <=> \E i \in Engaged : ~storage[i].isDestroyed /\ storage[i] = v
  BY <1>4, <1>6, <1>7, Zenon DEF Collects
<1> QED BY <1>8, <1>9 DEF s

\* The ships that the leaderboard takes are those that live.
LEMMA ShipsFacts ==
  ASSUME PoolInv
  PROVE  /\ Ships = {e \in {storage[i] : i \in Engaged} : LiveShip(e)}
         /\ IsFiniteSet(Ships) /\ Ships \subseteq Item
PROOF
<1> DEFINE L == Live("Ship")
<1>1. \A i \in Engaged : Sound(storage[i]) /\ storage[i] \in Item
  BY DEF PoolInv, Sound
<1>2. \A i : i \in L <=> i \in Engaged /\ ~storage[i].isDestroyed /\ storage[i].type = "Ship"
  BY DEF Live, Active, Engaged
<1>3. \A i \in Engaged : LiveShip(storage[i]) <=> ~storage[i].isDestroyed /\ storage[i].type = "Ship"
  BY <1>1 DEF LiveShip, Sound
<1>4. IsFiniteSet(L)
  <2>1. Len(storage) \in Nat /\ L \subseteq 1 .. Len(storage)
    BY DEF PoolInv, Live, Slots
  <2>2. IsFiniteSet(1 .. Len(storage))
    BY <2>1, FS_Interval
  <2> QED BY <2>1, <2>2, FS_Subset
<1> HIDE DEF L
<1>5. Ships = {storage[i] : i \in L}
  BY DEF Ships, L
<1>6. IsFiniteSet(Ships)
  <2> DEFINE f == [i \in L |-> storage[i]]
  <2>1. f \in Surjection(L, Ships)
    BY <1>5 DEF Surjection
  <2> HIDE DEF f
  <2> QED BY <1>4, <2>1, FS_Surjection
<1>7. Ships \subseteq Item
  BY <1>1, <1>2, <1>5
<1>8. \A e : e \in Ships <=> e \in {storage[i] : i \in Engaged} /\ LiveShip(e)
  BY <1>2, <1>3, <1>5
<1> QED BY <1>6, <1>7, <1>8

LEMMA Described ==
  ASSUME NEW tick \in Nat, NEW n \in Nat, NEW c \in Nat, NEW board \in [1 .. n -> Entry],
         NEW ents \in [1 .. c -> Item], NEW p, NEW entities, NEW ships,
         n <= MaxLeaderboardSize, p = Serialize(tick, board, ents), Lists(board, ships),
         {ents[k] : k \in 1 .. c} = entities
  PROVE  Describes(p, entities, ships)
PROOF
<1> DEFINE D(b, m, x, k) == /\ m <= MaxLeaderboardSize /\ p = Serialize(tick, b, x)
                            /\ Lists(b, ships) /\ {x[i] : i \in 1 .. k} = entities
           F(m, k) == \E b \in [1 .. m -> Entry], x \in [1 .. k -> Item] : D(b, m, x, k)
<1>1. D(board, n, ents, c)
  OBVIOUS
<1>2. F(n, c)
  <2> HIDE DEF D
  <2> QED BY <1>1, Zenon
<1>3. \E m, k \in Nat : F(m, k)
  <2> HIDE DEF F
  <2> QED BY <1>2, Zenon
<1> QED BY <1>3 DEF Describes

\* A packet is built by the broadcast only, and gone with the next input.
LEMMA PacketNext == ArenaInv /\ PacketInv /\ [Next]_vars => PacketInv'
PROOF
<1> SUFFICES ASSUME ArenaInv, PacketInv, [Next]_vars
             PROVE  PacketInv'
  OBVIOUS
<1>1. ASSUME packet' = << >>
      PROVE  PacketInv'
  BY <1>1 DEF PacketInv
<1>2. ASSUME stage # "idle", packet' = packet
      PROVE  PacketInv'
  <2>1. packet = << >>
    BY <1>2 DEF PacketInv
  <2> QED BY <1>1, <1>2, <2>1
<1>3. ASSUME NEW i \in Slots, Shoot(i) \/ Quit(i)
      PROVE  PacketInv'
  BY <1>1, <1>3 DEF Shoot, Quit, Input
<1>4. ASSUME UpdatePhysics
      PROVE  PacketInv'
  BY <1>1, <1>4 DEF UpdatePhysics, Input
<1>5. ASSUME Collide
      PROVE  PacketInv'
  <2>1. \E i, j : Visit(i, j)
    BY <1>5 DEF Collide, CollideShips, CollideShipAsteroid, CollideBulletShip
  <2> QED BY <1>2, <2>1 DEF Visit
<1>6. ASSUME Reap
      PROVE  PacketInv'
  BY <1>2, <1>6 DEF Reap
<1>7. ASSUME UpdateAsteroids
      PROVE  PacketInv'
  BY <1>2, <1>7 DEF UpdateAsteroids
<1>8. ASSUME SpawnShip
      PROVE  PacketInv'
  BY <1>2, <1>8 DEF SpawnShip, AsteroidsDone
<1>9. ASSUME NEW tick \in Words, Broadcast(tick)
      PROVE  PacketInv'
  <2> DEFINE A == {storage[i] : i \in Engaged}
             ents == EntitySnapshots(storage, Nullopt)
  <2>1. RecycleDestroyed /\ stage' = "idle" /\ PoolInv /\ tick \in Nat
    BY <1>9, ArenaAssumption DEF Broadcast, ArenaInv
  <2>2. PICK board \in Leaderboards(A) : packet' = Serialize(tick, board, ents)
    BY <1>9 DEF Broadcast
  <2>3. /\ \A i : i \in Engaged' <=> i \in Engaged /\ ~storage[i].isDestroyed
        /\ \A i \in Engaged' : storage'[i] = storage[i]
        /\ Ships' = Ships
    BY <2>1, Swept
  <2>4. Ships = {e \in A : LiveShip(e)} /\ IsFiniteSet(Ships) /\ Ships \subseteq Item
    BY <2>1, ShipsFacts
  <2>5. PICK c \in Nat : /\ ents \in [1 .. c -> Item]
                         /\ \A v : (\E k \in 1 .. c : ents[k] = v)
                                     <=> \E i \in Engaged : ~storage[i].isDestroyed /\ storage[i] = v
    BY <2>1, Snapped
  <2> HIDE DEF ents
  <2>6. {ents[k] : k \in 1 .. c} = {storage'[i] : i \in Engaged'}
    <3>1. \A v : (\E k \in 1 .. c : ents[k] = v) <=> \E i \in Engaged' : storage'[i] = v
      BY <2>3, <2>5, Zenon
    <3> QED BY <3>1
  <2> HIDE DEF A
  <2>7. /\ Lists(board, Ships)
        /\ \E n \in Nat : n <= MaxLeaderboardSize /\ board \in [1 .. n -> Entry]
    BY <2>4, Listed
  <2>8. PICK n \in Nat : n <= MaxLeaderboardSize /\ board \in [1 .. n -> Entry]
    BY <2>7
  <2>9. Lists(board, Ships')
    BY <2>3, <2>7
  <2>10. \A i \in Engaged' : ~storage'[i].isDestroyed
    BY <2>3
  <2>11. Describes(packet', {storage'[i] : i \in Engaged'}, Ships')
    BY <2>1, <2>2, <2>5, <2>6, <2>8, <2>9, Described, Zenon
  <2> QED BY <2>1, <2>10, <2>11 DEF PacketInv
<1>10. ASSUME UNCHANGED vars
       PROVE  PacketInv'
  <2>1. packet' = packet /\ stage' = stage /\ storage' = storage
    BY <1>10 DEF vars, pool
  <2>2. Engaged' = Engaged /\ Ships' = Ships
    BY <2>1 DEF Engaged, Ships, Live, Active, Slots
  <2> QED BY <2>1, <2>2 DEF PacketInv
<1> QED BY <1>3, <1>4, <1>5, <1>6, <1>7, <1>8, <1>9, <1>10 DEF Next

LEMMA PacketCorrect == Spec => [](ArenaInv /\ PacketInv)
PROOF
<1>1. Init => PacketInv
  BY DEF Init, PacketInv
<1> QED BY <1>1, ArenaInit, ArenaNext, PacketNext, PTL DEF Spec

\* What ClientWorld keeps of a snapshot whose entities have different ids.
Shows(world, me, board, ents, c) ==
  /\ world.leaderboard = board /\ world.me = me
  /\ DOMAIN world.entities = {ents[k].id : k \in 1 .. c}
  /\ \A k \in 1 .. c : world.entities[ents[k].id] = ents[k]

LEMMA Updated ==
  ASSUME NEW s, NEW c \in Nat, NEW e, s.entities = e, e \in [1 .. c -> Item], NEW me, NEW world,
         world = UpdateSnapshot(s, me),
         \A j, k \in 1 .. c : e[j].id = e[k].id => e[j] = e[k]
  PROVE  Shows(world, me, s.leaderboard, e, c)
PROOF
<1> DEFINE ids == {s.entities[k].id : k \in DOMAIN s.entities}
           Good(i, k) == s.entities[k].id = i /\ \A j \in 1 .. (k - 1) : s.entities[j].id # i
           First(i) == CHOOSE k \in DOMAIN s.entities : Good(i, k)
<1>1. world = [me |-> me, leaderboard |-> s.leaderboard, entities |-> [i \in ids |-> s.entities[First(i)]]]
  BY Zenon DEF UpdateSnapshot
<1>2. /\ world.leaderboard = s.leaderboard /\ world.me = me
      /\ world.entities = [i \in ids |-> s.entities[First(i)]]
  <2> HIDE DEF ids, First
  <2> QED BY <1>1
<1>3. DOMAIN s.entities = 1 .. c
  OBVIOUS
<1>4. ASSUME NEW k \in 1 .. c
      PROVE  \E m \in 1 .. c : Good(e[k].id, m)
  <2> DEFINE T == {m \in 1 .. c : e[m].id = e[k].id}
  <2>1. T \subseteq Nat /\ k \in T
    OBVIOUS
  <2>2. PICK m \in T : \A y \in T : m <= y
    BY <2>1, Least
  <2>3. \A j \in 1 .. (m - 1) : j \in 1 .. c /\ ~(m <= j)
    BY <2>2
  <2>4. Good(e[k].id, m)
    BY <2>2, <2>3
  <2> QED BY <2>2, <2>4
<1>5. ASSUME NEW k \in 1 .. c
      PROVE  e[First(e[k].id)] = e[k]
  <2> DEFINE m == First(e[k].id)
  <2>1. m \in 1 .. c /\ Good(e[k].id, m)
    BY <1>3, <1>4, Zenon
  <2> HIDE DEF m
  <2>2. e[m] = e[k]
    BY <2>1
  <2> QED BY <2>2 DEF m
<1> HIDE DEF First
<1> QED BY <1>2, <1>3, <1>5 DEF Shows

\* Deserialize() and ClientWorld::updateSnapshot() reconstruct from the packet what
\* buildGameSnapshot() put into it, the sweep that follows changes none of it, and
\* ids tell the entities apart: a client that applies the packet sees the world as
\* it is until the next tick, and the leaderboard lists the best live ships.
THEOREM ClientCorrect == Spec => []ClientSeesWorld
PROOF
<1>1. ASSUME ArenaInv, PacketInv
      PROVE  ClientSeesWorld
  <2> SUFFICES ASSUME packet # << >>, NEW me \in 1 .. MaxId, NEW world,
                      world = UpdateSnapshot(Deserialize(packet), me)
               PROVE  /\ {world.entities[k] : k \in DOMAIN world.entities} = {storage[i] : i \in Engaged}
                      /\ IsMyPlayerAlive(world) <=> \E i \in Engaged : storage[i].id = me
                      /\ Lists(world.leaderboard, Ships)
    BY Zenon DEF ClientSeesWorld, Lists, Ships
  <2>1. PoolInv /\ \A i \in Engaged : ~storage[i].isDestroyed
    BY <1>1 DEF PacketInv, ArenaInv
  <2>2. PICK tick \in Nat, n \in Nat, c \in Nat :
          \E board \in [1 .. n -> Entry], ents \in [1 .. c -> Item] :
             /\ n <= MaxLeaderboardSize /\ packet = Serialize(tick, board, ents)
             /\ Lists(board, Ships)
             /\ {ents[k] : k \in 1 .. c} = {storage[i] : i \in Engaged}
    BY <1>1, Zenon DEF PacketInv, Describes
  <2>3. PICK board \in [1 .. n -> Entry], ents \in [1 .. c -> Item] :
             /\ n <= MaxLeaderboardSize /\ packet = Serialize(tick, board, ents)
             /\ Lists(board, Ships)
             /\ {ents[k] : k \in 1 .. c} = {storage[i] : i \in Engaged}
    BY <2>2
  <2>4. Deserialize(packet) = [tick |-> tick, leaderboard |-> board, entities |-> ents]
    <3>1. Layout(packet, tick, n, board, c, ents)
      BY <2>3, Serialized
    <3> QED BY <2>3, <3>1, RoundTrip
  <2>5. /\ \A k \in 1 .. c : \E i \in Engaged : storage[i] = ents[k]
        /\ \A i \in Engaged : \E k \in 1 .. c : storage[i] = ents[k]
    BY <2>3
  <2>6. \A j, k \in 1 .. c : ents[j].id = ents[k].id => ents[j] = ents[k]
    <3>1. \A i, j \in Engaged : storage[i].id = storage[j].id => i = j
      BY <2>1 DEF PoolInv
    <3> QED BY <2>5, <3>1
  <2>7. /\ world.leaderboard = board /\ world.me = me
        /\ DOMAIN world.entities = {ents[k].id : k \in 1 .. c}
        /\ \A k \in 1 .. c : world.entities[ents[k].id] = ents[k]
    <3> DEFINE s == Deserialize(packet)
    <3>1. s.entities = ents /\ s.leaderboard = board
      BY <2>4
    <3> HIDE DEF s
    <3>2. world = UpdateSnapshot(s, me)
      BY DEF s
    <3>3. Shows(world, me, s.leaderboard, ents, c)
      BY <2>6, <3>1, <3>2, Updated
    <3> QED BY <3>1, <3>3, Zenon DEF Shows
  <2> DEFINE w == world.entities
  <2> HIDE DEF w
  <2>8. {w[k] : k \in DOMAIN w} = {storage[i] : i \in Engaged}
    <3>1. DOMAIN w = {ents[k].id : k \in 1 .. c} /\ \A k \in 1 .. c : w[ents[k].id] = ents[k]
      BY <2>7 DEF w
    <3>2. \A v : v \in {w[x] : x \in DOMAIN w} <=> \E k \in 1 .. c : v = ents[k]
      BY <3>1
    <3>3. \A v : v \in {storage[i] : i \in Engaged} <=> \E k \in 1 .. c : v = ents[k]
      <4>1. ASSUME NEW v, v \in {storage[i] : i \in Engaged}
            PROVE  \E k \in 1 .. c : v = ents[k]
        <5>1. PICK i \in Engaged : v = storage[i]
          BY <4>1
        <5> QED BY <2>5, <5>1, Zenon
      <4>2. ASSUME NEW k \in 1 .. c
            PROVE  ents[k] \in {storage[i] : i \in Engaged}
        <5>1. PICK i \in Engaged : storage[i] = ents[k]
          BY <2>5, Zenon
        <5> QED BY <5>1
      <4> QED BY <4>1, <4>2, Zenon
    <3> QED BY <3>2, <3>3
  <2>9. IsMyPlayerAlive(world) <=> \E i \in Engaged : storage[i].id = me
    <3>1. DOMAIN w = {ents[k].id : k \in 1 .. c} /\ \A k \in 1 .. c : w[ents[k].id] = ents[k]
      BY <2>7 DEF w
    <3>2. me \in DOMAIN w <=> \E k \in 1 .. c : ents[k].id = me
      BY <3>1
    <3>3. (\E k \in 1 .. c : ents[k].id = me) <=> \E i \in Engaged : storage[i].id = me
      BY <2>5, Zenon
    <3>4. \A k \in 1 .. c : ~ents[k].isDestroyed
      BY <2>1, <2>5, Zenon
    <3>5. me \in DOMAIN w => ~w[me].isDestroyed
      BY <3>1, <3>2, <3>4
    <3> QED BY <2>7, <3>2, <3>3, <3>5 DEF IsMyPlayerAlive, w
  <2> QED BY <2>3, <2>7, <2>8, <2>9 DEF w
<1> QED BY <1>1, PacketCorrect, PTL

\* GameSnapshot::Deserialize() refuses a packet of the server that lost its end or
\* has a word more: the sizes in front of the entities lead past what is there, or
\* leave something over.
THEOREM DamagedCorrect == Spec => []DamagedPacketsRejected
PROOF
<1>1. ASSUME PacketInv
      PROVE  DamagedPacketsRejected
  <2> SUFFICES ASSUME packet # << >>
               PROVE  /\ \A m \in 0 .. (Len(packet) - 1) : Deserialize(SubSeq(packet, 1, m)) = Malformed
                      /\ \A word \in Words : Deserialize(Append(packet, word)) = Malformed
    BY Zenon DEF DamagedPacketsRejected
  <2>1. PICK tick \in Nat, n \in Nat, c \in Nat :
          \E board \in [1 .. n -> Entry], ents \in [1 .. c -> Item] : packet = Serialize(tick, board, ents)
    BY <1>1, Zenon DEF PacketInv, Describes
  <2>2. PICK board \in [1 .. n -> Entry], ents \in [1 .. c -> Item] : packet = Serialize(tick, board, ents)
    BY <2>1
  <2>3. Layout(packet, tick, n, board, c, ents)
    BY <2>2, Serialized
  <2>4. packet \in Seq(Cell) /\ Len(packet) \in Nat
    BY <2>3 DEF Layout
  <2>5. ASSUME NEW m \in 0 .. (Len(packet) - 1)
        PROVE  Deserialize(SubSeq(packet, 1, m)) = Malformed
    <3> DEFINE q == SubSeq(packet, 1, m)
    <3>1. m \in Nat /\ m <= Len(packet) /\ m # Len(packet)
      BY <2>4
    <3>2. Len(q) = m /\ \A i \in 1 .. m : q[i] = packet[i]
      BY <2>4, <3>1
    <3> HIDE DEF q
    <3>3. \A i \in 1 .. Len(packet) : i <= Len(q) => q[i] = packet[i]
      BY <2>4, <3>1, <3>2
    <3>4. Len(q) \in Nat /\ Len(q) # Len(packet)
      BY <3>1, <3>2
    <3>5. Deserialize(q) = Malformed
      BY <2>3, <3>3, <3>4, Rejected
    <3> QED BY <3>5 DEF q
  <2>6. ASSUME NEW word \in Words
        PROVE  Deserialize(Append(packet, word)) = Malformed
    <3> DEFINE q == Append(packet, word)
    <3>1. word \in Cell
      BY ArenaAssumption DEF Cell
    <3>2. Len(q) = Len(packet) + 1 /\ \A i \in 1 .. Len(packet) : q[i] = packet[i]
      BY <2>4, <3>1
    <3> HIDE DEF q
    <3>3. Len(q) \in Nat /\ Len(q) # Len(packet)
      BY <2>4, <3>2
    <3>4. Deserialize(q) = Malformed
      BY <2>3, <3>2, <3>3, Rejected
    <3> QED BY <3>4 DEF q
  <2> QED BY <2>5, <2>6
<1> QED BY <1>1, PacketCorrect, PTL

=============================================================================
