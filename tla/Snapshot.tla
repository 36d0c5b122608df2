------------------------------ MODULE Snapshot ------------------------------
(***************************************************************************)
(* The snapshot of the world that every tick broadcasts: buildLeaderboard()*)
(* and buildEntitySnapshots() (src/src/server), GameSnapshot::Serialize()  *)
(* and Deserialize() (src/src/common/game_snapshot.cpp), and ClientWorld   *)
(* (src/src/client), which keeps what it says.                             *)
(*                                                                         *)
(* A packet is a sequence of items of the sizes the code reads: 32-bit     *)
(* words, a name, and the words of an entity's FlatBuffer, of which there  *)
(* are two, its identifier and the rest.  The name of a player is the      *)
(* number of the ship.                                                     *)
(***************************************************************************)
EXTENDS Naturals, Sequences, FiniteSets, SequencesExt

CONSTANTS MaxLeaderboardSize,  \* kMaxLeaderboardSize
          Identifier,          \* the file identifier of an entity's FlatBuffer
          Malformed            \* std::invalid_argument

ASSUME SnapshotAssumption == MaxLeaderboardSize \in Nat

LiveShip(e) == e.type = "Ship" /\ e.health > 0 /\ ~e.isDestroyed

\* Mutant: the lowest scores come first.
RanksWorst(s) == \A j, k \in DOMAIN s : j < k => s[j].score <= s[k].score

Ranks(s) == \A j, k \in DOMAIN s : j < k => s[j].score >= s[k].score

\* buildLeaderboard(): std::partial_sort of the live ships by score, cut to the
\* table's size.  It is not stable, so equal scores come in any order.
Leaderboards(entities) ==
  LET ships  == {e \in entities : LiveShip(e)}
      Sorted == {s \in [1 .. Cardinality(ships) -> ships] : IsInjective(s) /\ Ranks(s)}
      count  == Min({MaxLeaderboardSize, Cardinality(ships)})
  IN  {[k \in 1 .. count |-> [name |-> s[k].id, score |-> s[k].score]] : s \in Sorted}

\* buildEntitySnapshots(): the live entities in the order of the slots.
EntitySnapshots(slots, None) ==
  FlattenSeq([i \in DOMAIN slots |->
                IF slots[i] # None /\ ~slots[i].isDestroyed THEN <<slots[i]>> ELSE << >>])

-----------------------------------------------------------------------------

SerializeEntity(e) == <<Identifier, e>>

Serialize(tick, leaderboard, entities) ==
  <<tick, Len(leaderboard)>>
  \o FlattenSeq([k \in DOMAIN leaderboard |-> <<leaderboard[k].name, leaderboard[k].score>>])
  \o <<Len(entities)>>
  \o FlattenSeq([k \in DOMAIN entities |->
                   <<Len(SerializeEntity(entities[k]))>> \o SerializeEntity(entities[k])])

\* DeserializeEntity() accepts a whole buffer with the right identifier.
ValidEntity(payload) == Len(payload) = 2 /\ payload[1] = Identifier

\* Positions in a packet with n leaderboard entries: of the number of entities, ...
EntityCountAt(n) == 3 + 2 * n

\* ... and, once the sizes of k entities have been read, of what follows them.
EntityAt(packet, n, k) ==
  LET at[i \in 0 .. k] == IF i = 0 THEN EntityCountAt(n) + 1
                          ELSE IF at[i - 1] > Len(packet) THEN at[i - 1]
                          ELSE at[i - 1] + 1 + packet[at[i - 1]]
  IN  at[k]

Payload(packet, n, k) == SubSeq(packet, EntityAt(packet, n, k - 1) + 1, EntityAt(packet, n, k) - 1)

\* The checks of Deserialize() up to the entities.
ValidHead(packet) ==
  /\ Len(packet) >= 2
  /\ packet[2] <= MaxLeaderboardSize /\ packet[2] <= (Len(packet) - 2) \div 2
  /\ EntityCountAt(packet[2]) <= Len(packet)
  /\ packet[EntityCountAt(packet[2])] <= Len(packet) - EntityCountAt(packet[2])

\* The entities are whole and valid.
ValidEntities(packet, n, count) ==
  \A k \in 1 .. count :
    /\ EntityAt(packet, n, k - 1) <= Len(packet)
    /\ EntityAt(packet, n, k) <= Len(packet) + 1
    /\ ValidEntity(Payload(packet, n, k))

Contents(packet, n, count) ==
  [tick        |-> packet[1],
   leaderboard |-> [k \in 1 .. n |-> [name |-> packet[2 * k + 1], score |-> packet[2 * k + 2]]],
   entities    |-> [k \in 1 .. count |-> Payload(packet, n, k)[2]]]

\* Mutant: what follows the last entity is ignored.
DeserializeLoose(packet) ==
  LET n     == packet[2]
      count == packet[EntityCountAt(n)]
  IN  IF ValidHead(packet) /\ ValidEntities(packet, n, count)
        THEN Contents(packet, n, count) ELSE Malformed

\* Deserialize(): nothing may follow the last entity.
Deserialize(packet) ==
  LET n     == packet[2]
      count == packet[EntityCountAt(n)]
  IN  IF /\ ValidHead(packet) /\ ValidEntities(packet, n, count)
         /\ EntityAt(packet, n, count) = Len(packet) + 1
        THEN Contents(packet, n, count) ELSE Malformed

-----------------------------------------------------------------------------

\* ClientWorld::updateSnapshot(): entities by id, the first of each.
UpdateSnapshot(snapshot, me) ==
  LET ids      == {snapshot.entities[k].id : k \in DOMAIN snapshot.entities}
      First(i) == CHOOSE k \in DOMAIN snapshot.entities :
                    /\ snapshot.entities[k].id = i
                    /\ \A j \in 1 .. (k - 1) : snapshot.entities[j].id # i
  IN  [me |-> me, leaderboard |-> snapshot.leaderboard,
       entities |-> [i \in ids |-> snapshot.entities[First(i)]]]

\* isMyPlayerAlive(); the death screen is active when it is false.
IsMyPlayerAlive(world) ==
  world.me \in DOMAIN world.entities /\ ~world.entities[world.me].isDestroyed

=============================================================================
