----------------------------- MODULE EntityMap -----------------------------
(***************************************************************************)
(* What EntityPool (src/src/server/entity_pool.h) promises to those who    *)
(* keep ids: a map from ids to entities.  Nothing is said of slots, of     *)
(* their reuse or of the index.                                            *)
(***************************************************************************)
EXTENDS Naturals

CONSTANTS EntityType, MaxId

VARIABLES entities,  \* what findByEntityID() returns, for the ids for which it is not null
          nextId

mapVars == <<entities, nextId>>

MapInit == entities = [k \in {} |-> 0] /\ nextId = 1

\* acquire() gives a new id to a new entity and leaves the others alone.
Create(t) ==
  /\ nextId <= MaxId
  /\ entities' = [k \in DOMAIN entities \cup {nextId} |->
                    IF k = nextId THEN [id |-> nextId, type |-> t, isDestroyed |-> FALSE]
                                  ELSE entities[k]]
  /\ nextId' = nextId + 1

\* Entities are flagged; they can still be found.
Flag(ids) ==
  /\ entities' = [k \in DOMAIN entities |->
                    IF k \in ids THEN [entities[k] EXCEPT !.isDestroyed = TRUE] ELSE entities[k]]
  /\ UNCHANGED nextId

\* recycleDestroyed() forgets exactly the entities that are flagged.
Forget ==
  /\ entities' = [k \in {id \in DOMAIN entities : ~entities[id].isDestroyed} |-> entities[k]]
  /\ UNCHANGED nextId

MapNext ==
  \/ \E t \in EntityType : Create(t)
  \/ \E ids \in SUBSET DOMAIN entities : Flag(ids)
  \/ Forget

MapSpec == MapInit /\ [][MapNext]_mapVars

=============================================================================
