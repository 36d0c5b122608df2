# SpaceShooter: a TLA+ model of the server and the client

SpaceShooter is a multiplayer game: a C++ server that runs the world in ticks on
a pool of Boost.Asio threads, and a client that connects to it over TCP.  This
directory holds TLA+ modules that model the concurrent and stateful parts of
both, TLC configurations that check them on small instances, and TLAPS proofs of
the results that matter most.  Paths such as `world_instance.cpp` are short for
`src/src/server/world_instance.cpp`; `PROJECT.json` maps every definition to its
lines.

## 1. The system

| Part | State | Operations | Talks to |
|---|---|---|---|
| `EntityPool` (`entity_pool.h`) | slots, free list, id index, next id | `acquire`, `recycleDestroyed`, lookups | owned by `WorldInstance` |
| `WorldInstance`, life cycle (`world_instance.cpp`) | atomic `state_`, strand, timer, action queue, tick counter | `start`, `stop`, `enqueueAction`; `doStart`, `doStop`, `doTick` on the strand | called by `main`, the event bus and the timer |
| `WorldInstance`, a tick | pool, session table, joins, the stages of a tick | drain, input, physics, collisions, reap, asteroids, spawn, recycle, broadcast | publishes packets on the bus |
| `TcpServer` (`tcp_server.cpp`) | acceptor, next session id | `start`, `stop`, the accept handler | creates sessions, publishes |
| `Session` (`session.cpp`) | socket, `closed_`, write queue, `is_writing_` | `start`, `send`, `close`, read and write handlers | one strand each |
| `SessionRegistry`, `NetworkResponseRouter`, `EventBus` | the table of sessions, subscriptions | add, remove, broadcast; JOIN, SHOOT, MOVE | synchronous calls |
| `NetworkContext` (`network_context.h`) | life cycle, work guard, threads, stop tokens | `start`, `stop`, `force_stop`, `wait`, destructor | runs every handler |
| `main()` of the server | where it is | start-up and shutdown order | all of the above |
| `TcpClient` (`tcp_client.cpp`) | connected/connecting flags, two generation counters, pending callback, write queue | `connect`, `send`, `disconnect`, four completion handlers | callbacks to its owner |
| `GameController` (`game_controller.cpp`) | `state_`, `connectGen_` | `start`, `rejoin`, `shutdown`, `shoot`, three callbacks | its own strand, over `TcpClient` |
| `FrameCodec` (`frame_codec.h`) | the caller's read buffer | `encode`, `decode` | the reads and writes of `Session` and `TcpClient` |
| Rules of the game (`collision_utils.h`, `health_utils.h`, `score_utils.h`, `entity.h`) | fields of an entity | damage, scores, growth, the three collision handlers | called by a tick |
| `AsteroidFactory` | none of its own | `update` | acquires from the pool |
| `GameSnapshot`, `ClientWorld` | a packet; the client's map of entities | `Serialize`, `Deserialize`, `updateSnapshot`, `isMyPlayerAlive` | the broadcast of a tick |
| Protocol texts, geometry, logger, views | | pure functions and output | see section 8 |

What is hard here: state that is written on the caller's thread and read on a
strand (`state_`, `disconnect_requested_`); handlers that were queued before a
stop, a disconnect or a restart and run after it; operations that complete after
they were cancelled; several closers of one session; slots of a pool that are
reused while ids of their old tenants are still around; a thread pool whose
`wait()` depends on every pending operation; frames that reads cut anywhere; entities
that meet several others within one tick.  The `hazards` of `PROJECT.json` list
these points at their lines, each with the properties that would catch it.

What makes each part correct: the pool never hands a slot out twice and never
resolves a stale id; the loop stops when told to, leaves no timer behind and ticks
once per interval; sessions and ships stay in step; a connection has one write and
one read at a time and reports its end once; `wait()` means that the threads are
gone, and returns; `main()` ends; a connect callback is called exactly once; the
controller and its transport agree; the frames that arrive are the frames that were
sent; nobody is rewarded twice, and a client sees the world as it is.

## 2. The modules

* **EntityPool** - `storage`, `freeIndices`, `idToIndices`, `nextId`.  An entity is
  reduced to id, type and `isDestroyed`.  `AcquireReuse`/`AcquireGrow` are the two
  branches of `acquire()`, `MarkDestroyed` is what the systems do to an entity,
  `RecycleDestroyed` the whole sweep, slot by slot upwards.  **EntityMap** is its abstract
  specification, a map from ids to entities without slots, free list or index; `ImplementsMap` states that EntityPool implements it,
  what `findByEntityID()` returns being the map.  **EntityPool_proofs** has the theorems.
* **TickLoop** - the life cycle of the game loop.  Callers take the three steps of
  `stop()` (store, cancel, post) one by one beside the strand, whose handlers are
  split at each access to `state_` and to the timer.  The action queue holds the
  number of the start an action came after, a tick body is one step.  The history
  variable `orderly` tells whether every call so far waited for the ones before it to
  take effect and no timer failed; liveness and the single chain are claimed for these
  histories, the rest for all.
  **TickLoop_proofs** has its theorems.
* **World** - the stages of one tick over an instance of EntityPool (`pool`), with
  the event-bus callbacks that enqueue actions.  Geometry is left out: who touches
  whom and what survives is chosen freely among the outcomes the collision code
  allows.  `PoolSpec` states that the world implements EntityPool's specification.
  The history variable `faults` counts what goes wrong: a second JOIN, an action of a
  session that has left, a QUIT that overtakes its JOIN, a stage that throws, a queue
  dropped by a stop.  Properties that the code keeps only without them say `faults = 0`.
  **World_proofs** has its theorems, among them the refinement.
* **Rules** - the rules of the game as functions on entities: damage, saturating scores,
  growth by doubling and the three collision handlers.
* **Snapshot** - leaderboard, serialization and what a client keeps of it.  A packet is a
  sequence of words; an entity's FlatBuffer is two of them, its identifier and the rest.
* **Arena** - the stages of a tick again, this time with the contents of the entities:
  the rules, AsteroidFactory and the packet.  World follows the sessions and lets a
  collision have any outcome; Arena leaves out the sessions and faults and computes the
  outcomes.  Its pool is EntityPool's free list without the index.  The history variable
  `credits` counts hits per bullet and rewards per dead ship.  **Arena_proofs** has the
  theorems.
* **FrameCodec** - a stream of digits, the receiver's buffer and the frames it handled.
  The peer sends frames, oversized headers and noise; a read takes any number of bytes;
  the callback may throw at any frame, after which nothing more is read on the
  connection; the connection may be replaced at any moment.  **MCFrameCodec** gives a
  magic of two digits.  Its theorems are in **Session_proofs**, whose reads call `decode()`.
* **Session** - acceptor, registry, router and sessions.  The accept handler is on no
  strand and is split into its statements; a session's handlers are actions on its
  strand.  **MCSession** says what one read may bring; **Session_proofs** has the theorems.
* **NetworkContext** - the context with its mutex, worker loops and `std::call_once`
  join, over a model of `io_context::run()` (work counting, `stop()`, the guard).
  **NetworkContext_proofs** has its theorems.
* **ServerMain** - `main()` composed with an instance of NetworkContext.  The accept, the
  tick timer and the read of a client are what keeps `run()` busy.  `world->stop()` takes
  its three steps (store, cancel, post) beside the world's strand, on which the posted
  `doStart()` may still be queued; the accept handler asks `is_open()` in a step of its own,
  after it has started the session of the new client.  Errors of the timer are in TickLoop
  only.  That `Session::start()` posts the first `doRead()`, and that `close()` is posted, is
  folded into the handlers that do it.  **ServerMain_proofs** has its theorem.
* **TcpClient** - the strand handlers of the client's connection.  **TcpClientUser**
  adds callers that use it in any order; **GameController** adds the controller, the
  application and the server's answers.  **Client_proofs** has the theorems of both.

Constants that choose the environment:

| Constant | Meaning |
|---|---|
| `TimerMayFail` (TickLoop) | timer operations may throw or report errors |
| `EncodeFails` (Session) | `FrameCodec::encode()` may throw |
| `ThreadsFail`, `HandlersThrow` (NetworkContext) | creating a thread, or a handler, may throw |
| `WorldFirst` (ServerMain) | TRUE: `world->stop()` before `nc.stop()`; FALSE: `main.cpp` as it is |
| `ClientMayCome` (ServerMain) | clients may connect, one at a time |
| `Polite` (GameController) | the application calls `start()` when Disconnected, `rejoin()` when GameOver, one call at a time |

The constants of Rules, Snapshot and Arena scale the numbers of the code down: health 100
is 2, a bullet's 25 is 1, scores saturate at 2 instead of 2^32 - 1, a new ship weighs 4
and asteroids 1 to 3.  What matters is kept: hits that kill at once, at the second hit
and after a lighter collision; asteroids below, inside and above the share of a ship's
mass that it can absorb (more than a fifth, less than half); a mass that meets the next
size exactly.  In FrameCodec a byte is one of three digits, magic and length field have
two, and `CodecAssumption` keeps what the real magic has: different bytes, the length of
a length field, and an excessive value as a length.

Operators whose comment begins with "Mutant:" are wrong variants of the definition
that follows them.  Substituted for it, they show that a property can fail.

## 3. The runs

| Run | Instance | Distinct states | What it shows |
|---|---|---|---|
| `entity_pool` | six ids, one type | 17 305 | free list, index, unique ids, `activeCount()` and stale ids; the pool implements EntityMap |
| `tick_loop` | two callers, five calls, timer errors | 391 236 | no orphaned timer and at most one late tick under every race; for orderly calls one chain of ticks, a last stop that brings everything to rest, and a running loop that ticks on |
| `world` | two sessions, four actions and faults, one asteroid | 562 467 | the session table never dangles and the world implements EntityPool, whatever happens; without faults no ship dies silently, ships and sessions agree and a JOIN leads to a ship |
| `session` | one connection, two sends, two reads | 334 225 | one operation per direction, order of packets, one disconnect event, nothing left behind, broken connections are reaped |
| `network_context` | two clients, two workers, two posts, two operations | 63 266 | one-way life cycle, meaning and termination of `wait()`, `force_stop()`, the destructor |
| `server_main` | two workers, a client, the documented order | 23 233 | if `doStart()` has run before Enter, the shutdown completes when the clients leave; no worker is inside a handler afterwards |
| `server_shutdown` | `main()` as it is | violation | `main()` never returns from `nc.wait()` |
| `tcp_client` | two connects among five calls, one message | 509 736 | one operation per direction, a connection is always served, each connect is answered exactly once |
| `client_polite` | three calls, three messages | 412 407 | JOIN before the game, agreement at rest, a shutdown sticks |
| `client_stale_accept` | an impatient application | violation | InGame without a JOIN |
| `frame_codec` | streams of eleven digits, three of them noise | 297 386 | one pass over the stream whatever the cuts, no sent frame lost, a bounded buffer |
| `arena` | two ships, three slots, six entities | 401 861 | rewards once, bounded growth, the asteroids' budget, the client's view, damaged packets refused |

Why the bounds are enough.  Six ids let a slot be engaged, freed, reused and freed
again while two others are live.  Five calls are start-stop-start-stop and one more,
and two callers overlap inside `stop()`.  Four actions let a session join,
act and quit while the other one does any of these; a fault counts as an action, so a
session can join, quit and act too late, or join twice and quit; pools of this size see
a slot of a dead ship go to an asteroid or a bullet.  Eleven digits hold two frames, or
an oversized header and a frame, with noise before, between and inside them.  Three
slots hold two ships with an asteroid or a bullet of either, and six entities reuse
their slots; a ship absorbs several asteroids, up to a mass of four times its first.  Two sends and the answers to
JOINs queue three packets behind a write.  Sessions share only the registry and the
accept loop, so one session with an accept loop that goes on is enough for the
properties of a session.  Two workers and two clients of a context make one of each
wait for the other.  Two connects with three further calls give
connect-disconnect-connect with an operation of the first still completing, and
three calls with three messages give start, ACCEPT, GAME_END, rejoin, ACCEPT.
`TickModulus = 2` makes the counter wrap.

`CHECK_DEADLOCK FALSE` is used where the program really may come to rest (everything
was stopped, the calls are used up).  EntityPool, World, Arena
and FrameCodec are checked for deadlock.

## 4. Fairness

Weak fairness of the steps a thread of the pool takes (`StrandStep`, `WorkerStep`,
`AcceptHandler`): the threads of `NetworkContext`, and the thread in the client's
`io_context::run()`, run whatever is ready.  Weak fairness of `TimerFires`: a deadline
passes.  Weak fairness of `AcceptOnClosed`: an operation on a closed acceptor fails at once.
Weak fairness of a call that has begun (`StopCancel`, `StopPost`,
`DisconnectPost`, the steps of `wait()` other than being blocked): threads are not
suspended for ever.  Operations on a broken connection fail, and a name lookup, a
connection attempt and a write of the client end, as the operating system's time-outs
make them.  Nothing is assumed of people and peers: nobody has to call, connect, send,
read or leave, so a read may stay pending for ever.

## 5. Proofs

The theorems hold for every number of ids, entity types, sessions, clients, workers,
callers, calls and messages.  Each invariant below was first checked with TLC, as far as
TLC can evaluate it.  "Not inductive" means that the property does not follow from itself
and one step, which is why the strengthening is there.

* **EntityPool_proofs** - `PoolInv`, an invariant of the run `entity_pool`, is inductive: `TypeOK`, `FreeListBijection` (the
  free list has no duplicates and lists exactly the disengaged slots), `IdsUnique`
  (two engaged slots have different ids below `nextId`) and `IndexAgreesWithStorage`.
  None is inductive alone: that the reused slot is disengaged needs the bijection,
  that the new index entry overwrites none needs unique ids, that the sweep finds
  every destroyed slot needs the index.  From it follow `ActiveCountExact`, by counting
  slots, and the action property `StaleIdNeverResolves`, since `acquire()` only
  resolves the fresh id `nextId`.  `PoolIsMap` is the refinement of EntityMap: under
  `PoolInv` each operation changes the lookups as the operation of the map says
  (`StepOfMap`).  That the sweep forgets no other entity needs the exact index, and that a
  reused slot changes no other lookup needs unique ids.  Since World implements EntityPool,
  the same holds of the pool of a world.  Assumptions: `MaxId` is a natural number,
  `Nullopt` is not an entity.
* **TickLoop_proofs** - type correctness; `LateTickBound`, from `LateInv` (which places
  of the strand allow how many late ticks: the counter is 0 again once `doTick()` has
  seen Running, and a handler that saw it counts one tick at most); `NoTimerLeak`, from
  `OrphanInv` (a wait that is armed, or about to be, while the state is Stopped has a
  `stop()` under way: a caller between its steps or a queued `doStop()`).  These two do not
  mention `orderly`, and `TimerMayFail` may have either value: they hold under every race.
  `SingleChainCorrect`, for orderly calls, from `ChainInv`: the timer, the tick in
  progress and the queued completions hold one wait between them (`OneTick`), and
  `start()` and `stop()` do not overlap, so that a `doStart()` finds the timer free and no
  tick behind it in the queue (`OrderlyInv`).  Assumption: the bounds are natural numbers,
  `TickModulus` positive.
* **World_proofs** - `WorldImplementsPool`: every stage of a tick uses the pool through
  `acquire()`, `MarkDestroyed` and `recycleDestroyed()` only (`PoolUse`), so World
  implements EntityPool's specification and inherits `PoolInv` from EntityPool_proofs.
  `BindingsCorrect` is not inductive: `recycleDestroyed()` would break a binding whose
  ship was flagged, so `BindInv` adds that a bound ship is flagged only while collisions
  are resolved or in what a tick that threw left behind (`BoundAlive`), and that `fate`
  tells who is bound.  The theorem holds under all faults.  `NobodyDiesSilently` follows.
  `ShipsAgree` is about `faults = 0`: `WorldInv` follows one JOIN and one QUIT of each session from the
  queue through the batch and the new players to the ship (`Pipe`), and says that every
  live ship has a session.
  Assumptions: the bounds are natural numbers, angle 0 exists, `Nullopt` is no entity.
* **Session_proofs** - `OpsInv` has, for each session, what `is_writing_` promises
  (`WriteInv`: it is set exactly while one write, or its completion, is under way), the same
  for reads (`ReadInv`), what each step of closing leaves behind (`CloseInv`) and what
  the accept handler, on no strand, may still do (`AcceptInv`, `AcceptedKnown`).  From it
  follow `OneOperationCorrect`, `GoneOnceCorrect` and `GoneLeavesNothingCorrect`; none of
  the three is inductive, since a queued handler is what makes two operations or a second
  close possible.  `DeliveryCorrect` needs `OrderInv` on top: delivered, in flight and
  queued packets together are a prefix of what reached the strand, and the sends that
  are still on the strand have an order-preserving place in the packets that were posted
  (`InOrder`).  Assumptions: the bounds are natural numbers, a read is a sequence of
  frames.
  The second half is about FrameCodec.  `CodecInv` says that the buffer is what is left of
  the input (`Holds`), that the frames handled are those of one pass over the part that was
  consumed (`Parsed`), and that after `decode()` less than one frame remains (`Residue`);
  it gives `ParseCorrect` and `ResidueCorrect`.  `SentCorrect` needs more, since a parse
  that is in step could be thrown out of step by a header in the wrong place: `SentInv`
  adds that the frames of a peer without noise are whole, in order and do not overlap, and
  that no header begins outside them, except perhaps after the first byte of an oversized
  header at the end of the stream (`Framed`).  That new bytes keep this (`NoHeaderBetween`)
  uses that the bytes of the magic differ and that the magic is as long as a length field
  and excessive as a length; reading a length field returns what `encode()` wrote
  (`NumberOfField`).  Assumption: `CodecAssumption`.
* **NetworkContext_proofs** - type correctness; `WaitCorrect`, from `JoinInv`: who may hold
  the mutex (`LockInv`), that every thread that has not ended is either in
  `worker_threads_` or in the hands of a joiner (`NoOrphan`, `JoinersHold`), and what
  `call_once` guarantees (`OnceInv`); the action property `LifeCycleCorrect`.  Assumptions:
  the bounds are natural numbers; the value `"free"` of the mutex is not a client.
* **ServerMain_proofs** - `MainCorrect`, for either order of the shutdown, from `MainInv`:
  only `main()` calls the context, so where it is decides which part of NetworkContext's
  state is possible (`MainOwnsPool`), and code of the server runs only
  inside a handler.
* **Client_proofs** - three arguments, each on top of the one before.
  `ConnectionInv`, for a TcpClient whose callers do anything: completions and operations
  carry generations that have been given out (`TypeInv`); flags and disconnects that are
  pending fit together (`FlagInv`); of the generation in use there is at most one operation
  of each kind, under way or completed and not handled, and none unless a flag says so
  (`LiveInv`); a connected client that nobody disconnects has a read and, when frames wait,
  a write (`ServedInv`).  `OneOperationAtATime` alone is not inductive: a completion that is
  queued would start the second operation.  From it `OneOperationCorrect` and
  `ServedCorrect`.  `CallbacksCorrect` adds `CallbackInv`: a callback is in the strand, with
  the attempt, or called.  That it is called in the end is the liveness half and stays with
  TLC.
  `ShutdownCorrect`, polite or not, from `ShutdownInv`: when `shutdown()` was the last
  request it is either still in the controller's queue with no `start()` or `rejoin()`
  behind it, or it has been served and the transport is on its way down: a `disconnect`
  behind the last `connectCall` of the strand, or neither flag set and no `connectCall`
  queued.
  `JoinCorrect` and `AgreesCorrect`, for `Polite` applications, from `ControllerInv`, which
  relates the controller's state to the transport and both queues.  A Connecting controller
  has asked for a connection, and the attempt is under way or its outcome waits; a
  Disconnected one has a transport that is down or goes down; one that plays has a
  connection until its end is announced.  A queued connect finds the transport down, and an
  abandoned attempt is fenced by a disconnect.  There is one JOIN per connection and the
  server answers only that; no answer reaches a Connecting controller or one whose game is
  over, a final answer is the last, and a polite `start()` or `rejoin()` waits behind all
  answers.  This is the part that an impatient application breaks (`client_stale_accept`).
* **Arena_proofs** - `ArenaInv`: the pool is well formed, its entities are sound (fields in
  range, a live ship has health, its radius fits its mass) and have different ids
  (`PoolInv`); every credit is 1 and no live entity has one (`CreditInv`); the asteroids keep
  their budget.  `RewardedOnce` is not inductive: that a second collision of the same tick
  cannot credit an entity again follows from its being destroyed after the first.
  `GrowthCorrect` needs the relation of radius and mass in powers of two, and the rule that
  an asteroid is absorbed only below half of the ship's mass and above a fifth.
  `GrowthSurvivedCorrect` says that `tryGrowShip()` never refuses, so that nobody dies of
  growing.  `BudgetCorrect` is about a sum over slots that collisions, sweeps and
  `acquire()`s change in several places at once.
  The packets need `PacketInv` on top: while there is a packet, no tick is under way,
  nothing is flagged, and the packet is what `Serialize()` makes of the entities in the pool
  and a leaderboard of the live ships; the sweep after the broadcast takes nothing of it away
  (`Swept`).  `ClientCorrect` follows from `RoundTrip`: a walk over the packet finds each
  length word where `Serialize()` put it, so that `Deserialize()` returns tick, leaderboard
  and entities; and from `Listed`: a ranking of all live ships without repetition leaves none
  out.  `DamagedCorrect` follows from `Rejected`: the same walk leads to the place where the
  packet should end, and a packet of another length ends elsewhere.  Assumptions:
  `RulesAssumption`, `ArenaAssumption`, `GrowthAssumption` and that of Snapshot, which the
  numbers of the code satisfy (a new ship weighs 78.54, the heaviest asteroid 80; the world
  is 400 times as wide as the radius of a new ship).

The operators that the proofs keep needing have lemmas of their own: what posting to and
taking from a queue does to its places (`QueuePlaces`, `AppendOf`, `TailOf`, `Take`,
`WaitsTail`), what the pool's operations do to a lookup (`FindFacts`, `AcquireFinds`,
`MarkFinds`, `RecycleFinds`), and that at most one operation is a cardinality of at most
one (`CountOf`, `CountOne`).  The induction theorems of the library take an operator as a
parameter, which the provers cannot instantiate.  What a recursive function computes (a sum,
a power, a parse) is therefore proved from the least element of a set of numbers (`Least`),
which gives induction over sets of numbers (`UpTo`, `DownFrom`); the same argument shows
that the recursive functions exist.

Every invariant and every action property of the passing runs is stated by a theorem.
Only model-checked is liveness, since fairness is out of the prover's reach:
`LastStopQuiesces`, `KeepsTicking`, `JoinLeadsToShip`, `BrokenConnectionReaped`,
`WaitReturns`, `ForceStopEndsWorkers`, `DestructorReturns`, `ShutdownCompletes` and the
half of `EveryConnectAnsweredOnce` that says that the callback is called in the end.

## 6. Where code and documentation disagree

Two runs of `PROJECT.json` record violations:

* `server_shutdown` - `main.cpp` calls `nc.stop()` and `nc.wait()` before `world->stop()`.
  The tick timer is re-armed for ever, so the workers never leave `run()`.
  `world_instance.h` asks for the opposite order.  `server_main` shows that it works when
  the world had started before Enter was pressed; when it had not, even that order can hang
  (`EarlyShutdownCompletes` below).
* `client_stale_accept` - an ACCEPT of the old connection queued behind a `rejoin()` meets
  state Connecting and makes the client InGame without a JOIN, against the session
  model described for `rejoin()`.

The same models show further disagreements.  Each can be seen by editing a
configuration as stated:

| Property | Configuration | What happens |
|---|---|---|
| `AgreesAtRest` | ClientPolite, `Polite = FALSE` | after the stale ACCEPT the old connection's end takes the controller to Disconnected, the new connect callback is dropped and the socket stays open; `start()` can then only fail |
| `LastStopQuiesces` | TickLoop, without its `orderly` | `start()` then `stop()` at once: `doStart()` runs after `stop()` stored Stopped, and the loop runs on although stop() was last (`world_instance.h:245`) |
| `EarlyShutdownCompletes` | ServerMain, in place of `ShutdownCompletes` | `std::cin.get()` returns at once (the input is at its end): `world->stop()` stores Stopped while the posted `doStart()` is still queued, `doStart()` makes the world Running and arms the timer, `doStop()` only cancels, and a tick that fired before that re-arms for ever; `world_instance.cpp:93` calls the stop immediate and deterministic, so that `wait()` does not hang |
| `SingleChain` | TickLoop, without its `orderly` | a tick queued before stop-start re-arms beside the new chain (`world_instance.h:234`) |
| `NoStaleActionApplied` | add to TickLoop | an action enqueued while stopped is applied after the restart (`world_instance.cpp:161`) |
| `OnlyCompleteTicksCount` | add to TickLoop | `runTickStep()` swallows the exception that `world_instance.h:210` says reaches `doTick()` |
| `NoTickAfterStop` | add to TickLoop | a tick is counted after `stop()` has returned (`test_world_instance.cpp:191`) |
| `ShipsAndSessionsAgree` | World, without its `faults = 0` | a second JOIN leaves the first ship without a pilot; JOIN and QUIT in one tick leave a ship bound to a session that is gone |
| `HeadingKept` | add to World, `Angles = {0, 1}` | a shot carries angle 0 and turns the ship (`test_world_instance.cpp:352`) |
| `GracefulStopDrains` | add to NetworkContext | a worker that has not entered its loop when `stop()` comes leaves the queue unserved (`network_context.h:27`) |
| `EscalationFreesWaiter` | add to NetworkContext | `wait()` sets Joined before it joins, so `force_stop()` is a no-op for it (`network_context.h:176`) |

Seen while reading, and outside the models: the comment in `asteroid_factory.cpp:39`
promises a larger radius factor for light asteroids, but both factors are 30; the client
encodes `MOVE up` (`protocol.cpp`) where the server's router parses a number.  With the
masses of the code a ship stays below 480, far below the mass at which its radius doubles
to the width of the world, so the check of `tryGrowShip()` never refuses (theorem
`GrowthSurvivedCorrect`).

`WaitMeansDone` has an exception the comment of `wait()` does not have: while a failed
`start()` rolls back, `wait()` returns although threads still run.

## 7. Plan

Order of work so far: the pool and the loop first, because everything the server does
passes through them; then the tick, the connections, the thread pool and `main()`; then
the client; then the codec, the rules of the game and the snapshots; then the proofs, from
the pool outwards.

What could be added: an ordered channel from the server to a client as an abstract
specification that Session implements, and a composition of World and Session in which a
packet goes from `broadcastSnapshot()` to the socket.

## 8. Not modelled

* Session and TcpClient take whole frames: FrameCodec shows that the cuts do not matter.
  `decode()` of the protocol is reduced to the kind of message.
* The bytes of a FlatBuffer (generated code), names, and the tick number, which nothing
  reads.  Nothing in the client calls `GameSnapshot::Deserialize()` or
  `ClientWorld::updateSnapshot()` yet; `ClientSeesWorld` is about an application that
  applies each packet, as the tests do.
* `restoreHealth()` and `createSplitAsteroid()`, which nothing calls.
* Floating-point geometry and physics: out of TLC's reach.  Positions, velocities and
  the search for free space become free choices.
* Logger, views, null renderer and input: no state that a property depends on.
  `ClientWorld` is never updated by the controller, so `shoot()` never sends; the model
  keeps that.
* Allocation failures in the client, start-up errors of the server (a port in use), and
  torn accesses to objects that are not thread-safe (`tick_timer_`).
* `NetworkResponseRouter::setMessageHandler()`, which nothing in the server calls, and
  the set-up of subscriptions, which happens before any thread runs.
