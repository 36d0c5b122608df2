--------------------------- MODULE NetworkContext ---------------------------
(***************************************************************************)
(* NetworkContext (src/src/server/network_context.h): one io_context and   *)
(* the pool of worker threads that run it.                                 *)
(*                                                                         *)
(* start(), stop(), force_stop() and the first half of wait() hold mutex_; *)
(* stop() and force_stop() do all their work under it and are one action   *)
(* each.  The workers run beside them.  Of the io_context the model has    *)
(* what run() depends on: how many handlers are ready, how many operations *)
(* are pending, the work guard and the stopped flag.                       *)
(***************************************************************************)
EXTENDS Naturals, FiniteSets

CONSTANTS Workers,        \* the threads the pool may have (thread_count_)
          Clients,        \* threads that call start() and wait()
          MaxPosts,       \* bound: handlers posted from outside
          MaxOps,         \* bound: operations pending and handlers ready at a time,
                          \* as far as they are started by handlers or StartOp
          HandlersThrow,  \* TRUE: a handler may throw
          ThreadsFail     \* TRUE: creating a thread may throw

ASSUME NetworkContextAssumption ==
  /\ MaxPosts \in Nat /\ MaxOps \in Nat
  /\ HandlersThrow \in BOOLEAN /\ ThreadsFail \in BOOLEAN
  /\ "free" \notin Clients    \* "free" is the value of lock when nobody holds it

VARIABLES state,      \* state_
          lock,       \* the client inside start(), or "free"
          guard,      \* work_guard_ holds the io_context
          ioStopped,  \* io_context_.stopped()
          ready,      \* handlers ready to run
          ops,        \* asynchronous operations pending
          posts,      \* handlers posted so far
          worker,     \* where each worker thread is
          ran,        \* workers whose current run() has run a handler
          stopReq,    \* workers whose stop_token is set
          owned,      \* worker_threads_
          joining,    \* threads each client is joining
          clientAt,   \* where each client is
          joinOnce,   \* join_flag_
          forced,     \* force_stop() was called after start() and returned
          aborted     \* fatal() was called

pool == <<state, lock, guard, owned, stopReq>>
io   == <<ioStopped, ready, ops, posts>>
vars == <<pool, io, worker, ran, joining, clientAt, joinOnce, forced, aborted>>

Init ==
  /\ state = "NotStarted" /\ lock = "free" /\ guard = TRUE
  /\ ioStopped = FALSE /\ ready = 0 /\ ops = 0 /\ posts = 0
  /\ worker = [w \in Workers |-> "none"] /\ ran = {} /\ stopReq = {} /\ owned = {}
  /\ joining = [c \in Clients |-> {}] /\ clientAt = [c \in Clients |-> "idle"]
  /\ joinOnce = "no" /\ forced = FALSE /\ aborted = FALSE

-----------------------------------------------------------------------------
(* The public interface *)

\* start() in any state but NotStarted returns or throws and changes nothing.
StartBegin(c) ==
  /\ clientAt[c] = "idle" /\ lock = "free" /\ state = "NotStarted"
  /\ lock' = c /\ state' = "Started"
  /\ clientAt' = [clientAt EXCEPT ![c] = "starting"]
  /\ UNCHANGED <<guard, owned, stopReq, io, worker, ran, joining, joinOnce, forced, aborted>>

\* worker_threads_.emplace_back()
SpawnWorker(c, w) ==
  /\ clientAt[c] = "starting" /\ worker[w] = "none"
  /\ worker' = [worker EXCEPT ![w] = "top"]
  /\ owned' = owned \cup {w}
  /\ UNCHANGED <<state, lock, guard, stopReq, io, ran, joining, clientAt, joinOnce, forced, aborted>>

\* All threads are there: start() returns.
StartEnd(c) ==
  /\ clientAt[c] = "starting" /\ owned = Workers
  /\ lock' = "free"
  /\ clientAt' = [clientAt EXCEPT ![c] = "idle"]
  /\ UNCHANGED <<state, guard, owned, stopReq, io, worker, ran, joining, joinOnce, forced, aborted>>

\* emplace_back() throws: the rollback, which releases the lock ...
StartFails(c) ==
  /\ ThreadsFail /\ clientAt[c] = "starting" /\ owned # Workers
  /\ stopReq' = stopReq \cup owned
  /\ ioStopped' = TRUE
  /\ joining' = [joining EXCEPT ![c] = owned] /\ owned' = {}
  /\ state' = "Stopped"
  /\ lock' = "free"
  /\ clientAt' = [clientAt EXCEPT ![c] = "unwinding"]
  /\ UNCHANGED <<guard, ready, ops, posts, worker, ran, joinOnce, forced, aborted>>

AllDone(S) == \A w \in S : worker[w] = "done"

\* ... and joins the threads created so far before start() throws.
StartThrows(c) ==
  /\ clientAt[c] = "unwinding" /\ AllDone(joining[c])
  /\ joining' = [joining EXCEPT ![c] = {}]
  /\ clientAt' = [clientAt EXCEPT ![c] = "idle"]
  /\ UNCHANGED <<pool, io, worker, ran, joinOnce, forced, aborted>>

\* Handlers being run at this moment.
Running == {w \in Workers : worker[w] = "handler"}

\* run() stops the io_context when it finds no work left.
OutOfWork(rdy, pending, run, held) == rdy = 0 /\ pending = 0 /\ run = {} /\ ~held

\* Mutant: the work guard is kept.
StopKeepsGuard ==
  /\ lock = "free" /\ state = "Started"
  /\ state' = "Stopped"
  /\ stopReq' = stopReq \cup owned
  /\ UNCHANGED <<lock, guard, owned, io, worker, ran, joining, clientAt, joinOnce, forced, aborted>>

\* stop(), from a client or a handler; a no-op unless Started.
Stop ==
  /\ lock = "free" /\ state = "Started"
  /\ state' = "Stopped"
  /\ guard' = FALSE
  /\ stopReq' = stopReq \cup owned
  /\ ioStopped' = (ioStopped \/ OutOfWork(ready, ops, Running, FALSE))
  /\ UNCHANGED <<lock, owned, ready, ops, posts, worker, ran, joining, clientAt, joinOnce,
                 forced, aborted>>

\* Mutant: force_stop() works in every state after start().
ForceStopAnyTime ==
  /\ lock = "free" /\ state # "NotStarted"
  /\ state' = "Stopped"
  /\ ioStopped' = TRUE
  /\ guard' = FALSE
  /\ stopReq' = stopReq \cup owned
  /\ forced' = TRUE
  /\ UNCHANGED <<lock, owned, ready, ops, posts, worker, ran, joining, clientAt, joinOnce, aborted>>

\* Mutant: force_stop() leaves the io_context running.
ForceStopGently ==
  /\ lock = "free" /\ state \in {"Started", "Stopped"}
  /\ state' = "Stopped"
  /\ guard' = FALSE
  /\ stopReq' = stopReq \cup owned
  /\ forced' = TRUE
  /\ UNCHANGED <<lock, owned, io, worker, ran, joining, clientAt, joinOnce, aborted>>

\* force_stop(), from a client or a handler.
ForceStop ==
  /\ lock = "free" /\ state \in {"Started", "Stopped"}
  /\ state' = "Stopped"
  /\ ioStopped' = TRUE
  /\ guard' = FALSE
  /\ stopReq' = stopReq \cup owned
  /\ forced' = TRUE
  /\ UNCHANGED <<lock, owned, ready, ops, posts, worker, ran, joining, clientAt, joinOnce, aborted>>

\* force_stop() when Joined: a no-op.
ForceStopIgnored ==
  /\ lock = "free" /\ state = "Joined"
  /\ forced' = TRUE
  /\ UNCHANGED <<pool, io, worker, ran, joining, clientAt, joinOnce, aborted>>

\* wait(): the precondition is checked under the lock, which is then released.
WaitBegin(c) ==
  /\ clientAt[c] = "idle" /\ lock = "free" /\ state \in {"Stopped", "Joined"}
  /\ clientAt' = [clientAt EXCEPT ![c] = "waiting"]
  /\ UNCHANGED <<pool, io, worker, ran, joining, joinOnce, forced, aborted>>

\* wait() before stop(): fatal().
WaitFatal(c) ==
  /\ clientAt[c] = "idle" /\ lock = "free" /\ state \in {"NotStarted", "Started"}
  /\ aborted' = TRUE
  /\ UNCHANGED <<pool, io, worker, ran, joining, clientAt, joinOnce, forced>>

\* Mutant: the destructor joins without stopping the io_context.
DestroyNoForce(c) ==
  /\ lock = "free" /\ \A d \in Clients : clientAt[d] \in {"idle", "waited"}
  /\ clientAt' = [d \in Clients |-> IF d = c THEN "destroying" ELSE "gone"]
  /\ UNCHANGED <<pool, io, worker, ran, joining, joinOnce, forced, aborted>>

\* ~NetworkContext(), when nobody else uses the context any more: force_stop()
\* without its result, then join_workers() without the precondition of wait().
Destroy(c) ==
  /\ lock = "free" /\ \A d \in Clients : clientAt[d] \in {"idle", "waited"}
  /\ clientAt' = [d \in Clients |-> IF d = c THEN "destroying" ELSE "gone"]
  /\ IF state \in {"Started", "Stopped"}
       THEN /\ state' = "Stopped" /\ ioStopped' = TRUE /\ guard' = FALSE
            /\ stopReq' = stopReq \cup owned /\ forced' = TRUE
       ELSE UNCHANGED <<state, ioStopped, guard, stopReq, forced>>
  /\ UNCHANGED <<lock, owned, ready, ops, posts, worker, ran, joining, joinOnce, aborted>>

\* Mutant: a second caller returns while the first one is still joining.
JoinSkipEarly(c) ==
  /\ clientAt[c] \in {"waiting", "destroying"} /\ joinOnce # "no"
  /\ clientAt' = [clientAt EXCEPT ![c] = "waited"]
  /\ UNCHANGED <<pool, io, worker, ran, joining, joinOnce, forced, aborted>>

\* join_workers(): the first caller takes the threads and sets Joined, ...
JoinBegin(c) ==
  /\ clientAt[c] \in {"waiting", "destroying"} /\ joinOnce = "no" /\ lock = "free"
  /\ joinOnce' = "running"
  /\ joining' = [joining EXCEPT ![c] = owned] /\ owned' = {}
  /\ state' = "Joined"
  /\ clientAt' = [clientAt EXCEPT ![c] = "joining"]
  /\ UNCHANGED <<lock, guard, stopReq, io, worker, ran, forced, aborted>>

\* ... then joins them, outside the lock, inside call_once();
JoinEnd(c) ==
  /\ clientAt[c] = "joining" /\ AllDone(joining[c])
  /\ joining' = [joining EXCEPT ![c] = {}]
  /\ joinOnce' = "done"
  /\ clientAt' = [clientAt EXCEPT ![c] = "waited"]
  /\ UNCHANGED <<pool, io, worker, ran, forced, aborted>>

\* every other caller returns once that is done.
JoinSkip(c) ==
  /\ clientAt[c] \in {"waiting", "destroying"} /\ joinOnce = "done"
  /\ clientAt' = [clientAt EXCEPT ![c] = "waited"]
  /\ UNCHANGED <<pool, io, worker, ran, joining, joinOnce, forced, aborted>>

-----------------------------------------------------------------------------
(* The io_context and its users *)

\* asio::post() from outside; users stop posting before they stop the context.
Post ==
  /\ posts < MaxPosts /\ guard
  /\ posts' = posts + 1 /\ ready' = ready + 1
  /\ UNCHANGED <<pool, ioStopped, ops, worker, ran, joining, clientAt, joinOnce, forced, aborted>>

\* An asynchronous operation is started from outside.
StartOp ==
  /\ ops + ready < MaxOps /\ guard
  /\ ops' = ops + 1
  /\ UNCHANGED <<pool, ioStopped, ready, posts, worker, ran, joining, clientAt, joinOnce, forced, aborted>>

\* A pending operation completes or is cancelled: its handler becomes ready.
OpCompletes ==
  /\ ops > 0
  /\ ops' = ops - 1 /\ ready' = ready + 1
  /\ UNCHANGED <<pool, ioStopped, posts, worker, ran, joining, clientAt, joinOnce, forced, aborted>>

\* worker_loop(): while (!st.stop_requested())
WorkerTop(w) ==
  /\ worker[w] = "top"
  /\ worker' = [worker EXCEPT ![w] = IF w \in stopReq THEN "done" ELSE "run"]
  /\ ran' = ran \ {w}
  /\ UNCHANGED <<pool, io, joining, clientAt, joinOnce, forced, aborted>>

\* run() takes a handler.
RunHandler(w) ==
  /\ worker[w] = "run" /\ ~ioStopped /\ ready > 0
  /\ ready' = ready - 1
  /\ worker' = [worker EXCEPT ![w] = "handler"]
  /\ ran' = ran \cup {w}
  /\ UNCHANGED <<pool, ioStopped, ops, posts, joining, clientAt, joinOnce, forced, aborted>>

\* The handler ends, having started k operations; run() goes on, or is left
\* with an exception that worker_loop() swallows.
HandlerEnds(w, k, next) ==
  /\ worker[w] = "handler"
  /\ ops' = ops + k
  /\ worker' = [worker EXCEPT ![w] = next]
  /\ ioStopped' = (ioStopped \/ OutOfWork(ready, ops + k, Running \ {w}, guard))
  /\ UNCHANGED <<pool, ready, posts, ran, joining, clientAt, joinOnce, forced, aborted>>

HandlerReturns(w, k) == HandlerEnds(w, k, "run")

HandlerThrows(w) == HandlersThrow /\ HandlerEnds(w, 0, "check")

\* run() returns: with 0 the loop is left at once.
RunReturns(w) ==
  /\ worker[w] = "run" /\ ioStopped
  /\ worker' = [worker EXCEPT ![w] = IF w \in ran THEN "check" ELSE "done"]
  /\ UNCHANGED <<pool, io, ran, joining, clientAt, joinOnce, forced, aborted>>

\* The end of the loop's body.
WorkerCheck(w) ==
  /\ worker[w] = "check"
  /\ worker' = [worker EXCEPT ![w] = IF ioStopped \/ w \in stopReq THEN "done" ELSE "top"]
  /\ UNCHANGED <<pool, io, ran, joining, clientAt, joinOnce, forced, aborted>>

WorkerStep(w) ==
  \/ WorkerTop(w) \/ RunHandler(w) \/ RunReturns(w) \/ WorkerCheck(w)
  \/ \E k \in 0 .. MaxOps : ops + ready + k <= MaxOps /\ HandlerReturns(w, k)
  \/ HandlerThrows(w)

ClientStep(c) ==
  \/ \E w \in Workers : SpawnWorker(c, w)
  \/ StartEnd(c) \/ StartThrows(c)
  \/ JoinBegin(c) \/ JoinEnd(c) \/ JoinSkip(c)

Next ==
  /\ ~aborted
  /\ \/ \E c \in Clients :
          \/ StartBegin(c) \/ StartFails(c) \/ WaitBegin(c) \/ WaitFatal(c) \/ Destroy(c)
          \/ ClientStep(c)
     \/ Stop \/ ForceStop \/ ForceStopIgnored
     \/ Post \/ StartOp \/ OpCompletes
     \/ \E w \in Workers : WorkerStep(w)

Spec == Init /\ [][Next]_vars

\* Threads run and handlers end.  Nobody has to call anything and no operation
\* has to complete.
Fairness ==
  /\ \A w \in Workers : WF_vars(~aborted /\ WorkerStep(w))
  /\ \A c \in Clients : WF_vars(~aborted /\ ClientStep(c))

FairSpec == Spec /\ Fairness

-----------------------------------------------------------------------------
(* Properties *)

\* Type invariant of the context.
TypeOK ==
  /\ state \in {"NotStarted", "Started", "Stopped", "Joined"}
  /\ lock \in Clients \cup {"free"}
  /\ guard \in BOOLEAN /\ ioStopped \in BOOLEAN
  /\ ready \in Nat /\ ops \in 0 .. MaxOps /\ posts \in 0 .. MaxPosts
  /\ worker \in [Workers -> {"none", "top", "run", "handler", "check", "done"}]
  /\ ran \subseteq Workers /\ stopReq \subseteq Workers /\ owned \subseteq Workers
  /\ joining \in [Clients -> SUBSET Workers]
  /\ clientAt \in [Clients -> {"idle", "starting", "unwinding", "waiting", "destroying",
                            "joining", "waited", "gone"}]
  /\ joinOnce \in {"no", "running", "done"}
  /\ forced \in BOOLEAN /\ aborted \in BOOLEAN

Rank == [NotStarted |-> 0, Started |-> 1, Stopped |-> 2, Joined |-> 3]

\* The life cycle is one-way (the state diagram of network_context.h): whatever
\* start(), stop(), force_stop() and wait() race, no state comes back.
OneWayLifeCycle == [][Rank[state'] >= Rank[state]]_vars

\* A start() that failed half-way is joining the threads it had created.
RollingBack == \E c \in Clients : clientAt[c] = "unwinding"

\* Once a wait() has returned every thread of the pool has ended ("wait() blocks
\* until all workers are done"), also for the callers that found another one
\* joining.  Only a start() that is rolling back may still have threads.
WaitMeansDone ==
  (\E c \in Clients : clientAt[c] = "waited") /\ ~RollingBack
    => \A w \in Workers : worker[w] \in {"none", "done"}

\* When no operation stays pending, a wait() that has begun returns.
WaitReturns ==
  <>[](ops = 0) => \A c \in Clients : clientAt[c] = "waiting" ~> clientAt[c] = "waited"

\* force_stop() in the states Started and Stopped wakes all workers, whatever is
\* pending, and the pool winds down.
ForceStopEndsWorkers ==
  forced /\ state = "Stopped" ~> \A w \in Workers : worker[w] \in {"none", "done"}

\* The destructor does not hang on pending operations (the comments of wait() and
\* join_workers()).
DestructorReturns ==
  \A c \in Clients : clientAt[c] = "destroying" ~> clientAt[c] = "waited"

-----------------------------------------------------------------------------
(* What the comments of network_context.h say and the code does not keep *)

\* A graceful stop loses no handler: when wait() returns, the context had been
\* started and force_stop() was not called, everything that was posted has run ("stop() lets the io_context
\* finish its queue").
GracefulStopDrains ==
  ( /\ \E c \in Clients : clientAt[c] = "waited"
    /\ \E w \in Workers : worker[w] = "done"
    /\ ~forced ) => ready = 0

\* force_stop() is the way out of a graceful stop that hangs (its comment: it
\* wakes workers that are stuck in run()): once it has been called, a wait() that
\* has begun returns.
EscalationFreesWaiter ==
  \A c \in Clients : forced /\ clientAt[c] = "joining" ~> clientAt[c] = "waited"

=============================================================================
