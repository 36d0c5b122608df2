----------------------- MODULE NetworkContext_proofs -----------------------
(***************************************************************************)
(* Proofs about NetworkContext, for any number of workers, clients,        *)
(* handlers and operations.                                                *)
(***************************************************************************)
EXTENDS NetworkContext, TLAPS

\* A context that was just constructed satisfies the type invariant.
LEMMA TypeInit == Init => TypeOK
PROOF
<1> SUFFICES ASSUME Init
             PROVE  TypeOK
  OBVIOUS
<1>1. ops \in 0 .. MaxOps /\ posts \in 0 .. MaxPosts /\ ready \in Nat
  BY NetworkContextAssumption DEF Init
<1> QED BY <1>1 DEF Init, TypeOK

\* A handler that ends, with or without an exception, keeps the type invariant.
LEMMA HandlerEndsType ==
  ASSUME TypeOK, NEW w \in Workers, NEW k \in Nat, ops + k <= MaxOps,
         NEW next \in {"run", "check"}, HandlerEnds(w, k, next)
  PROVE  TypeOK'
PROOF
<1>1. ops' \in 0 .. MaxOps
  BY NetworkContextAssumption DEF TypeOK, HandlerEnds
<1>2. ioStopped' \in BOOLEAN
  BY Zenon DEF HandlerEnds
<1>3. worker' \in [Workers -> {"none", "top", "run", "handler", "check", "done"}]
  BY DEF TypeOK, HandlerEnds
<1> QED BY <1>1, <1>2, <1>3 DEF TypeOK, HandlerEnds, pool

\* Every step keeps the type invariant.
LEMMA TypeNext == TypeOK /\ [Next]_vars => TypeOK'
PROOF
<1> SUFFICES ASSUME TypeOK, [Next]_vars
             PROVE  TypeOK'
  OBVIOUS
<1> USE DEF TypeOK, pool, io
<1>1. ASSUME NEW c \in Clients, StartBegin(c) \/ StartEnd(c) \/ StartThrows(c)
      PROVE  TypeOK'
  BY <1>1 DEF StartBegin, StartEnd, StartThrows
<1>2. ASSUME NEW c \in Clients, NEW w \in Workers, SpawnWorker(c, w)
      PROVE  TypeOK'
  BY <1>2 DEF SpawnWorker
<1>3. ASSUME NEW c \in Clients, StartFails(c)
      PROVE  TypeOK'
  BY <1>3 DEF StartFails
<1>4. ASSUME NEW c \in Clients, WaitBegin(c) \/ WaitFatal(c)
      PROVE  TypeOK'
  BY <1>4 DEF WaitBegin, WaitFatal
<1>5. ASSUME NEW c \in Clients, Destroy(c)
      PROVE  TypeOK'
  BY <1>5 DEF Destroy
<1>6. ASSUME NEW c \in Clients, JoinBegin(c) \/ JoinEnd(c) \/ JoinSkip(c)
      PROVE  TypeOK'
  BY <1>6 DEF JoinBegin, JoinEnd, JoinSkip
<1>7. CASE Stop
  <2>1. ioStopped' \in BOOLEAN
    BY <1>7, Zenon DEF Stop
  <2> QED BY <1>7, <2>1 DEF Stop
<1>8. CASE ForceStop \/ ForceStopIgnored
  BY <1>8 DEF ForceStop, ForceStopIgnored
<1>9. CASE Post \/ StartOp \/ OpCompletes
  BY <1>9, NetworkContextAssumption DEF Post, StartOp, OpCompletes
<1>10. ASSUME NEW w \in Workers, WorkerStep(w)
       PROVE  TypeOK'
  <2>1. CASE WorkerTop(w) \/ RunReturns(w) \/ WorkerCheck(w)
    BY <2>1 DEF WorkerTop, RunReturns, WorkerCheck
  <2>2. CASE RunHandler(w)
    BY <2>2 DEF RunHandler
  <2>3. ASSUME NEW k \in 0 .. MaxOps, ops + ready + k <= MaxOps, HandlerReturns(w, k)
        PROVE  TypeOK'
    <3>1. k \in Nat /\ ops + k <= MaxOps
      BY <2>3, NetworkContextAssumption
    <3> QED BY <2>3, <3>1, HandlerEndsType DEF HandlerReturns
  <2>4. CASE HandlerThrows(w)
    <3>1. ops + 0 <= MaxOps
      BY NetworkContextAssumption
    <3> QED BY <2>4, <3>1, HandlerEndsType DEF HandlerThrows
  <2> QED BY <1>10, <2>1, <2>2, <2>3, <2>4 DEF WorkerStep
<1>11. CASE UNCHANGED vars
  BY <1>11 DEF vars
<1> QED BY <1>1, <1>2, <1>3, <1>4, <1>5, <1>6, <1>7, <1>8, <1>9, <1>10, <1>11 DEF Next, ClientStep

\* The type invariant of the context.
THEOREM TypeCorrect == Spec => []TypeOK
  BY TypeInit, TypeNext, PTL DEF Spec

-----------------------------------------------------------------------------
(* The inductive invariant *)

\* mutex_ is held across actions only by the client inside start(), and only
\* while the context is Started and nobody joins.
LockInv ==
  /\ \A c \in Clients : clientAt[c] = "starting" <=> lock = c
  /\ lock # "free" => state = "Started"

\* A thread that has not ended is one somebody will join: it is in
\* worker_threads_, or a join_workers() or a start() that failed has taken it.
NoOrphan ==
  \A w \in Workers :
    worker[w] \in {"none", "done"} \/ w \in owned \/ \E c \in Clients : w \in joining[c]

\* Only the client that joins holds threads.
JoinersHold ==
  \A c \in Clients : joining[c] # {} => clientAt[c] \in {"joining", "unwinding"}

\* join_flag_: at most one client is inside the call_once(), nobody has returned
\* before it was through, and from the moment it began the context is Joined
\* and worker_threads_ empty.
OnceInv ==
  /\ joinOnce = "no" <=> state # "Joined"
  /\ joinOnce # "no" => owned = {}
  /\ \A c \in Clients : clientAt[c] = "joining" => joinOnce = "running"
  /\ \A c, d \in Clients : clientAt[c] = "joining" /\ clientAt[d] = "joining" => c = d
  /\ \A c \in Clients : clientAt[c] = "waited" => joinOnce = "done"

JoinInv == TypeOK /\ LockInv /\ NoOrphan /\ JoinersHold /\ OnceInv

\* A context that was just constructed has no threads.
LEMMA JoinInit == Init => JoinInv
PROOF
<1> SUFFICES ASSUME Init
             PROVE  JoinInv
  OBVIOUS
<1>1. TypeOK
  BY TypeInit
<1>2. LockInv
  BY NetworkContextAssumption DEF Init, LockInv
<1>3. NoOrphan /\ JoinersHold /\ OnceInv
  BY DEF Init, NoOrphan, JoinersHold, OnceInv
<1> QED BY <1>1, <1>2, <1>3 DEF JoinInv

\* The steps of the io_context and its users leave the life cycle alone.
LEMMA IoKeepsJoinInv ==
  ASSUME JoinInv, TypeOK',
         UNCHANGED <<state, lock, owned, joining, clientAt, joinOnce>>,
         \A w \in Workers : worker'[w] # worker[w] => w \in owned \/ \E c \in Clients : w \in joining[c]
  PROVE  JoinInv'
  BY DEF JoinInv, LockInv, NoOrphan, JoinersHold, OnceInv

\* A worker moves only from a state in which somebody will join it.
LEMMA WorkerKeepsJoinInv ==
  ASSUME JoinInv, TypeOK', NEW w \in Workers, WorkerStep(w)
  PROVE  JoinInv'
PROOF
<1>1. worker[w] \notin {"none", "done"}
  BY DEF WorkerStep, WorkerTop, RunHandler, RunReturns, WorkerCheck, HandlerReturns, HandlerThrows, HandlerEnds
<1>2. w \in owned \/ \E c \in Clients : w \in joining[c]
  BY <1>1 DEF JoinInv, NoOrphan
<1>3. \E next : worker' = [worker EXCEPT ![w] = next]
  BY DEF WorkerStep, WorkerTop, RunHandler, RunReturns, WorkerCheck, HandlerReturns, HandlerThrows, HandlerEnds
<1>4. \A v \in Workers : worker'[v] # worker[v] => v = w
  BY <1>3 DEF JoinInv, TypeOK
<1>5. UNCHANGED <<state, lock, owned, joining, clientAt, joinOnce>>
  BY DEF WorkerStep, WorkerTop, RunHandler, RunReturns, WorkerCheck, HandlerReturns, HandlerThrows, HandlerEnds, pool
<1> QED BY <1>2, <1>4, <1>5, IoKeepsJoinInv

\* Every step keeps the invariant.
LEMMA JoinNext == JoinInv /\ [Next]_vars => JoinInv'
PROOF
<1> SUFFICES ASSUME JoinInv, [Next]_vars
             PROVE  JoinInv'
  OBVIOUS
<1>0. TypeOK'
  BY TypeNext DEF JoinInv
<1> USE DEF JoinInv, TypeOK, LockInv, NoOrphan, JoinersHold, OnceInv
<1>1. ASSUME NEW c \in Clients, StartBegin(c)
      PROVE  JoinInv'
  BY <1>0, <1>1, NetworkContextAssumption DEF StartBegin
<1>2. ASSUME NEW c \in Clients, NEW w \in Workers, SpawnWorker(c, w)
      PROVE  JoinInv'
  BY <1>0, <1>2, NetworkContextAssumption DEF SpawnWorker
<1>3. ASSUME NEW c \in Clients, StartEnd(c)
      PROVE  JoinInv'
  BY <1>0, <1>3, NetworkContextAssumption DEF StartEnd
<1>4. ASSUME NEW c \in Clients, StartFails(c)
      PROVE  JoinInv'
  BY <1>0, <1>4, NetworkContextAssumption DEF StartFails
<1>5. ASSUME NEW c \in Clients, StartThrows(c)
      PROVE  JoinInv'
  BY <1>0, <1>5 DEF StartThrows, AllDone, pool
<1>6. ASSUME NEW c \in Clients, WaitBegin(c) \/ WaitFatal(c)
      PROVE  JoinInv'
  BY <1>0, <1>6 DEF WaitBegin, WaitFatal, pool
<1>7. ASSUME NEW c \in Clients, Destroy(c)
      PROVE  JoinInv'
  BY <1>0, <1>7 DEF Destroy
<1>8. ASSUME NEW c \in Clients, JoinBegin(c)
      PROVE  JoinInv'
  BY <1>0, <1>8 DEF JoinBegin
<1>9. ASSUME NEW c \in Clients, JoinEnd(c)
      PROVE  JoinInv'
  BY <1>0, <1>9 DEF JoinEnd, AllDone, pool
<1>10. ASSUME NEW c \in Clients, JoinSkip(c)
       PROVE  JoinInv'
  BY <1>0, <1>10 DEF JoinSkip, pool
<1>11. CASE Stop \/ ForceStop \/ ForceStopIgnored
  BY <1>0, <1>11 DEF Stop, ForceStop, ForceStopIgnored, pool
<1>12. CASE Post \/ StartOp \/ OpCompletes \/ UNCHANGED vars
  BY <1>0, <1>12, IoKeepsJoinInv DEF Post, StartOp, OpCompletes, vars, pool
<1>13. ASSUME NEW w \in Workers, WorkerStep(w)
       PROVE  JoinInv'
  BY <1>0, <1>13, WorkerKeepsJoinInv
<1> QED BY <1>1, <1>2, <1>3, <1>4, <1>5, <1>6, <1>7, <1>8, <1>9, <1>10, <1>11, <1>12, <1>13
        DEF Next, ClientStep

\* Every thread has somebody to join it, and only one client is inside
\* join_workers(): the inductive invariant of the life cycle.
THEOREM JoinCorrect == Spec => []JoinInv
  BY JoinInit, JoinNext, PTL DEF Spec

\* Once a wait() has returned every thread of the pool has ended, also for the
\* callers that found another one joining, whatever was started, stopped and
\* posted before.
THEOREM WaitCorrect == Spec => []WaitMeansDone
PROOF
<1>1. JoinInv => WaitMeansDone
  BY DEF JoinInv, TypeOK, NoOrphan, JoinersHold, OnceInv, WaitMeansDone, RollingBack
<1> QED BY <1>1, JoinCorrect, PTL

\* No race of start(), stop(), force_stop(), wait() and the destructor brings
\* an earlier state of the context back.
THEOREM LifeCycleCorrect == Spec => OneWayLifeCycle
PROOF
<1>1. ASSUME JoinInv, [Next]_vars
      PROVE  [Rank[state'] >= Rank[state]]_vars
  <2> USE <1>1 DEF Rank, JoinInv, TypeOK, LockInv
  <2>1. ASSUME NEW c \in Clients, StartBegin(c) \/ StartFails(c) \/ JoinBegin(c) \/ Destroy(c)
        PROVE  Rank[state'] >= Rank[state]
    BY <2>1, NetworkContextAssumption DEF StartBegin, StartFails, JoinBegin, Destroy
  <2>2. ASSUME Stop \/ ForceStop
        PROVE  Rank[state'] >= Rank[state]
    <3>1. state \in {"Started", "Stopped"} /\ state' = "Stopped"
      BY <2>2, Zenon DEF Stop, ForceStop
    <3> QED BY <3>1
  <2>3. ASSUME state' = state
        PROVE  Rank[state'] >= Rank[state]
    BY <2>3
  <2>4. ASSUME NEW c \in Clients,
               \/ \E w \in Workers : SpawnWorker(c, w)
               \/ StartEnd(c) \/ StartThrows(c) \/ WaitBegin(c) \/ WaitFatal(c)
               \/ JoinEnd(c) \/ JoinSkip(c)
        PROVE  state' = state
    BY <2>4, Zenon DEF SpawnWorker, StartEnd, StartThrows, WaitBegin, WaitFatal, JoinEnd, JoinSkip, pool
  <2>5. ASSUME NEW w \in Workers, WorkerStep(w)
        PROVE  state' = state
    BY <2>5, Zenon DEF WorkerStep, WorkerTop, RunHandler, RunReturns, WorkerCheck, HandlerReturns,
       HandlerThrows, HandlerEnds, pool
  <2>6. CASE ForceStopIgnored \/ Post \/ StartOp \/ OpCompletes \/ UNCHANGED vars
    BY <2>6, <2>3, Zenon DEF ForceStopIgnored, Post, StartOp, OpCompletes, vars, pool
  <2> QED BY <2>1, <2>2, <2>3, <2>4, <2>5, <2>6 DEF Next, ClientStep
<1> QED BY <1>1, JoinCorrect, PTL DEF Spec, OneWayLifeCycle

=============================================================================
