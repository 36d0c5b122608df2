------------------------- MODULE ServerMain_proofs -------------------------
(***************************************************************************)
(* Proofs about ServerMain, for any number of worker threads, with and     *)
(* without a client, and for both orders of the shutdown.                  *)
(***************************************************************************)
EXTENDS ServerMain, TLAPS

\* What main() and the handlers read of the pool has its type.
PoolTypes ==
  /\ worker \in [Workers -> {"none", "top", "run", "handler", "check", "done"}]
  /\ strand \in Seq(StrandHandlers)
  /\ runs \in [Workers -> StrandHandlers \cup FreeHandlers \cup {"none"}]
  /\ joining \in [{"main"} -> SUBSET Workers]
  /\ clientAt \in [{"main"} -> {"idle", "starting", "waiting", "joining", "waited"}]
  /\ mainAt \in {"ncStart", "serverStart", "worldStart", "cin", "serverStop", "worldStore",
                 "worldCancel", "worldPost", "ncStop", "ncWait", "done"}

\* A worker runs code of the server only inside a handler.
RunsInHandler == \A w \in Workers : runs[w] # "none" => worker[w] = "handler"

\* The statements of main() between nc.start() and the end of nc.wait(), which
\* depend on the order of the shutdown.
Up ==
  {"serverStart", "worldStart", "cin", "serverStop", "ncStop"}
    \cup (IF WorldFirst THEN {"worldStore", "worldCancel", "worldPost"} ELSE {})

\* All threads were created before main() went on, so what nc.wait() joins is
\* the whole pool, and when main() goes on after it every thread has ended.
MainOwnsPool ==
  /\ mainAt = "ncStart" => clientAt["main"] \in {"idle", "starting"}
  /\ mainAt \in Up => owned = Workers /\ clientAt["main"] = "idle"
  /\ mainAt = "ncWait" => \/ owned = Workers /\ clientAt["main"] \in {"idle", "waiting"}
                          \/ joining["main"] = Workers /\ clientAt["main"] = "joining"
  /\ mainAt \notin Up \cup {"ncStart", "ncWait"} =>
       clientAt["main"] = "waited" /\ \A w \in Workers : worker[w] = "done"

MainInv == PoolTypes /\ RunsInHandler /\ MainOwnsPool

\* main() begins with a pool that has no thread.
LEMMA MainInit == Init => MainInv
  BY DEF Init, NC!Init, MainInv, PoolTypes, RunsInHandler, MainOwnsPool, Up

\* A step that leaves main() where it is and moves at most a worker that is
\* alive keeps the invariant.
LEMMA WorkerMoves ==
  ASSUME MainInv, NEW w \in Workers,
         NEW at \in {"top", "run", "handler", "check", "done"},
         NEW a \in StrandHandlers \cup FreeHandlers \cup {"none"},
         worker[w] \in {"top", "run", "handler", "check"},
         a # "none" => at = "handler",
         worker' = [worker EXCEPT ![w] = at],
         runs' = [runs EXCEPT ![w] = a],
         strand' \in Seq(StrandHandlers),
         UNCHANGED <<owned, joining, clientAt, mainAt>>
  PROVE  MainInv'
PROOF
<1>1. PoolTypes'
  BY DEF MainInv, PoolTypes
<1>2. RunsInHandler'
  BY DEF MainInv, PoolTypes, RunsInHandler
<1>3. MainOwnsPool'
  BY DEF MainInv, PoolTypes, MainOwnsPool, Up
<1> QED BY <1>1, <1>2, <1>3 DEF MainInv

\* A step that touches neither main() nor the threads keeps the invariant.
LEMMA NothingMoves ==
  ASSUME MainInv, strand' \in Seq(StrandHandlers),
         UNCHANGED <<worker, runs, owned, joining, clientAt, mainAt>>
  PROVE  MainInv'
  BY DEF MainInv, PoolTypes, RunsInHandler, MainOwnsPool, Up

\* The end of an operation keeps the invariant.
LEMMA EndsKeep ==
  ASSUME MainInv, UNCHANGED <<runs, mainAt>>,
         \/ \E op \in Operations, h \in FreeHandlers : EndsWith(op, h)
         \/ \E h \in StrandHandlers : TimerEndsWith(h)
  PROVE  MainInv'
PROOF
<1>1. strand' \in Seq(StrandHandlers)
  BY DEF MainInv, PoolTypes, EndsWith, TimerEndsWith
<1> QED BY <1>1, NothingMoves DEF EndsWith, TimerEndsWith, NC!OpCompletes, NC!pool

\* Every step of a worker keeps the invariant.
LEMMA WorkerKeepsMainInv ==
  ASSUME MainInv, NEW w \in Workers, WorkerStep(w)
  PROVE  MainInv'
PROOF
<1> USE DEF NC!pool, NC!io, work
<1>0. runs = [runs EXCEPT ![w] = runs[w]] /\ strand \in Seq(StrandHandlers)
  BY DEF MainInv, PoolTypes
<1>1. CASE /\ UNCHANGED <<work, runs, passed, isOpen, worldState, mainAt>>
           /\ NC!WorkerTop(w) \/ NC!RunReturns(w) \/ NC!WorkerCheck(w)
  <2>1. worker[w] \in {"top", "run", "check"} /\ runs[w] = "none"
    BY <1>1 DEF NC!WorkerTop, NC!RunReturns, NC!WorkerCheck, MainInv, RunsInHandler
  <2>2. PICK at \in {"done", "run", "check", "top"} : worker' = [worker EXCEPT ![w] = at]
    BY <1>1 DEF NC!WorkerTop, NC!RunReturns, NC!WorkerCheck
  <2>3. UNCHANGED <<owned, joining, clientAt, mainAt>> /\ runs' = [runs EXCEPT ![w] = "none"]
    BY <1>0, <1>1, <2>1 DEF NC!WorkerTop, NC!RunReturns, NC!WorkerCheck
  <2> QED BY <1>0, <1>1, <2>1, <2>2, <2>3, WorkerMoves
<1>2. ASSUME (\E h \in FreeHandlers : RunFree(w, h)) \/ RunStrand(w)
      PROVE  MainInv'
  <2>1. /\ worker[w] = "run" /\ worker' = [worker EXCEPT ![w] = "handler"]
        /\ UNCHANGED <<owned, joining, clientAt, mainAt>>
    BY <1>2 DEF RunFree, RunStrand, NC!RunHandler
  <2>2. PICK h \in StrandHandlers \cup FreeHandlers : runs' = [runs EXCEPT ![w] = h]
    BY <1>0, <1>2 DEF RunFree, RunStrand
  <2>3. strand' \in Seq(StrandHandlers)
    BY <1>0, <1>2 DEF RunFree, RunStrand
  <2>4. h # "none"
    BY DEF StrandHandlers, FreeHandlers
  <2> QED BY <2>1, <2>2, <2>3, <2>4, WorkerMoves
<1>3. CASE HandlerReturns(w) \/ ReadReturns(w) \/ DoStopReturns(w)
  <2>1. /\ worker[w] = "handler" /\ worker' = [worker EXCEPT ![w] = "run"]
        /\ runs' = [runs EXCEPT ![w] = "none"]
        /\ UNCHANGED <<strand, owned, joining, clientAt, mainAt>>
    BY <1>3 DEF HandlerReturns, ReadReturns, DoStopReturns, NC!HandlerReturns, NC!HandlerEnds
  <2> QED BY <1>0, <2>1, WorkerMoves
<1>4. CASE DoStopCancels(w)
  BY <1>4, EndsKeep DEF DoStopCancels, StrandHandlers
<1>5. CASE DoStartExchange(w) \/ Check(w)
  BY <1>0, <1>5, NothingMoves DEF DoStartExchange, Check, ncVars
<1> QED BY <1>1, <1>2, <1>3, <1>4, <1>5 DEF WorkerStep

\* Every step of main() keeps the invariant.
LEMMA MainKeepsMainInv ==
  ASSUME MainInv, MainStep \/ EnterPressed
  PROVE  MainInv'
PROOF
<1> USE DEF MainInv, PoolTypes, RunsInHandler, MainOwnsPool, Up, Goes, NC!pool, work
<1>1. CASE NcStart
  <2>1. CASE Goes("ncStart", "ncStart") /\ NC!StartBegin("main")
    BY <1>1, <2>1 DEF NcStart, NC!StartBegin
  <2>2. ASSUME NEW w \in Workers, Goes("ncStart", "ncStart"), NC!SpawnWorker("main", w)
        PROVE  MainInv'
    BY <1>1, <2>2 DEF NcStart, NC!SpawnWorker
  <2>3. CASE Goes("ncStart", "serverStart") /\ NC!StartEnd("main")
    BY <1>1, <2>3 DEF NcStart, NC!StartEnd
  <2> QED BY <1>1, <2>1, <2>2, <2>3 DEF NcStart
<1>2. CASE ServerStart
  BY <1>2 DEF ServerStart, NC!StartOp
<1>3. CASE WorldStart
  BY <1>3 DEF WorldStart, NC!Post, StrandHandlers
<1>4. CASE EnterPressed
  BY <1>4 DEF EnterPressed, ncVars
<1>5. CASE ServerStop
  BY <1>5 DEF ServerStop, EndsWith, NC!OpCompletes, ncVars
<1>6. CASE WorldStore
  BY <1>6 DEF WorldStore, ncVars
<1>7. CASE WorldCancel
  <2>1. strand' \in Seq(StrandHandlers)
    BY <1>7 DEF WorldCancel, TimerEndsWith, StrandHandlers
  <2>2. UNCHANGED <<worker, runs, owned, joining, clientAt>>
    BY <1>7 DEF WorldCancel, TimerEndsWith, NC!OpCompletes, ncVars
  <2>3. mainAt = "worldCancel" /\ mainAt' = "worldPost"
    BY <1>7 DEF WorldCancel
  <2> QED BY <2>1, <2>2, <2>3
<1>8. CASE WorldPost
  <2>1. strand' \in Seq(StrandHandlers)
    <3>1. strand \in Seq(StrandHandlers) /\ "doStop" \in StrandHandlers
      BY DEF StrandHandlers
    <3>2. strand' = Append(strand, "doStop") \/ strand' = strand
      BY <1>8 DEF WorldPost
    <3> QED BY <3>1, <3>2
  <2>2. UNCHANGED <<worker, runs, owned, joining, clientAt>>
    BY <1>8 DEF WorldPost, NC!Post, ncVars
  <2>3. mainAt = "worldPost" /\ mainAt' = IF WorldFirst THEN "ncStop" ELSE "done"
    BY <1>8 DEF WorldPost
  <2> QED BY <2>1, <2>2, <2>3
<1>9. CASE NcStop
  BY <1>9 DEF NcStop, NC!Stop
<1>10. CASE NcWait
  <2>1. CASE Goes("ncWait", "ncWait") /\ NC!WaitBegin("main")
    BY <1>10, <2>1 DEF NcWait, NC!WaitBegin
  <2>2. CASE Goes("ncWait", "ncWait") /\ NC!JoinBegin("main")
    BY <1>10, <2>2 DEF NcWait, NC!JoinBegin
  <2>3. CASE Goes("ncWait", IF WorldFirst THEN "done" ELSE "worldStore") /\ NC!JoinEnd("main")
    BY <1>10, <2>3 DEF NcWait, NC!JoinEnd, NC!AllDone
  <2> QED BY <1>10, <2>1, <2>2, <2>3 DEF NcWait
<1> QED BY <1>1, <1>2, <1>3, <1>4, <1>5, <1>6, <1>7, <1>8, <1>9, <1>10 DEF MainStep

\* Every step of the server keeps the invariant.
LEMMA MainNext == MainInv /\ [Next]_vars => MainInv'
PROOF
<1> SUFFICES ASSUME MainInv, [Next]_vars
             PROVE  MainInv'
  OBVIOUS
<1>1. CASE Network \/ AcceptOnClosed \/ TimerFires
  BY <1>1, EndsKeep DEF Network, AcceptOnClosed, TimerFires, Operations, FreeHandlers, StrandHandlers
<1>2. CASE UNCHANGED vars
  <2>1. strand' \in Seq(StrandHandlers)
    BY <1>2 DEF vars, work, MainInv, PoolTypes
  <2> QED BY <1>2, <2>1, NothingMoves DEF vars, ncVars
<1> QED BY <1>1, <1>2, MainKeepsMainInv, WorkerKeepsMainInv DEF Next

\* When main() destroys the world, the server and the bus, no worker is inside
\* one of their handlers, and none will enter one.
THEOREM MainCorrect == Spec => []NothingRunsAfterMain
PROOF
<1>1. MainInv => NothingRunsAfterMain
  BY DEF MainInv, RunsInHandler, MainOwnsPool, Up, NothingRunsAfterMain
<1> QED BY <1>1, MainInit, MainNext, PTL DEF Spec

=============================================================================
