----------------------------- MODULE ServerMain -----------------------------
(***************************************************************************)
(* The server process (src/src/server/main.cpp): main() starts the network *)
(* context, the acceptor and the world, waits for Enter and shuts down.    *)
(*                                                                         *)
(* NetworkContext is instantiated with its counters of ready handlers and  *)
(* pending operations computed from what the server has in flight: the     *)
(* async_accept, the tick timer, the read of a client and the handlers on  *)
(* the world's strand.                                                     *)
(***************************************************************************)
EXTENDS Naturals, Sequences, FiniteSets

CONSTANTS Workers,        \* worker threads
          ClientMayCome,  \* TRUE: clients may connect (and stay), one at a time
          WorldFirst      \* FALSE: the order of main(); TRUE: the order that
                          \* world_instance.h asks for, world->stop() first

ASSUME ServerMainAssumption == ClientMayCome \in BOOLEAN /\ WorldFirst \in BOOLEAN

Operations == {"accept", "timer", "read"}

\* Handlers on tick_strand_ and the others; an accept brings a socket or an error.
StrandHandlers == {"doStart", "tick", "aborted", "doStop"}
FreeHandlers == {"accept", "acceptFailed", "read"}

VARIABLES state, lock, guard, ioStopped, posts, worker, ran, stopReq, owned, joining,
          clientAt, joinOnce, forced, aborted,  \* NetworkContext
          pending,     \* operations under way
          queued,      \* handlers ready to run that are on no strand
          strand,      \* handlers on the world's strand
          runs,        \* what each worker runs
          passed,      \* workers whose handler has found that it is to go on
          isOpen,      \* acceptor_.is_open()
          worldState,  \* WorldInstance::state_
          mainAt       \* where main() is

ready == Cardinality(queued) + Len(strand)

ops == Cardinality(pending)

NC == INSTANCE NetworkContext
        WITH Clients <- {"main"}, MaxPosts <- 2, MaxOps <- Cardinality(Operations),
             HandlersThrow <- FALSE, ThreadsFail <- FALSE

ncVars == <<state, lock, guard, ioStopped, posts, worker, ran, stopReq, owned, joining,
            clientAt, joinOnce, forced, aborted>>
work   == <<pending, queued, strand>>
vars   == <<ncVars, work, runs, passed, isOpen, worldState, mainAt>>

Init ==
  /\ pending = {} /\ queued = {} /\ strand = << >>
  /\ NC!Init
  /\ runs = [w \in Workers |-> "none"] /\ passed = {}
  /\ isOpen = TRUE /\ worldState = "Stopped"
  /\ mainAt = "ncStart"

\* main() goes from one statement to the next.
Goes(from, to) == mainAt = from /\ mainAt' = to /\ UNCHANGED <<runs, passed>>

\* A pending operation ends with a handler that is on no strand.
EndsWith(op, handler) ==
  /\ op \in pending
  /\ pending' = pending \ {op} /\ queued' = queued \cup {handler}
  /\ UNCHANGED strand
  /\ NC!OpCompletes

\* The wait of tick_timer_ ends with a call of doTick() on the strand.
TimerEndsWith(handler) ==
  /\ "timer" \in pending
  /\ pending' = pending \ {"timer"} /\ strand' = Append(strand, handler)
  /\ UNCHANGED queued
  /\ NC!OpCompletes

-----------------------------------------------------------------------------
(* main() *)

\* nc.start()
NcStart ==
  /\ UNCHANGED <<work, isOpen, worldState>>
  /\ \/ Goes("ncStart", "ncStart") /\ NC!StartBegin("main")
     \/ Goes("ncStart", "ncStart") /\ \E w \in Workers : NC!SpawnWorker("main", w)
     \/ Goes("ncStart", "serverStart") /\ NC!StartEnd("main")

\* server->start(): async_accept().
ServerStart ==
  /\ Goes("serverStart", "worldStart")
  /\ pending' = pending \cup {"accept"}
  /\ UNCHANGED <<queued, strand, isOpen, worldState>>
  /\ NC!StartOp

\* world->start(): doStart() is posted.
WorldStart ==
  /\ Goes("worldStart", "cin")
  /\ strand' = Append(strand, "doStart")
  /\ UNCHANGED <<pending, queued, isOpen, worldState>>
  /\ NC!Post

\* std::cin.get() returns: a key was pressed, or the input is at its end.
EnterPressed ==
  /\ Goes("cin", "serverStop")
  /\ UNCHANGED <<ncVars, work, isOpen, worldState>>

\* server->stop(): the acceptor is closed and a pending accept is aborted; the
\* sessions are not touched.
ServerStop ==
  /\ Goes("serverStop", IF WorldFirst THEN "worldStore" ELSE "ncStop")
  /\ isOpen' = FALSE
  /\ \/ EndsWith("accept", "acceptFailed")
     \/ "accept" \notin pending /\ UNCHANGED <<ncVars, work>>
  /\ UNCHANGED worldState

\* Mutant: the state stays Running.
WorldStoreNothing ==
  /\ Goes("worldStore", "worldCancel")
  /\ UNCHANGED <<ncVars, work, isOpen, worldState>>

\* world->stop(), on the thread of main(): the state is stored, ...
WorldStore ==
  /\ Goes("worldStore", "worldCancel")
  /\ worldState' = "Stopped"
  /\ UNCHANGED <<ncVars, work, isOpen>>

\* ... the timer is cancelled ...
WorldCancel ==
  /\ Goes("worldCancel", "worldPost")
  /\ \/ TimerEndsWith("aborted")
     \/ "timer" \notin pending /\ UNCHANGED <<ncVars, work>>
  /\ UNCHANGED <<isOpen, worldState>>

\* ... and doStop() is posted; after nc.wait() nobody would run it.
WorldPost ==
  /\ Goes("worldPost", IF WorldFirst THEN "ncStop" ELSE "done")
  /\ UNCHANGED <<pending, queued, isOpen, worldState>>
  /\ IF WorldFirst
       THEN strand' = Append(strand, "doStop") /\ NC!Post
       ELSE UNCHANGED <<ncVars, strand>>

\* nc.stop()
NcStop ==
  /\ Goes("ncStop", "ncWait")
  /\ UNCHANGED <<work, isOpen, worldState>>
  /\ NC!Stop

\* Mutant: main() does not wait for the workers.
NcWaitNot ==
  /\ Goes("ncWait", IF WorldFirst THEN "done" ELSE "worldStore")
  /\ UNCHANGED <<ncVars, work, isOpen, worldState>>

\* nc.wait()
NcWait ==
  /\ UNCHANGED <<work, isOpen, worldState>>
  /\ \/ Goes("ncWait", "ncWait") /\ (NC!WaitBegin("main") \/ NC!JoinBegin("main"))
     \/ Goes("ncWait", IF WorldFirst THEN "done" ELSE "worldStore") /\ NC!JoinEnd("main")

MainStep ==
  \/ NcStart \/ ServerStart \/ WorldStart
  \/ ServerStop \/ WorldStore \/ WorldCancel \/ WorldPost \/ NcStop \/ NcWait

-----------------------------------------------------------------------------
(* The outside *)

\* No session reads or handles what it read.
NoClient == "read" \notin pending \cup queued /\ \A w \in Workers : runs[w] # "read"

\* A client connects, one that wanted to is gone again, or a client sends or leaves.
Network ==
  /\ \/ isOpen /\ ClientMayCome /\ NoClient /\ EndsWith("accept", "accept")
     \/ isOpen /\ ClientMayCome /\ EndsWith("accept", "acceptFailed")
     \/ EndsWith("read", "read")
  /\ UNCHANGED <<runs, passed, isOpen, worldState, mainAt>>

\* async_accept() on an acceptor that was closed after is_open() fails at once.
AcceptOnClosed ==
  /\ ~isOpen /\ EndsWith("accept", "acceptFailed")
  /\ UNCHANGED <<runs, passed, isOpen, worldState, mainAt>>

TimerFires ==
  /\ TimerEndsWith("tick")
  /\ UNCHANGED <<runs, passed, isOpen, worldState, mainAt>>

-----------------------------------------------------------------------------
(* Workers *)

RunFree(w, h) ==
  /\ h \in queued /\ queued' = queued \ {h}
  /\ runs' = [runs EXCEPT ![w] = h]
  /\ UNCHANGED <<pending, strand, passed, isOpen, worldState, mainAt>>
  /\ NC!RunHandler(w)

\* tick_strand_ runs one handler at a time, in order.
RunStrand(w) ==
  /\ strand # << >> /\ \A v \in Workers : runs[v] \notin StrandHandlers
  /\ strand' = Tail(strand)
  /\ runs' = [runs EXCEPT ![w] = Head(strand)]
  /\ UNCHANGED <<pending, queued, passed, isOpen, worldState, mainAt>>
  /\ NC!RunHandler(w)

\* doStart(): Stopped becomes Running, also when a stop() came before it.
DoStartExchange(w) ==
  /\ runs[w] = "doStart" /\ worldState = "Stopped" /\ w \notin passed
  /\ worldState' = "Running" /\ passed' = passed \cup {w}
  /\ UNCHANGED <<ncVars, work, runs, isOpen, mainAt>>

\* doTick() and scheduleNextTick() ask for the state, the accept handler asks
\* is_open() after it has started the session of a new client.
MayGoOn(h) ==
  \/ h = "tick" /\ worldState = "Running"
  \/ h \in {"accept", "acceptFailed"} /\ isOpen

Check(w) ==
  /\ w \notin passed /\ MayGoOn(runs[w])
  /\ passed' = passed \cup {w}
  /\ UNCHANGED <<ncVars, work, runs, isOpen, worldState, mainAt>>

\* What the handler of worker w has started when it ends: if it went on, the wait
\* for the next tick or the next accept; whatever the acceptor, the reads of a client
\* that was accepted.
StartedBy(w) ==
  (IF w \in passed THEN {IF runs[w] \in StrandHandlers THEN "timer" ELSE "accept"} ELSE {})
    \cup (IF runs[w] = "accept" THEN {"read"} ELSE {})

\* The handler of an accept, doStart() or doTick() ends.
HandlerReturns(w) ==
  /\ runs[w] \in {"accept", "acceptFailed", "doStart", "tick", "aborted"}
  /\ w \in passed \/ (runs[w] # "doStart" /\ ~MayGoOn(runs[w]))
  /\ pending' = pending \cup StartedBy(w)
  /\ runs' = [runs EXCEPT ![w] = "none"] /\ passed' = passed \ {w}
  /\ UNCHANGED <<queued, strand, isOpen, worldState, mainAt>>
  /\ NC!HandlerReturns(w, Cardinality(StartedBy(w)))

\* The read handler: read again, or close the session.
ReadReturns(w) ==
  /\ runs[w] = "read"
  /\ runs' = [runs EXCEPT ![w] = "none"]
  /\ UNCHANGED <<queued, strand, passed, isOpen, worldState, mainAt>>
  /\ \E again \in {{"read"}, {}} :
       pending' = pending \cup again /\ NC!HandlerReturns(w, Cardinality(again))

\* doStop() cancels the timer once more and leaves the state alone.
DoStopCancels(w) ==
  /\ runs[w] = "doStop" /\ TimerEndsWith("aborted")
  /\ UNCHANGED <<runs, passed, isOpen, worldState, mainAt>>

DoStopReturns(w) ==
  /\ runs[w] = "doStop" /\ "timer" \notin pending
  /\ runs' = [runs EXCEPT ![w] = "none"]
  /\ UNCHANGED <<work, passed, isOpen, worldState, mainAt>>
  /\ NC!HandlerReturns(w, 0)

WorkerStep(w) ==
  \/ /\ UNCHANGED <<work, runs, passed, isOpen, worldState, mainAt>>
     /\ NC!WorkerTop(w) \/ NC!RunReturns(w) \/ NC!WorkerCheck(w)
  \/ \E h \in FreeHandlers : RunFree(w, h)
  \/ RunStrand(w) \/ DoStartExchange(w) \/ Check(w)
  \/ HandlerReturns(w) \/ ReadReturns(w) \/ DoStopCancels(w) \/ DoStopReturns(w)

Next ==
  \/ MainStep \/ EnterPressed
  \/ Network \/ AcceptOnClosed \/ TimerFires
  \/ \E w \in Workers : WorkerStep(w)

Spec == Init /\ [][Next]_vars

\* Threads run, the timer fires and a hopeless accept fails; nobody has to press
\* Enter or to connect.
FairSpec ==
  /\ Spec
  /\ WF_vars(MainStep) /\ WF_vars(TimerFires) /\ WF_vars(AcceptOnClosed)
  /\ \A w \in Workers : WF_vars(WorkerStep(w))

-----------------------------------------------------------------------------
(* Properties *)

\* If doStart() has run when Enter is pressed, and the clients leave, main() comes
\* to its end: nc.wait() returns, because nothing keeps the workers in run() any
\* more (the note on the class in world_instance.h).
ShutdownCompletes ==
  <>[]NoClient => (mainAt = "serverStop" /\ worldState = "Running" ~> mainAt = "done")

\* When main() destroys the world, the server and the bus, no worker is inside
\* one of their handlers.
NothingRunsAfterMain ==
  mainAt = "done" => \A w \in Workers : runs[w] = "none" /\ worker[w] = "done"

\* The comment of WorldInstance::stop(): it stops the chain of ticks "immediately and
\* deterministically", so that the timer is not armed again and wait() does not hang.
\* The code does not keep this: a doStart() that was posted before stop() and runs
\* after it makes the world Running again, and a timer that fires before doStop()
\* ticks on.
EarlyShutdownCompletes ==
  <>[]NoClient => (mainAt = "serverStop" ~> mainAt = "done")

=============================================================================
