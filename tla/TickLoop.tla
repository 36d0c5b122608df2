------------------------------ MODULE TickLoop ------------------------------
(***************************************************************************)
(* The life cycle of the game loop of WorldInstance                        *)
(* (src/src/server/world_instance.cpp): start(), stop(), the handlers that *)
(* run on tick_strand_, the tick timer and the action queue.               *)
(*                                                                         *)
(* Threads that call start(), stop() and enqueueAction() run beside the    *)
(* strand: state_ is an atomic and stop() writes it, and cancels the       *)
(* timer, on the calling thread.  So every read or write of state_ and of  *)
(* the timer is a step of its own.  The strand runs one handler at a time, *)
(* in the order they were posted.  What a tick computes is module World.   *)
(***************************************************************************)
EXTENDS Naturals, Sequences, FiniteSets

CONSTANTS Callers,       \* threads that use the public interface
          MaxCalls,      \* bound: calls of start() and stop()
          MaxQueue,      \* bound: actions waiting in action_queue_
          TickModulus,   \* current_tick_ is counted modulo this (code: 2^64)
          TimerMayFail   \* whether timer operations may report errors

ASSUME TickLoopAssumption ==
  /\ MaxCalls \in Nat /\ MaxQueue \in Nat /\ TickModulus \in Nat \ {0}
  /\ TimerMayFail \in BOOLEAN

Handlers == {"doStart", "doStop", "tickOk", "tickAborted", "tickError"}

VARIABLES state,        \* state_
          armed,        \* an async_wait is pending on tick_timer_
          strand,       \* handlers queued on tick_strand_, oldest first
          at,           \* where the handler now running on the strand is
          callerAt,     \* where each caller is inside stop()
          calls,        \* calls made so far
          lastCall,     \* the call that began last
          actionQueue,  \* action_queue_: each action is the epoch it came in
          epoch,        \* successful doStart()s so far
          tick,         \* current_tick_
          bodyOk,       \* the tick body now counted ran to its end
          lateTicks,    \* ticks run since state_ last left Running
          orderly       \* so far no stop() began before a start() had taken effect,
                        \* no start() before a stop() had, and no timer failed

vars == <<state, armed, strand, at, callerAt, calls, lastCall, actionQueue,
          epoch, tick, bodyOk, lateTicks, orderly>>

StrandIdle == at = "idle"

\* A handler is taken off the strand's queue.
Pop(h) == StrandIdle /\ strand # << >> /\ Head(strand) = h

\* cancel() on the timer: the pending wait, if any, completes with
\* operation_aborted.  q is the strand's queue before.
CancelInto(q) ==
  /\ armed' = FALSE
  /\ strand' = IF armed THEN Append(q, "tickAborted") ELSE q

\* Mutant: the timer is left alone.
CancelNothing(q) == strand' = q /\ UNCHANGED armed

\* expires_after() / expires_at() cancel the pending wait, then async_wait().
ArmTimer ==
  /\ armed' = TRUE
  /\ strand' = IF armed THEN Append(strand, "tickAborted") ELSE strand

\* Mutant: the shutdown forgets the timer.
ShutdownNoCancel(q) ==
  /\ CancelNothing(q)
  /\ actionQueue' = << >>

\* shutdownTickLoop(): cancel the timer and drain the action queue.
ShutdownTickLoop(q) ==
  /\ CancelInto(q)
  /\ actionQueue' = << >>

Init ==
  /\ state = "Stopped" /\ armed = FALSE
  /\ strand = << >> /\ at = "idle"
  /\ callerAt = [c \in Callers |-> "idle"]
  /\ calls = 0 /\ lastCall = "none"
  /\ actionQueue = << >> /\ epoch = 0
  /\ tick = 0 /\ bodyOk = TRUE /\ lateTicks = 0 /\ orderly = TRUE

-----------------------------------------------------------------------------
(* Callers *)

StartUnderWay == at = "startArm" \/ \E k \in DOMAIN strand : strand[k] = "doStart"

StopUnderWay == \/ \E c \in Callers : callerAt[c] # "idle"
                \/ \E k \in DOMAIN strand : strand[k] = "doStop"

\* start(): post doStart().
Start(c) ==
  /\ callerAt[c] = "idle" /\ calls < MaxCalls
  /\ calls' = calls + 1 /\ lastCall' = "start"
  /\ strand' = Append(strand, "doStart")
  /\ orderly' = (orderly /\ ~StopUnderWay)
  /\ UNCHANGED <<state, armed, at, callerAt, actionQueue, epoch, tick, bodyOk, lateTicks>>

\* Mutant: stop() leaves the state to the strand, where doStop() does not set it.
StopStoreNothing(c) ==
  /\ callerAt[c] = "idle" /\ calls < MaxCalls
  /\ calls' = calls + 1 /\ lastCall' = "stop"
  /\ callerAt' = [callerAt EXCEPT ![c] = "cancel"]
  /\ orderly' = (orderly /\ ~StartUnderWay)
  /\ UNCHANGED <<state, armed, strand, at, actionQueue, epoch, tick, bodyOk, lateTicks>>

\* stop(), first step: state_.store(Stopped) on the calling thread.
StopStore(c) ==
  /\ callerAt[c] = "idle" /\ calls < MaxCalls
  /\ calls' = calls + 1 /\ lastCall' = "stop"
  /\ state' = "Stopped"
  /\ callerAt' = [callerAt EXCEPT ![c] = "cancel"]
  /\ orderly' = (orderly /\ ~StartUnderWay)
  /\ UNCHANGED <<armed, strand, at, actionQueue, epoch, tick, bodyOk, lateTicks>>

\* stop(), second step: tick_timer_.cancel() on the calling thread.
StopCancel(c) ==
  /\ callerAt[c] = "cancel"
  /\ CancelInto(strand)
  /\ callerAt' = [callerAt EXCEPT ![c] = "post"]
  /\ UNCHANGED <<state, at, calls, lastCall, actionQueue, epoch, tick, bodyOk, lateTicks, orderly>>

\* stop(), last step: post doStop().
StopPost(c) ==
  /\ callerAt[c] = "post"
  /\ strand' = Append(strand, "doStop")
  /\ callerAt' = [callerAt EXCEPT ![c] = "idle"]
  /\ UNCHANGED <<state, armed, at, calls, lastCall, actionQueue, epoch, tick, bodyOk, lateTicks, orderly>>

\* enqueueAction(): the queue takes the action whatever the state.
EnqueueAction ==
  /\ Len(actionQueue) < MaxQueue
  /\ actionQueue' = Append(actionQueue, epoch)
  /\ UNCHANGED <<state, armed, strand, at, callerAt, calls, lastCall, epoch, tick, bodyOk, lateTicks, orderly>>

-----------------------------------------------------------------------------
(* The timer *)

\* The deadline passes: the wait completes and its handler is queued.
TimerFires ==
  /\ armed
  /\ armed' = FALSE
  /\ strand' = Append(strand, "tickOk")
  /\ UNCHANGED <<state, at, callerAt, calls, lastCall, actionQueue, epoch, tick, bodyOk, lateTicks, orderly>>

\* The wait completes with an error other than operation_aborted.
TimerErrs ==
  /\ armed /\ TimerMayFail
  /\ armed' = FALSE
  /\ strand' = Append(strand, "tickError")
  /\ orderly' = FALSE
  /\ UNCHANGED <<state, at, callerAt, calls, lastCall, actionQueue, epoch, tick, bodyOk, lateTicks>>

-----------------------------------------------------------------------------
(* Handlers on the strand *)

\* doStart(), when the state is not Stopped: return.
DoStartRefused ==
  /\ Pop("doStart") /\ state # "Stopped"
  /\ strand' = Tail(strand)
  /\ UNCHANGED <<state, armed, at, callerAt, calls, lastCall, actionQueue, epoch, tick, bodyOk, lateTicks, orderly>>

\* Mutant: a running loop is started once more.
DoStartUnguarded ==
  /\ Pop("doStart")
  /\ strand' = Tail(strand)
  /\ state' = "Running"
  /\ at' = "startArm"
  /\ epoch' = epoch + 1
  /\ lateTicks' = 0
  /\ UNCHANGED <<armed, callerAt, calls, lastCall, actionQueue, tick, bodyOk, orderly>>

\* doStart(): the compare-exchange Stopped -> Running.
DoStartExchange ==
  /\ Pop("doStart") /\ state = "Stopped"
  /\ strand' = Tail(strand)
  /\ state' = "Running"
  /\ at' = "startArm"
  /\ epoch' = epoch + 1
  /\ lateTicks' = 0
  /\ UNCHANGED <<armed, callerAt, calls, lastCall, actionQueue, tick, bodyOk, orderly>>

\* doStart(): the first wait is armed.
DoStartArm ==
  /\ at = "startArm"
  /\ ArmTimer
  /\ at' = "idle"
  /\ UNCHANGED <<state, callerAt, calls, lastCall, actionQueue, epoch, tick, bodyOk, lateTicks, orderly>>

\* doStart(): the timer throws and the state goes back to Stopped.
DoStartThrows ==
  /\ at = "startArm" /\ TimerMayFail
  /\ state' = "Stopped"
  /\ at' = "idle"
  /\ orderly' = FALSE
  /\ UNCHANGED <<armed, strand, callerAt, calls, lastCall, actionQueue, epoch, tick, bodyOk, lateTicks>>

\* doStop(): clean up; the state was set by stop().
DoStop ==
  /\ Pop("doStop")
  /\ ShutdownTickLoop(Tail(strand))
  /\ UNCHANGED <<state, at, callerAt, calls, lastCall, epoch, tick, bodyOk, lateTicks, orderly>>

\* doTick(operation_aborted), and doTick() when the state is not Running: return.
DoTickIgnored ==
  /\ Pop("tickAborted") \/ (Pop("tickOk") /\ state # "Running")
  /\ strand' = Tail(strand)
  /\ UNCHANGED <<state, armed, at, callerAt, calls, lastCall, actionQueue, epoch, tick, bodyOk, lateTicks, orderly>>

\* doTick(other error): the loop stops.
DoTickError ==
  /\ Pop("tickError")
  /\ state' = "Stopped"
  /\ ShutdownTickLoop(Tail(strand))
  /\ UNCHANGED <<at, callerAt, calls, lastCall, epoch, tick, bodyOk, lateTicks, orderly>>

\* Mutant: doTick() does not look at the state.
DoTickUnchecked ==
  /\ Pop("tickOk")
  /\ strand' = Tail(strand)
  /\ at' = "schedule"
  /\ UNCHANGED <<state, armed, callerAt, calls, lastCall, actionQueue, epoch, tick, bodyOk, lateTicks, orderly>>

\* doTick(): the state is Running, go on to scheduleNextTick().
DoTick ==
  /\ Pop("tickOk") /\ state = "Running"
  /\ strand' = Tail(strand)
  /\ at' = "schedule"
  /\ UNCHANGED <<state, armed, callerAt, calls, lastCall, actionQueue, epoch, tick, bodyOk, lateTicks, orderly>>

\* scheduleNextTick(): the state is read again; if it is no longer Running no
\* wait is armed, but doTick() goes on to the tick body.
ScheduleNextTick ==
  /\ at = "schedule"
  /\ at' = IF state = "Running" THEN "arm" ELSE "body"
  /\ UNCHANGED <<state, armed, strand, callerAt, calls, lastCall, actionQueue, epoch, tick, bodyOk, lateTicks, orderly>>

\* Mutant: the next wait is not armed.
ScheduleNoArm ==
  /\ at = "arm"
  /\ at' = "body"
  /\ UNCHANGED <<state, armed, strand, callerAt, calls, lastCall, actionQueue, epoch, tick, bodyOk, lateTicks, orderly>>

\* scheduleNextTick(): the next wait is armed.
ScheduleArm ==
  /\ at = "arm"
  /\ ArmTimer
  /\ at' = "body"
  /\ UNCHANGED <<state, callerAt, calls, lastCall, actionQueue, epoch, tick, bodyOk, lateTicks, orderly>>

\* scheduleNextTick() throws: doTick() stops the loop and the tick is not run.
ScheduleThrows ==
  /\ at = "arm" /\ TimerMayFail
  /\ state' = "Stopped"
  /\ ShutdownTickLoop(strand)
  /\ at' = "idle"
  /\ orderly' = FALSE
  /\ UNCHANGED <<callerAt, calls, lastCall, epoch, tick, bodyOk, lateTicks>>

\* runTickStep(): the queued actions are drained and applied; ok is FALSE when
\* some stage throws, which runTickStep() itself catches and logs.
RunTickStep(ok) ==
  /\ at = "body"
  /\ actionQueue' = << >>
  /\ bodyOk' = ok
  /\ at' = "count"
  /\ UNCHANGED <<state, armed, strand, callerAt, calls, lastCall, epoch, tick, lateTicks, orderly>>

\* doTick(): ++current_tick_.
CountTick ==
  /\ at = "count"
  /\ tick' = (tick + 1) % TickModulus
  /\ lateTicks' = IF state = "Running" THEN 0 ELSE lateTicks + 1
  /\ bodyOk' = TRUE
  /\ at' = "idle"
  /\ UNCHANGED <<state, armed, strand, callerAt, calls, lastCall, actionQueue, epoch, orderly>>

StrandStep ==
  \/ DoStartRefused \/ DoStartExchange \/ DoStartArm \/ DoStartThrows
  \/ DoStop
  \/ DoTickIgnored \/ DoTickError \/ DoTick
  \/ ScheduleNextTick \/ ScheduleArm \/ ScheduleThrows
  \/ \E ok \in BOOLEAN : RunTickStep(ok)
  \/ CountTick

Next ==
  \/ \E c \in Callers : Start(c) \/ StopStore(c) \/ StopCancel(c) \/ StopPost(c)
  \/ EnqueueAction
  \/ TimerFires \/ TimerErrs
  \/ StrandStep

Spec == Init /\ [][Next]_vars

\* Worker threads keep serving the strand, deadlines pass, and a call that has
\* begun ends; nobody is obliged to call anything.
Fairness ==
  /\ WF_vars(StrandStep)
  /\ WF_vars(TimerFires)
  /\ \A c \in Callers : WF_vars(StopCancel(c) \/ StopPost(c))

FairSpec == Spec /\ Fairness

-----------------------------------------------------------------------------
(* Properties *)

\* Type invariant of the game loop's state.
TypeOK ==
  /\ state \in {"Stopped", "Running"}
  /\ armed \in BOOLEAN
  /\ strand \in Seq(Handlers)
  /\ at \in {"idle", "startArm", "schedule", "arm", "body", "count"}
  /\ callerAt \in [Callers -> {"idle", "cancel", "post"}]
  /\ calls \in 0 .. MaxCalls
  /\ lastCall \in {"none", "start", "stop"}
  /\ actionQueue \in Seq(Nat)
  /\ epoch \in Nat
  /\ tick \in 0 .. (TickModulus - 1)
  /\ bodyOk \in BOOLEAN
  /\ lateTicks \in Nat
  /\ orderly \in BOOLEAN

\* No handler runs or waits and no caller is inside stop().
Quiescent ==
  /\ StrandIdle /\ strand = << >>
  /\ \A c \in Callers : callerAt[c] = "idle"

\* Once the loop is Stopped and everything posted has run, no wait is left on the
\* timer: a stopped world never keeps io_context::run() busy (the comments of
\* stop() and shutdownTickLoop()), whatever calls and timer errors raced.
NoOrphanTimer == Quiescent /\ state = "Stopped" => ~armed

\* A stop() can be overtaken by the tick that had already passed the check in
\* doTick(), but by no second one.
AtMostOneLateTick == lateTicks <= 1

\* At most one tick is on its way at any time: a pending wait, a queued tick or
\* one that has not yet re-armed the timer (doStart() in world_instance.h says
\* that a double chain is excluded), as long as the calls are orderly.
SingleChain ==
  LET queued == {k \in DOMAIN strand : strand[k] = "tickOk"}
  IN  orderly => Cardinality(queued) + (IF armed THEN 1 ELSE 0)
                   + (IF at \in {"schedule", "arm"} THEN 1 ELSE 0) <= 1

NoMoreCalls == calls = MaxCalls /\ \A c \in Callers : callerAt[c] = "idle"

\* When the last call is a stop(), the loop ends Stopped (doStop() in
\* world_instance.h) and the strand and the timer come to rest, so that
\* io_context::run() can return (the comment in stop()), if the calls were orderly.
LastStopQuiesces ==
  []orderly =>
    (NoMoreCalls /\ lastCall = "stop"
       ~> [](state = "Stopped" /\ strand = << >> /\ StrandIdle /\ ~armed))

\* A loop that was started in an orderly way and that nobody stops keeps ticking.
KeepsTicking ==
  []orderly => (NoMoreCalls /\ lastCall = "start" ~> []<>(at = "body"))

-----------------------------------------------------------------------------
(* What comments and a test say and the code does not keep *)

\* A tick applies only actions that were enqueued since the last start: the
\* ones from before are stale (the comment in shutdownTickLoop()).
NoStaleActionApplied ==
  [][at = "body" /\ at' = "count"
       => \A k \in DOMAIN actionQueue : actionQueue[k] = epoch]_vars

\* current_tick_ moves only after all stages of a tick have succeeded (doTick()
\* and runTickStep() in world_instance.h).
OnlyCompleteTicksCount == [][tick' # tick => bodyOk]_vars

\* After stop() has returned current_tick_ no longer moves (the test
\* StopWaitsForTickLoopToStop).
NoTickAfterStop ==
  [][tick' # tick
       => lastCall # "stop" \/ \E c \in Callers : callerAt[c] # "idle"]_vars

=============================================================================
