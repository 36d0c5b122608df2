-------------------------- MODULE TickLoop_proofs --------------------------
(***************************************************************************)
(* Proofs about TickLoop, for any number of calling threads and calls.     *)
(***************************************************************************)
EXTENDS TickLoop, FiniteSetTheorems, TLAPS

\* A world that was just constructed satisfies the type invariant.
LEMMA TypeInit == Init => TypeOK
PROOF
<1> SUFFICES ASSUME Init
             PROVE  TypeOK
  OBVIOUS
<1>1. strand \in Seq(Handlers) /\ actionQueue \in Seq(Nat)
  BY DEF Init
<1>2. tick \in 0 .. (TickModulus - 1) /\ calls \in 0 .. MaxCalls
  BY TickLoopAssumption DEF Init
<1> QED BY <1>1, <1>2 DEF Init, TypeOK

\* What the steps do to the strand's queue keeps it a sequence of handlers.
LEMMA StrandType ==
  ASSUME NEW q \in Seq(Handlers), NEW h \in Handlers
  PROVE  /\ Append(q, h) \in Seq(Handlers)
         /\ q # << >> => Tail(q) \in Seq(Handlers) /\ Append(Tail(q), h) \in Seq(Handlers)
  OBVIOUS

\* The names of the handlers that are queued on the strand.
LEMMA HandlerNames ==
  /\ "doStart" \in Handlers /\ "doStop" \in Handlers /\ "tickOk" \in Handlers
  /\ "tickAborted" \in Handlers /\ "tickError" \in Handlers
  BY DEF Handlers

\* Every step of a caller, the timer or the strand keeps the type invariant.
LEMMA TypeNext == TypeOK /\ [Next]_vars => TypeOK'
PROOF
<1> SUFFICES ASSUME TypeOK, [Next]_vars
             PROVE  TypeOK'
  OBVIOUS
<1>1. strand' \in Seq(Handlers)
  <2> USE StrandType, HandlerNames DEF TypeOK
  <2>1. CASE \E c \in Callers : Start(c) \/ StopStore(c) \/ StopCancel(c) \/ StopPost(c)
    BY <2>1 DEF Start, StopStore, StopCancel, StopPost, CancelInto
  <2>2. CASE EnqueueAction \/ TimerFires \/ TimerErrs
    BY <2>2 DEF EnqueueAction, TimerFires, TimerErrs
  <2>3. CASE DoStartRefused \/ DoStartExchange \/ DoTickIgnored \/ DoTick
    BY <2>3 DEF DoStartRefused, DoStartExchange, DoTickIgnored, DoTick, Pop
  <2>4. CASE DoStartArm \/ ScheduleArm
    BY <2>4 DEF DoStartArm, ScheduleArm, ArmTimer
  <2>5. CASE DoStop \/ DoTickError
    BY <2>5 DEF DoStop, DoTickError, ShutdownTickLoop, CancelInto, Pop
  <2>6. CASE ScheduleThrows
    BY <2>6 DEF ScheduleThrows, ShutdownTickLoop, CancelInto
  <2>7. CASE \/ DoStartThrows \/ ScheduleNextTick \/ CountTick
             \/ \E ok \in BOOLEAN : RunTickStep(ok)
             \/ UNCHANGED vars
    BY <2>7 DEF DoStartThrows, ScheduleNextTick, CountTick, RunTickStep, vars
  <2> QED BY <2>1, <2>2, <2>3, <2>4, <2>5, <2>6, <2>7 DEF Next, StrandStep
<1>2. actionQueue' \in Seq(Nat)
  <2> USE DEF TypeOK
  <2>1. CASE EnqueueAction
    BY <2>1 DEF EnqueueAction
  <2>2. CASE actionQueue' = << >>
    BY <2>2
  <2>3. CASE UNCHANGED actionQueue
    BY <2>3
  <2> QED BY <2>1, <2>2, <2>3 DEF Next, StrandStep, Start, StopStore, StopCancel, StopPost,
      TimerFires, TimerErrs, DoStartRefused, DoStartExchange, DoStartArm, DoStartThrows,
      DoStop, DoTickIgnored, DoTickError, DoTick, ScheduleNextTick, ScheduleArm,
      ScheduleThrows, ShutdownTickLoop, RunTickStep, CountTick, vars
<1>3. tick' \in 0 .. (TickModulus - 1) /\ lateTicks' \in Nat /\ epoch' \in Nat /\ calls' \in 0 .. MaxCalls
  <2> USE TickLoopAssumption DEF TypeOK
  <2>1. CASE CountTick
    BY <2>1 DEF CountTick
  <2>2. CASE DoStartExchange
    BY <2>2 DEF DoStartExchange
  <2>3. CASE \E c \in Callers : Start(c) \/ StopStore(c)
    BY <2>3 DEF Start, StopStore
  <2>4. CASE UNCHANGED <<tick, lateTicks, epoch, calls>>
    BY <2>4
  <2> QED BY <2>1, <2>2, <2>3, <2>4 DEF Next, StrandStep, StopCancel, StopPost,
      EnqueueAction, TimerFires, TimerErrs, DoStartRefused, DoStartArm, DoStartThrows,
      DoStop, DoTickIgnored, DoTickError, DoTick, ScheduleNextTick, ScheduleArm,
      ScheduleThrows, RunTickStep, vars
<1>4. callerAt' \in [Callers -> {"idle", "cancel", "post"}]
  <2> USE DEF TypeOK
  <2>1. CASE \E c \in Callers : StopStore(c) \/ StopCancel(c) \/ StopPost(c)
    BY <2>1 DEF StopStore, StopCancel, StopPost
  <2>2. CASE UNCHANGED callerAt
    BY <2>2
  <2> QED BY <2>1, <2>2 DEF Next, StrandStep, Start,
      EnqueueAction, TimerFires, TimerErrs, DoStartRefused, DoStartExchange, DoStartArm, DoStartThrows,
      DoStop, DoTickIgnored, DoTickError, DoTick, ScheduleNextTick, ScheduleArm,
      ScheduleThrows, RunTickStep, CountTick, vars
<1>5. /\ state' \in {"Stopped", "Running"} /\ lastCall' \in {"none", "start", "stop"}
      /\ at' \in {"idle", "startArm", "schedule", "arm", "body", "count"}
  BY DEF TypeOK, Next, StrandStep, Start, StopStore, StopCancel, StopPost,
      EnqueueAction, TimerFires, TimerErrs, DoStartRefused, DoStartExchange, DoStartArm, DoStartThrows,
      DoStop, DoTickIgnored, DoTickError, DoTick, ScheduleNextTick, ScheduleArm,
      ScheduleThrows, RunTickStep, CountTick, vars
<1>6. armed' \in BOOLEAN /\ bodyOk' \in BOOLEAN
  BY Zenon DEF TypeOK, Next, StrandStep, Start, StopStore, StopCancel, StopPost,
      EnqueueAction, TimerFires, TimerErrs, DoStartRefused, DoStartExchange, DoStartArm, DoStartThrows,
      DoStop, DoTickIgnored, DoTickError, DoTick, ScheduleNextTick, ScheduleArm,
      ScheduleThrows, ShutdownTickLoop, CancelInto, ArmTimer, RunTickStep, CountTick, vars
<1>7. orderly' \in BOOLEAN
  <2>1. CASE \E c \in Callers : Start(c) \/ StopStore(c)
    BY <2>1, Zenon DEF Start, StopStore
  <2>2. CASE TimerErrs \/ DoStartThrows \/ ScheduleThrows
    BY <2>2, Zenon DEF TimerErrs, DoStartThrows, ScheduleThrows
  <2>3. CASE UNCHANGED orderly
    BY <2>3, Zenon DEF TypeOK
  <2> QED BY <2>1, <2>2, <2>3 DEF Next, StrandStep, StopCancel, StopPost, EnqueueAction, TimerFires,
      DoStartRefused, DoStartExchange, DoStartArm, DoStop, DoTickIgnored, DoTickError, DoTick,
      ScheduleNextTick, ScheduleArm, RunTickStep, CountTick, vars
<1> QED BY <1>1, <1>2, <1>3, <1>4, <1>5, <1>6, <1>7 DEF TypeOK

\* The type invariant of the game loop.
THEOREM TypeCorrect == Spec => []TypeOK
  BY TypeInit, TypeNext, PTL DEF Spec

-----------------------------------------------------------------------------

\* A tick that ends after the loop has left Running is the last one: no other
\* can have passed the check of doTick(), which is on the same strand.
LateInv ==
  /\ TypeOK
  /\ lateTicks \in {0, 1}
  /\ lateTicks = 1 => state = "Stopped" /\ at = "idle"

\* Every step keeps LateInv: a tick that overtakes a stop() is the last one.
LEMMA LateNext == LateInv /\ [Next]_vars => LateInv'
PROOF
<1> SUFFICES ASSUME LateInv, [Next]_vars
             PROVE  LateInv'
  OBVIOUS
<1>1. TypeOK'
  BY TypeNext DEF LateInv
<1> USE DEF LateInv
<1>2. ASSUME NEW c \in Callers, Start(c) \/ StopStore(c) \/ StopCancel(c) \/ StopPost(c)
      PROVE  LateInv'
  BY <1>1, <1>2 DEF Start, StopStore, StopCancel, StopPost
<1>3. CASE EnqueueAction \/ TimerFires \/ TimerErrs
  BY <1>1, <1>3 DEF EnqueueAction, TimerFires, TimerErrs
<1>4. CASE DoStartRefused \/ DoStop \/ DoTickIgnored \/ DoTickError
  BY <1>1, <1>4 DEF DoStartRefused, DoStop, DoTickIgnored, DoTickError
<1>5. CASE DoStartExchange \/ DoTick
  BY <1>1, <1>5 DEF DoStartExchange, DoTick
<1>6. CASE DoStartArm \/ DoStartThrows \/ ScheduleNextTick \/ ScheduleArm \/ ScheduleThrows
  BY <1>1, <1>6 DEF DoStartArm, DoStartThrows, ScheduleNextTick, ScheduleArm, ScheduleThrows
<1>7. ASSUME NEW ok \in BOOLEAN, RunTickStep(ok) PROVE LateInv'
  BY <1>1, <1>7 DEF RunTickStep
<1>8. CASE CountTick
  BY <1>1, <1>8 DEF CountTick, TypeOK
<1>9. CASE UNCHANGED vars
  BY <1>1, <1>9 DEF vars
<1> QED BY <1>2, <1>3, <1>4, <1>5, <1>6, <1>7, <1>8, <1>9 DEF Next, StrandStep

\* stop() is overtaken by at most one tick.
THEOREM LateTickBound == Spec => []AtMostOneLateTick
PROOF
<1>1. Init => LateInv
  BY TypeInit DEF Init, LateInv
<1>2. LateInv => AtMostOneLateTick
  BY DEF LateInv, AtMostOneLateTick
<1> QED BY <1>1, <1>2, LateNext, PTL DEF Spec

-----------------------------------------------------------------------------

\* A wait that outlives the Running state is always covered by a stop() that has
\* not finished: its doStop() is still to run and will cancel the wait.
OrphanInv ==
  /\ TypeOK
  /\ armed /\ state = "Stopped" => StopUnderWay
  /\ at = "arm" /\ state = "Stopped" => StopUnderWay
  /\ at = "startArm" /\ (armed \/ state = "Stopped") => StopUnderWay

\* A stop() under way stays so until its doStop() runs.
LEMMA StopStaysUnderWay ==
  ASSUME TypeOK, Next, ~DoStop, StopUnderWay
  PROVE  StopUnderWay'
PROOF
<1> USE DEF TypeOK
<1>1. CASE \E c \in Callers : callerAt[c] # "idle"
  <2>1. PICK c \in Callers : callerAt[c] # "idle"
    BY <1>1
  <2>2. CASE callerAt'[c] # "idle"
    BY <2>1, <2>2 DEF StopUnderWay
  <2>3. CASE callerAt'[c] = "idle"
    <3>1. StopPost(c)
      BY <2>1, <2>3 DEF Next, StrandStep, Start, StopStore, StopCancel, StopPost,
        EnqueueAction, TimerFires, TimerErrs, DoStartRefused, DoStartExchange, DoStartArm,
        DoStartThrows, DoStop, DoTickIgnored, DoTickError, DoTick, ScheduleNextTick,
        ScheduleArm, ScheduleThrows, RunTickStep, CountTick
    <3>2. Len(strand) + 1 \in DOMAIN strand' /\ strand'[Len(strand) + 1] = "doStop"
      BY <3>1 DEF StopPost
    <3> QED BY <3>2 DEF StopUnderWay
  <2> QED BY <2>2, <2>3
<1>2. CASE \E k \in DOMAIN strand : strand[k] = "doStop"
  <2>1. PICK k \in DOMAIN strand : strand[k] = "doStop"
    BY <1>2
  <2>2. k \in 1 .. Len(strand) /\ Len(strand) \in Nat
    BY <2>1
  <2>3. ASSUME NEW h, strand' = Append(strand, h) PROVE StopUnderWay'
    <3>1. k \in DOMAIN strand' /\ strand'[k] = "doStop"
      BY <2>1, <2>2, <2>3
    <3> QED BY <3>1 DEF StopUnderWay
  <2>4. ASSUME strand # << >>, Head(strand) # "doStop",
               strand' = Tail(strand) \/ strand' = Append(Tail(strand), "tickAborted")
        PROVE  StopUnderWay'
    <3>1. k # 1
      BY <2>1, <2>4
    <3>2. k - 1 \in DOMAIN strand' /\ strand'[k - 1] = "doStop"
      <4>1. Tail(strand) \in Seq(Handlers) /\ Len(Tail(strand)) = Len(strand) - 1
        BY <2>4
      <4>2. k - 1 \in 1 .. Len(Tail(strand)) /\ Tail(strand)[k - 1] = "doStop"
        BY <2>1, <2>2, <2>4, <3>1, <4>1
      <4>3. CASE strand' = Tail(strand)
        BY <4>1, <4>2, <4>3
      <4>4. CASE strand' = Append(Tail(strand), "tickAborted")
        BY <4>1, <4>2, <4>4
      <4> QED BY <2>4, <4>3, <4>4
    <3> QED BY <3>2 DEF StopUnderWay
  <2>5. ASSUME strand' = strand PROVE StopUnderWay'
    BY <2>1, <2>5 DEF StopUnderWay
  <2>6. CASE \E c \in Callers : Start(c) \/ StopPost(c)
    BY <2>3, <2>6 DEF Start, StopPost
  <2>7. CASE \E c \in Callers : StopStore(c) \/ StopCancel(c)
    BY <2>3, <2>5, <2>7 DEF StopStore, StopCancel, CancelInto
  <2>8. CASE EnqueueAction \/ TimerFires \/ TimerErrs
    BY <2>3, <2>5, <2>8 DEF EnqueueAction, TimerFires, TimerErrs
  <2>9. CASE DoStartRefused \/ DoStartExchange \/ DoTickIgnored \/ DoTick
    BY <2>4, <2>9 DEF DoStartRefused, DoStartExchange, DoTickIgnored, DoTick, Pop
  <2>10. CASE DoTickError
    BY <2>4, <2>10 DEF DoTickError, ShutdownTickLoop, CancelInto, Pop
  <2>11. CASE DoStartArm \/ ScheduleArm \/ ScheduleThrows
    BY <2>3, <2>5, <2>11 DEF DoStartArm, ScheduleArm, ArmTimer, ScheduleThrows,
                             ShutdownTickLoop, CancelInto
  <2>12. CASE DoStartThrows \/ ScheduleNextTick \/ (\E ok \in BOOLEAN : RunTickStep(ok)) \/ CountTick
    BY <2>5, <2>12 DEF DoStartThrows, ScheduleNextTick, RunTickStep, CountTick
  <2> QED BY <2>6, <2>7, <2>8, <2>9, <2>10, <2>11, <2>12 DEF Next, StrandStep
<1> QED BY <1>1, <1>2 DEF StopUnderWay

\* Every step keeps the invariant behind NoOrphanTimer: a wait that is armed on a
\* stopped loop has a doStop() on its way that will cancel it.
LEMMA OrphanNext == OrphanInv /\ [Next]_vars => OrphanInv'
PROOF
<1> SUFFICES ASSUME OrphanInv, [Next]_vars
             PROVE  OrphanInv'
  OBVIOUS
<1>1. TypeOK /\ TypeOK'
  BY TypeNext DEF OrphanInv
<1>2. CASE UNCHANGED vars
  BY <1>1, <1>2 DEF OrphanInv, vars, StopUnderWay
<1>3. CASE DoStop
  <2>1. armed' = FALSE /\ at' = "idle"
    BY <1>3 DEF DoStop, ShutdownTickLoop, CancelInto, Pop, StrandIdle
  <2> QED BY <1>1, <2>1 DEF OrphanInv
<1>4. CASE Next /\ ~DoStop
  <2>1. StopUnderWay => StopUnderWay'
    BY <1>1, <1>4, StopStaysUnderWay
  <2> USE DEF OrphanInv
  <2>2. ASSUME NEW c \in Callers, StopStore(c) PROVE OrphanInv'
    <3>1. StopUnderWay'
      BY <1>1, <2>2 DEF StopStore, StopUnderWay, TypeOK
    <3> QED BY <1>1, <3>1
  <2>3. ASSUME NEW c \in Callers, Start(c) \/ StopCancel(c) \/ StopPost(c) PROVE OrphanInv'
    BY <1>1, <2>1, <2>3 DEF Start, StopCancel, CancelInto, StopPost
  <2>4. CASE EnqueueAction \/ TimerFires \/ TimerErrs
    BY <1>1, <2>1, <2>4 DEF EnqueueAction, TimerFires, TimerErrs
  <2>5. CASE DoStartRefused \/ DoTickIgnored \/ DoTick
    BY <1>1, <2>1, <2>5 DEF DoStartRefused, DoTickIgnored, DoTick, Pop, StrandIdle
  <2>6. CASE DoStartExchange
    BY <1>1, <2>1, <2>6 DEF DoStartExchange
  <2>7. CASE DoStartArm
    BY <1>1, <2>1, <2>7 DEF DoStartArm
  <2>8. CASE DoStartThrows
    BY <1>1, <2>1, <2>8 DEF DoStartThrows
  <2>9. CASE DoTickError \/ ScheduleThrows
    BY <1>1, <2>1, <2>9 DEF DoTickError, ScheduleThrows, ShutdownTickLoop, CancelInto, Pop, StrandIdle
  <2>10. CASE ScheduleNextTick
    BY <1>1, <2>1, <2>10 DEF ScheduleNextTick
  <2>11. CASE ScheduleArm
    BY <1>1, <2>1, <2>11 DEF ScheduleArm
  <2>12. CASE (\E ok \in BOOLEAN : RunTickStep(ok)) \/ CountTick
    BY <1>1, <2>1, <2>12 DEF RunTickStep, CountTick
  <2> QED BY <1>4, <2>2, <2>3, <2>4, <2>5, <2>6, <2>7, <2>8, <2>9, <2>10, <2>11, <2>12
          DEF Next, StrandStep
<1> QED BY <1>2, <1>3, <1>4

\* A stopped world at rest has no pending wait, whatever start(), stop() and
\* timer errors raced before.
THEOREM NoTimerLeak == Spec => []NoOrphanTimer
PROOF
<1>1. Init => OrphanInv
  BY TypeInit DEF Init, OrphanInv
<1>2. OrphanInv => NoOrphanTimer
  BY DEF OrphanInv, NoOrphanTimer, Quiescent, StopUnderWay
<1> QED BY <1>1, <1>2, OrphanNext, PTL DEF Spec

-----------------------------------------------------------------------------

\* Handlers of one kind on a queue: whether there is one, whether there are two,
\* and whether every g comes before every h.
Waits(q, h) == \E k \in DOMAIN q : q[k] = h

NoTwo(q, h) == \A j, k \in DOMAIN q : q[j] = h /\ q[k] = h => j = k

AllBefore(q, g, h) == \A j, k \in DOMAIN q : q[j] = g /\ q[k] = h => j < k

\* A tick is on its way and has not yet re-armed the timer.
TickRunning == at \in {"schedule", "arm"}

\* One tick at a time: a queued one excludes a second, a wait and a running one.
OneTick ==
  /\ NoTwo(strand, "tickOk")
  /\ Waits(strand, "tickOk") => ~armed /\ ~TickRunning
  /\ armed => ~TickRunning

\* Orderly calls: start() and stop() do not overlap, a stop() under way has set the
\* state, and when it is over nothing is left but ticks that were queued before the
\* next doStart(), which finds the timer free and no tick behind it.
OrderlyInv ==
  /\ ~(StartUnderWay /\ StopUnderWay)
  /\ StopUnderWay => state = "Stopped"
  /\ state = "Stopped" /\ ~StopUnderWay => ~armed /\ ~TickRunning
  /\ state = "Stopped" => AllBefore(strand, "tickOk", "doStart")
  /\ at = "startArm" => state = "Running" /\ ~armed /\ ~Waits(strand, "tickOk")
  /\ ~Waits(strand, "tickError")

ChainInv == TypeOK /\ (orderly => OneTick /\ OrderlyInv)

\* A handler is posted.
LEMMA WaitsAppend ==
  ASSUME NEW q \in Seq(Handlers), NEW x \in Handlers
  PROVE  /\ \A h : Waits(Append(q, x), h) <=> Waits(q, h) \/ x = h
         /\ \A h : NoTwo(q, h) /\ (x = h => ~Waits(q, h)) => NoTwo(Append(q, x), h)
         /\ \A g, h : AllBefore(q, g, h) /\ g # h /\ (x = g => ~Waits(q, h)) => AllBefore(Append(q, x), g, h)
PROOF
<1>1. /\ DOMAIN q = 1 .. Len(q) /\ Len(q) \in Nat /\ DOMAIN Append(q, x) = 1 .. (Len(q) + 1)
      /\ \A k \in 1 .. Len(q) : Append(q, x)[k] = q[k]
      /\ Append(q, x)[Len(q) + 1] = x
  OBVIOUS
<1>2. /\ \A k \in DOMAIN q : k \in DOMAIN Append(q, x) /\ Append(q, x)[k] = q[k] /\ k < Len(q) + 1
      /\ \A k \in DOMAIN Append(q, x) : k \in DOMAIN q \/ k = Len(q) + 1
      /\ Len(q) + 1 \in DOMAIN Append(q, x)
  BY <1>1
<1>3. \A h : Waits(Append(q, x), h) <=> Waits(q, h) \/ x = h
  BY <1>1, <1>2, Zenon DEF Waits
<1>4. \A h : NoTwo(q, h) /\ (x = h => ~Waits(q, h)) => NoTwo(Append(q, x), h)
  BY <1>1, <1>2, Zenon DEF Waits, NoTwo
<1>5. \A g, h : AllBefore(q, g, h) /\ g # h /\ (x = g => ~Waits(q, h)) => AllBefore(Append(q, x), g, h)
  BY <1>1, <1>2, Zenon DEF Waits, AllBefore
<1> QED BY <1>3, <1>4, <1>5

\* The first handler is taken.
LEMMA WaitsTail ==
  ASSUME NEW q \in Seq(Handlers), q # << >>
  PROVE  /\ \A h : Waits(q, h) <=> Waits(Tail(q), h) \/ Head(q) = h
         /\ \A h : NoTwo(q, h) => NoTwo(Tail(q), h) /\ (Head(q) = h => ~Waits(Tail(q), h))
         /\ \A g, h : AllBefore(q, g, h) => AllBefore(Tail(q), g, h)
         /\ \A g, h : AllBefore(q, g, h) /\ Head(q) = h => ~Waits(Tail(q), g)
PROOF
<1>1. /\ DOMAIN q = 1 .. Len(q) /\ Len(q) \in Nat /\ DOMAIN Tail(q) = 1 .. (Len(q) - 1)
      /\ \A k \in 1 .. (Len(q) - 1) : Tail(q)[k] = q[k + 1]
      /\ q[1] = Head(q) /\ 1 \in DOMAIN q
  OBVIOUS
<1>2. /\ \A k \in DOMAIN Tail(q) : k + 1 \in DOMAIN q /\ Tail(q)[k] = q[k + 1] /\ k + 1 # 1 /\ ~(k + 1 < 1)
      /\ \A k \in DOMAIN q : k = 1 \/ (k - 1 \in DOMAIN Tail(q) /\ Tail(q)[k - 1] = q[k])
      /\ \A j, k \in DOMAIN Tail(q) : (j + 1 = k + 1 => j = k) /\ (j + 1 < k + 1 => j < k)
  BY <1>1
<1>3. ASSUME NEW h PROVE Waits(q, h) <=> Waits(Tail(q), h) \/ Head(q) = h
  <2>1. ASSUME Waits(q, h) PROVE Waits(Tail(q), h) \/ Head(q) = h
    <3>1. PICK k \in DOMAIN q : q[k] = h
      BY <2>1 DEF Waits
    <3> QED BY <1>1, <1>2, <3>1 DEF Waits
  <2>2. ASSUME Waits(Tail(q), h) PROVE Waits(q, h)
    <3>1. PICK k \in DOMAIN Tail(q) : Tail(q)[k] = h
      BY <2>2 DEF Waits
    <3> QED BY <1>2, <3>1 DEF Waits
  <2>3. ASSUME Head(q) = h PROVE Waits(q, h)
    BY <1>1, <2>3 DEF Waits
  <2> QED BY <2>1, <2>2, <2>3
<1>4. \A h : NoTwo(q, h) => NoTwo(Tail(q), h) /\ (Head(q) = h => ~Waits(Tail(q), h))
  BY <1>1, <1>2 DEF Waits, NoTwo
<1>5. \A g, h : AllBefore(q, g, h) => AllBefore(Tail(q), g, h)
  BY <1>2 DEF AllBefore
<1>6. \A g, h : AllBefore(q, g, h) /\ Head(q) = h => ~Waits(Tail(q), g)
  BY <1>1, <1>2 DEF Waits, AllBefore
<1> QED BY <1>3, <1>4, <1>5, <1>6

\* Every step keeps the calls orderly or says that they are not.
LEMMA ChainNext == ChainInv /\ [Next]_vars => ChainInv'
PROOF
<1> SUFFICES ASSUME ChainInv, [Next]_vars
             PROVE  ChainInv'
  OBVIOUS
<1>1. TypeOK /\ TypeOK' /\ strand \in Seq(Handlers)
  BY TypeNext DEF ChainInv, TypeOK
<1> SUFFICES ASSUME orderly'
             PROVE  (OneTick /\ OrderlyInv)'
  BY <1>1 DEF ChainInv
<1>2. orderly
  BY <1>1 DEF TypeOK, vars, Next, StrandStep, Start, StopStore, StopCancel, StopPost, EnqueueAction,
     TimerFires, TimerErrs, DoStartRefused, DoStartExchange, DoStartArm, DoStartThrows, DoStop,
     DoTickIgnored, DoTickError, DoTick, ScheduleNextTick, ScheduleArm, ScheduleThrows, RunTickStep,
     CountTick
<1>3. OneTick /\ OrderlyInv
  BY <1>2 DEF ChainInv
<1>4. /\ StartUnderWay <=> at = "startArm" \/ Waits(strand, "doStart")
      /\ StopUnderWay <=> (\E c \in Callers : callerAt[c] # "idle") \/ Waits(strand, "doStop")
      /\ StartUnderWay' <=> at' = "startArm" \/ Waits(strand', "doStart")
      /\ StopUnderWay' <=> (\E c \in Callers : callerAt'[c] # "idle") \/ Waits(strand', "doStop")
  BY DEF StartUnderWay, StopUnderWay, Waits
<1> USE DEF OneTick, OrderlyInv, TickRunning
\* What is posted is none of the handlers that the invariant is about.
<1>5. ASSUME NEW q \in Seq(Handlers)
      PROVE  /\ \A h \in {"doStart", "doStop", "tickOk", "tickError"} :
                  Waits(Append(q, "tickAborted"), h) <=> Waits(q, h)
             /\ NoTwo(q, "tickOk") => NoTwo(Append(q, "tickAborted"), "tickOk")
             /\ AllBefore(q, "tickOk", "doStart") => AllBefore(Append(q, "tickAborted"), "tickOk", "doStart")
  BY WaitsAppend, HandlerNames
<1>6. CASE UNCHANGED vars
  BY <1>3, <1>4, <1>6 DEF vars
<1>7. ASSUME NEW c \in Callers, Start(c)
      PROVE  (OneTick /\ OrderlyInv)'
  <2>1. /\ strand' = Append(strand, "doStart") /\ ~StopUnderWay
        /\ UNCHANGED <<state, armed, at, callerAt>>
    BY <1>7 DEF Start
  <2>2. /\ \A h \in {"doStop", "tickOk", "tickError"} : Waits(strand', h) <=> Waits(strand, h)
        /\ NoTwo(strand', "tickOk")
        /\ AllBefore(strand, "tickOk", "doStart") => AllBefore(strand', "tickOk", "doStart")
    BY <1>1, <1>3, <2>1, WaitsAppend, HandlerNames
  <2> QED BY <1>3, <1>4, <2>1, <2>2
<1>8. ASSUME NEW c \in Callers, StopStore(c)
      PROVE  (OneTick /\ OrderlyInv)'
  <2>1. /\ ~StartUnderWay /\ state' = "Stopped" /\ UNCHANGED <<armed, strand, at>>
        /\ StopUnderWay' /\ ~StartUnderWay'
    BY <1>1, <1>4, <1>8 DEF StopStore, TypeOK
  <2>2. AllBefore(strand, "tickOk", "doStart")
    BY <1>4, <2>1 DEF Waits, AllBefore
  <2> QED BY <1>3, <1>4, <2>1, <2>2
<1>9. ASSUME NEW c \in Callers, StopCancel(c)
      PROVE  (OneTick /\ OrderlyInv)'
  <2>1. /\ StopUnderWay /\ StopUnderWay' /\ ~armed' /\ UNCHANGED <<state, at>>
        /\ strand' = strand \/ strand' = Append(strand, "tickAborted")
    BY <1>1, <1>4, <1>9 DEF StopCancel, CancelInto, TypeOK
  <2>2. CASE strand' = strand
    BY <1>3, <1>4, <2>1, <2>2
  <2>3. CASE strand' = Append(strand, "tickAborted")
    <3>1. /\ \A h \in {"doStart", "doStop", "tickOk", "tickError"} : Waits(strand', h) <=> Waits(strand, h)
          /\ NoTwo(strand', "tickOk")
          /\ AllBefore(strand, "tickOk", "doStart") => AllBefore(strand', "tickOk", "doStart")
      BY <1>1, <1>3, <1>5, <2>3
    <3> QED BY <1>3, <1>4, <2>1, <3>1
  <2> QED BY <2>1, <2>2, <2>3
<1>10. ASSUME NEW c \in Callers, StopPost(c)
       PROVE  (OneTick /\ OrderlyInv)'
  <2>1. /\ strand' = Append(strand, "doStop") /\ StopUnderWay
        /\ UNCHANGED <<state, armed, at>>
    BY <1>4, <1>10 DEF StopPost
  <2>2. /\ \A h \in {"doStart", "tickOk", "tickError"} : Waits(strand', h) <=> Waits(strand, h)
        /\ NoTwo(strand', "tickOk") /\ Waits(strand', "doStop")
        /\ AllBefore(strand, "tickOk", "doStart") => AllBefore(strand', "tickOk", "doStart")
    BY <1>1, <1>3, <2>1, WaitsAppend, HandlerNames
  <2> QED BY <1>3, <1>4, <2>1, <2>2
<1>11. CASE EnqueueAction \/ (\E ok \in BOOLEAN : RunTickStep(ok)) \/ CountTick
  <2>1. UNCHANGED <<state, armed, strand, callerAt>> /\ (at' = at \/ at' \in {"count", "idle"})
    BY <1>11 DEF EnqueueAction, RunTickStep, CountTick
  <2> QED BY <1>3, <1>4, <2>1
<1>12. CASE TimerFires
  <2>1. /\ armed /\ ~armed' /\ strand' = Append(strand, "tickOk")
        /\ UNCHANGED <<state, at, callerAt>>
    BY <1>12 DEF TimerFires
  <2>2. ~Waits(strand, "tickOk") /\ (state = "Stopped" => ~Waits(strand, "doStart"))
    BY <1>3, <1>4, <2>1
  <2>3. /\ \A h \in {"doStart", "doStop", "tickError"} : Waits(strand', h) <=> Waits(strand, h)
        /\ NoTwo(strand', "tickOk")
        /\ state = "Stopped" => AllBefore(strand', "tickOk", "doStart")
    BY <1>1, <1>3, <2>1, <2>2, WaitsAppend, HandlerNames
  <2> QED BY <1>3, <1>4, <2>1, <2>3
<1>13. CASE TimerErrs \/ DoStartThrows \/ ScheduleThrows
  BY <1>13 DEF TimerErrs, DoStartThrows, ScheduleThrows
\* What is left when a handler has been taken.
<1>14. ASSUME strand # << >>
       PROVE  /\ \A h : Waits(strand, h) <=> Waits(Tail(strand), h) \/ Head(strand) = h
              /\ NoTwo(Tail(strand), "tickOk")
              /\ Head(strand) = "tickOk" => ~Waits(Tail(strand), "tickOk")
              /\ AllBefore(strand, "tickOk", "doStart") => AllBefore(Tail(strand), "tickOk", "doStart")
              /\ AllBefore(strand, "tickOk", "doStart") /\ Head(strand) = "doStart"
                   => ~Waits(Tail(strand), "tickOk")
              /\ Tail(strand) \in Seq(Handlers)
  BY <1>1, <1>3, <1>14, WaitsTail
<1>15. CASE DoStartRefused \/ DoTickIgnored
  <2>1. /\ strand # << >> /\ strand' = Tail(strand) /\ Head(strand) \in {"doStart", "tickAborted", "tickOk"}
        /\ UNCHANGED <<state, armed, at, callerAt>> /\ at = "idle"
    BY <1>15 DEF DoStartRefused, DoTickIgnored, Pop, StrandIdle
  <2>2. \A h \in {"doStop", "tickError"} : Waits(strand', h) <=> Waits(strand, h)
    BY <1>14, <2>1
  <2>3. \A h : Waits(strand', h) => Waits(strand, h)
    BY <1>14, <2>1
  <2> QED BY <1>3, <1>4, <1>14, <2>1, <2>2, <2>3
<1>16. CASE DoStartExchange
  <2>1. /\ strand # << >> /\ strand' = Tail(strand) /\ Head(strand) = "doStart" /\ state = "Stopped"
        /\ UNCHANGED <<armed, callerAt>> /\ at' = "startArm" /\ state' = "Running"
    BY <1>16 DEF DoStartExchange, Pop
  <2>2. ~StopUnderWay /\ ~armed
    BY <1>3, <1>4, <1>14, <2>1
  <2>3. ~Waits(strand', "tickOk") /\ \A h : Waits(strand', h) => Waits(strand, h)
    BY <1>3, <1>14, <2>1
  <2> QED BY <1>3, <1>4, <1>14, <2>1, <2>2, <2>3
<1>17. CASE DoStartArm
  <2>1. at = "startArm" /\ armed' = TRUE /\ strand' = strand /\ at' = "idle" /\ UNCHANGED <<state, callerAt>>
    BY <1>3, <1>17 DEF DoStartArm, ArmTimer
  <2> QED BY <1>3, <1>4, <2>1
<1>18. CASE DoStop
  <2>1. /\ strand # << >> /\ Head(strand) = "doStop" /\ ~armed' /\ at = "idle"
        /\ strand' = Tail(strand) \/ strand' = Append(Tail(strand), "tickAborted")
        /\ UNCHANGED <<state, at, callerAt>>
    BY <1>18 DEF DoStop, Pop, StrandIdle, ShutdownTickLoop, CancelInto
  <2>2. /\ \A h \in {"doStart", "doStop", "tickOk", "tickError"} : Waits(strand', h) => Waits(strand, h)
        /\ NoTwo(strand', "tickOk")
        /\ AllBefore(strand, "tickOk", "doStart") => AllBefore(strand', "tickOk", "doStart")
    <3>1. CASE strand' = Tail(strand)
      BY <1>14, <2>1, <3>1
    <3>2. CASE strand' = Append(Tail(strand), "tickAborted")
      <4>1. /\ Tail(strand) \in Seq(Handlers) /\ NoTwo(Tail(strand), "tickOk")
            /\ \A h : Waits(Tail(strand), h) => Waits(strand, h)
            /\ AllBefore(strand, "tickOk", "doStart") => AllBefore(Tail(strand), "tickOk", "doStart")
        BY <1>14, <2>1
      <4> DEFINE q == Tail(strand)
      <4>2. q \in Seq(Handlers)
        BY <4>1
      <4> HIDE DEF q
      <4>3. /\ \A h \in {"doStart", "doStop", "tickOk", "tickError"} : Waits(Append(q, "tickAborted"), h) <=> Waits(q, h)
            /\ NoTwo(q, "tickOk") => NoTwo(Append(q, "tickAborted"), "tickOk")
            /\ AllBefore(q, "tickOk", "doStart") => AllBefore(Append(q, "tickAborted"), "tickOk", "doStart")
        BY <1>5, <4>2
      <4> QED BY <3>2, <4>1, <4>3, Zenon DEF q
    <3> QED BY <2>1, <3>1, <3>2
  <2> QED BY <1>3, <1>4, <2>1, <2>2
<1>19. CASE DoTickError
  <2>1. strand # << >> /\ Head(strand) = "tickError"
    BY <1>19 DEF DoTickError, Pop
  <2> QED BY <1>3, <1>14, <2>1
<1>20. CASE DoTick
  <2>1. /\ strand # << >> /\ strand' = Tail(strand) /\ Head(strand) = "tickOk" /\ state = "Running"
        /\ UNCHANGED <<state, armed, callerAt>> /\ at' = "schedule" /\ at = "idle"
    BY <1>20 DEF DoTick, Pop, StrandIdle
  <2>2. ~Waits(strand', "tickOk") /\ ~armed /\ \A h : Waits(strand', h) => Waits(strand, h)
    BY <1>3, <1>14, <2>1
  <2> QED BY <1>3, <1>4, <1>14, <2>1, <2>2
<1>21. CASE ScheduleNextTick
  <2>1. /\ at = "schedule" /\ at' \in {"arm", "body"} /\ (at' = "arm" => state = "Running")
        /\ UNCHANGED <<state, armed, strand, callerAt>>
    BY <1>21 DEF ScheduleNextTick
  <2> QED BY <1>3, <1>4, <2>1
<1>22. CASE ScheduleArm
  <2>1. at = "arm" /\ armed' = TRUE /\ strand' = strand /\ at' = "body" /\ UNCHANGED <<state, callerAt>>
    BY <1>3, <1>22 DEF ScheduleArm, ArmTimer
  <2> QED BY <1>3, <1>4, <2>1
<1> QED BY <1>6, <1>7, <1>8, <1>9, <1>10, <1>11, <1>12, <1>13, <1>15, <1>16, <1>17, <1>18, <1>19, <1>20,
           <1>21, <1>22, Zenon DEF Next, StrandStep

\* The ticks form a single chain as long as start() and stop() do not overlap and
\* no timer fails, for any number of calls and callers.
THEOREM SingleChainCorrect == Spec => []SingleChain
PROOF
<1>1. Init => ChainInv
  <2> SUFFICES ASSUME Init PROVE ChainInv
    OBVIOUS
  <2>1. strand = << >> /\ DOMAIN << >> = {}
    BY DEF Init
  <2> QED BY <2>1, TypeInit DEF Init, ChainInv, OneTick, OrderlyInv, NoTwo, Waits, AllBefore, TickRunning,
          StartUnderWay, StopUnderWay
<1>2. ChainInv => SingleChain
  <2> SUFFICES ASSUME ChainInv, orderly
               PROVE  Cardinality({k \in DOMAIN strand : strand[k] = "tickOk"}) + (IF armed THEN 1 ELSE 0)
                        + (IF at \in {"schedule", "arm"} THEN 1 ELSE 0) <= 1
    BY Zenon DEF SingleChain
  <2> DEFINE T == {k \in DOMAIN strand : strand[k] = "tickOk"}
             n == Cardinality(T)
  <2>1. OneTick
    BY DEF ChainInv
  <2>2. CASE T = {}
    <3>1. n = 0
      BY <2>2, FS_EmptySet
    <3> HIDE DEF n
    <3>2. n + (IF armed THEN 1 ELSE 0) + (IF at \in {"schedule", "arm"} THEN 1 ELSE 0) <= 1
      BY <2>1, <3>1 DEF OneTick, TickRunning
    <3> QED BY <3>2 DEF n
  <2>3. CASE T # {}
    <3>1. PICK k : k \in T
      BY <2>3
    <3>2. T = {k}
      BY <2>1, <3>1 DEF OneTick, NoTwo
    <3>3. n = 1
      BY <3>2, FS_Singleton
    <3>4. ~armed /\ ~TickRunning
      BY <2>1, <3>1 DEF OneTick, Waits
    <3> HIDE DEF n
    <3>5. n + (IF armed THEN 1 ELSE 0) + (IF at \in {"schedule", "arm"} THEN 1 ELSE 0) <= 1
      BY <3>3, <3>4 DEF TickRunning
    <3> QED BY <3>5 DEF n
  <2> QED BY <2>2, <2>3
<1> QED BY <1>1, <1>2, ChainNext, PTL DEF Spec


=============================================================================
