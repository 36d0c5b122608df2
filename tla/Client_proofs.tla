--------------------------- MODULE Client_proofs ---------------------------
(***************************************************************************)
(* Proofs about the client, for any number of calls, connects and          *)
(* messages: about TcpClient used by callers in any order (TcpClientUser)  *)
(* and about the GameController that owns it.  They share an invariant of  *)
(* the connection that every handler of TcpClient keeps, whoever calls.    *)
(***************************************************************************)
EXTENDS TcpClientUser, GameController, FiniteSetTheorems, TLAPS

-----------------------------------------------------------------------------
(* Queues *)

IsQueue(q) == \E S : q \in Seq(S)

Waits(q, h) == \E k \in DOMAIN q : q[k].h = h

\* What posting an element means for the places of a queue.
LEMMA AppendPlaces ==
  ASSUME NEW q, IsQueue(q), NEW x
  PROVE  /\ IsQueue(Append(q, x))
         /\ DOMAIN Append(q, x) = DOMAIN q \cup {Len(q) + 1}
         /\ Append(q, x)[Len(q) + 1] = x
         /\ \A k \in DOMAIN q : Append(q, x)[k] = q[k] /\ k \in Nat /\ k < Len(q) + 1
PROOF
<1>1. PICK S : q \in Seq(S)
  BY DEF IsQueue
<1>2. Len(q) \in Nat /\ DOMAIN q = 1 .. Len(q)
  BY <1>1
<1> DEFINE T == S \cup {x}
<1>3. q \in Seq(T) /\ x \in T
  BY <1>1
<1> HIDE DEF T
<1>4. Append(q, x) \in Seq(T)
  BY <1>3
<1>5. DOMAIN Append(q, x) = 1 .. (Len(q) + 1)
  BY <1>3
<1>6. DOMAIN Append(q, x) = DOMAIN q \cup {Len(q) + 1}
  BY <1>2, <1>5
<1> QED BY <1>2, <1>3, <1>4, <1>6 DEF IsQueue

\* What taking the first element means for them.
LEMMA TailPlaces ==
  ASSUME NEW q, IsQueue(q), q # << >>
  PROVE  /\ IsQueue(Tail(q))
         /\ \A k \in DOMAIN Tail(q) : k \in Nat /\ k >= 1 /\ k + 1 \in DOMAIN q /\ Tail(q)[k] = q[k + 1]
         /\ \A k \in DOMAIN q : k \in Nat /\ (k = 1 \/ (k - 1 \in DOMAIN Tail(q) /\ Tail(q)[k - 1] = q[k]))
         /\ 1 \in DOMAIN q /\ q[1] = Head(q)
PROOF
<1>1. PICK S : q \in Seq(S)
  BY DEF IsQueue
<1>2. Len(q) \in Nat /\ DOMAIN q = 1 .. Len(q)
  BY <1>1
<1>3. Tail(q) \in Seq(S) /\ Len(q) >= 1 /\ Head(q) = q[1]
  BY <1>1
<1>4. DOMAIN Tail(q) = 1 .. (Len(q) - 1) /\ \A k \in 1 .. (Len(q) - 1) : Tail(q)[k] = q[k + 1]
  BY <1>1
<1>5. ASSUME NEW k \in DOMAIN q
      PROVE  k \in Nat /\ (k = 1 \/ (k - 1 \in DOMAIN Tail(q) /\ Tail(q)[k - 1] = q[k]))
  <2>1. k = 1 \/ (k - 1 \in 1 .. (Len(q) - 1) /\ (k - 1) + 1 = k)
    BY <1>2
  <2> QED BY <1>2, <1>4, <2>1
<1> QED BY <1>2, <1>3, <1>4, <1>5 DEF IsQueue

\* A queue stays one.
LEMMA QueueStays ==
  ASSUME NEW q, IsQueue(q)
  PROVE  /\ \A x : IsQueue(Append(q, x))
         /\ q # << >> => IsQueue(Tail(q)) /\ \A x : IsQueue(Append(Tail(q), x))
PROOF
<1>1. ASSUME NEW p, IsQueue(p), NEW x
      PROVE  IsQueue(Append(p, x))
  BY <1>1, AppendPlaces
<1>2. q # << >> => IsQueue(Tail(q))
  BY TailPlaces
<1> QED BY <1>1, <1>2, Zenon

-----------------------------------------------------------------------------
(* Operations of one generation.  o is a set of operations under way, q a
   queue of handlers, g a generation and K a set of kinds of operations.  *)

\* The operations of generation g that are under way.
UnderWay(o, g, K) == {op \in o : op.kind \in K /\ op.gen = g}

\* The places of their completions that have not run.
Completed(q, g, K) == {k \in DOMAIN q : q[k].h \in K /\ q[k].op.gen = g}

None(o, q, g, K) == UnderWay(o, g, K) = {} /\ Completed(q, g, K) = {}

AtMostOne(o, q, g, K) ==
  /\ \A a, b \in UnderWay(o, g, K) : a = b
  /\ \A j, k \in Completed(q, g, K) : j = k
  /\ UnderWay(o, g, K) = {} \/ Completed(q, g, K) = {}

\* Handlers that are no completions of operations in K are posted: q becomes p.
LEMMA PostOther ==
  ASSUME NEW q, NEW p, NEW o, NEW g, NEW K,
         DOMAIN q \subseteq DOMAIN p,
         \A k \in DOMAIN p : IF k \in DOMAIN q THEN p[k] = q[k] ELSE p[k].h \notin K
  PROVE  /\ Completed(p, g, K) = Completed(q, g, K)
         /\ None(o, p, g, K) <=> None(o, q, g, K)
         /\ AtMostOne(o, p, g, K) <=> AtMostOne(o, q, g, K)
PROOF
<1>1. Completed(p, g, K) = Completed(q, g, K)
  BY DEF Completed
<1> QED BY <1>1 DEF None, AtMostOne

\* An operation ends and its completion is posted.
LEMMA Complete ==
  ASSUME NEW q, IsQueue(q), NEW x, NEW o, NEW op \in o, NEW g, NEW K,
         x.h = op.kind, x.op = op
  PROVE  /\ None(o \ {op}, Append(q, x), g, K) <=> None(o, q, g, K)
         /\ AtMostOne(o, q, g, K) => AtMostOne(o \ {op}, Append(q, x), g, K)
PROOF
<1> DEFINE p == Append(q, x)
           r == o \ {op}
<1>1. /\ DOMAIN p = DOMAIN q \cup {Len(q) + 1}
      /\ \A k \in DOMAIN q : p[k] = q[k] /\ k # Len(q) + 1
      /\ p[Len(q) + 1] = x
  BY AppendPlaces
<1>2. \A e : e \in r <=> e \in o /\ e # op
  OBVIOUS
<1> HIDE DEF p, r
<1>3. CASE op.kind \in K /\ op.gen = g
  <2>1. Completed(p, g, K) = Completed(q, g, K) \cup {Len(q) + 1}
    BY <1>1, <1>3 DEF Completed
  <2>2. UnderWay(r, g, K) = UnderWay(o, g, K) \ {op} /\ op \in UnderWay(o, g, K)
    BY <1>2, <1>3 DEF UnderWay
  <2>3. AtMostOne(o, q, g, K) => UnderWay(r, g, K) = {} /\ Completed(q, g, K) = {}
    BY <2>2 DEF AtMostOne
  <2> QED BY <2>1, <2>2, <2>3 DEF None, AtMostOne, p, r
<1>4. CASE ~(op.kind \in K /\ op.gen = g)
  <2>1. Completed(p, g, K) = Completed(q, g, K)
    BY <1>1, <1>4 DEF Completed
  <2>2. UnderWay(r, g, K) = UnderWay(o, g, K)
    BY <1>2, <1>4 DEF UnderWay
  <2> QED BY <2>1, <2>2 DEF None, AtMostOne, p, r
<1> QED BY <1>3, <1>4

\* The first handler of the queue is taken.
LEMMA Take ==
  ASSUME NEW q, IsQueue(q), q # << >>, NEW o, NEW g, NEW K
  PROVE  /\ None(o, q, g, K) => None(o, Tail(q), g, K)
         /\ AtMostOne(o, q, g, K) => AtMostOne(o, Tail(q), g, K)
         /\ Head(q).h \notin K \/ Head(q).op.gen # g
              => (None(o, Tail(q), g, K) <=> None(o, q, g, K))
         /\ Head(q).h \in K /\ Head(q).op.gen = g /\ AtMostOne(o, q, g, K) => None(o, Tail(q), g, K)
PROOF
<1> DEFINE p == Tail(q)
<1>1. /\ \A k \in DOMAIN p : k \in Nat /\ k >= 1 /\ k + 1 \in DOMAIN q /\ p[k] = q[k + 1]
      /\ \A k \in DOMAIN q : k = 1 \/ (k - 1 \in DOMAIN p /\ p[k - 1] = q[k])
      /\ 1 \in DOMAIN q /\ q[1] = Head(q)
  BY TailPlaces
<1> HIDE DEF p
<1>2. \A k \in Completed(p, g, K) : k \in Nat /\ k >= 1 /\ k + 1 \in Completed(q, g, K)
  BY <1>1 DEF Completed
<1>3. \A k \in Completed(q, g, K) : k = 1 \/ k - 1 \in Completed(p, g, K)
  BY <1>1 DEF Completed
<1>4. 1 \in Completed(q, g, K) <=> Head(q).h \in K /\ Head(q).op.gen = g
  BY <1>1 DEF Completed
<1>5. Completed(q, g, K) = {} => Completed(p, g, K) = {}
  BY <1>2
<1>6. AtMostOne(o, q, g, K) => AtMostOne(o, p, g, K)
  BY <1>2, <1>5 DEF AtMostOne
<1>7. 1 \notin Completed(q, g, K) /\ Completed(p, g, K) = {} => Completed(q, g, K) = {}
  BY <1>3
<1>8. 1 \in Completed(q, g, K) /\ AtMostOne(o, q, g, K) => Completed(p, g, K) = {} /\ UnderWay(o, g, K) = {}
  BY <1>2 DEF AtMostOne
<1> QED BY <1>4, <1>5, <1>6, <1>7, <1>8 DEF None, p

\* An operation is started.
LEMMA StartOp ==
  ASSUME NEW o, NEW q, NEW op, NEW g, NEW K
  PROVE  /\ op.kind \notin K => /\ None(o \cup {op}, q, g, K) <=> None(o, q, g, K)
                                /\ AtMostOne(o \cup {op}, q, g, K) <=> AtMostOne(o, q, g, K)
         /\ None(o, q, g, K) => AtMostOne(o \cup {op}, q, g, K)
         /\ op.kind \in K /\ op.gen = g => ~None(o \cup {op}, q, g, K)
PROOF
<1> DEFINE r == o \cup {op}
<1>1. \A e : e \in r <=> e \in o \/ e = op
  OBVIOUS
<1> HIDE DEF r
<1>2. op.kind \notin K => UnderWay(r, g, K) = UnderWay(o, g, K)
  BY <1>1 DEF UnderWay
<1>3. UnderWay(o, g, K) = {} => \A a \in UnderWay(r, g, K) : a = op
  BY <1>1 DEF UnderWay
<1>4. op.kind \in K /\ op.gen = g => op \in UnderWay(r, g, K)
  BY <1>1 DEF UnderWay
<1> QED BY <1>2, <1>3, <1>4 DEF None, AtMostOne, r

\* No operation belongs to a generation that has just begun.
LEMMA NewGeneration ==
  ASSUME NEW o, NEW q, NEW g \in Nat, NEW K,
         \A op \in o : op.gen \in 0 .. g,
         \A k \in DOMAIN q : q[k].h \in K => q[k].op.gen \in 0 .. g
  PROVE  None(o, q, g + 1, K)
  BY DEF None, UnderWay, Completed

\* Where nothing is under way there is not more than one operation.
LEMMA NoneIsAtMostOne ==
  ASSUME NEW o, NEW q, NEW g, NEW K, None(o, q, g, K)
  PROVE  AtMostOne(o, q, g, K)
  BY DEF None, AtMostOne

-----------------------------------------------------------------------------
(* The connection, whoever uses it *)

Kinds == {"resolve", "connect", "read", "write"}

LambdaNames == {"connectCall", "sendCall", "disconnect"}

AttemptKinds == {"resolve", "connect"}

KindSets == {AttemptKinds, {"read"}, {"write"}}

\* A queued handler is a lambda, or completes an operation of this generation g or
\* of an earlier one.
HandlerOK(x, g) ==
  /\ x.h \in Kinds \cup LambdaNames
  /\ x.h \in Kinds => x.op.gen \in 0 .. g

QueueOK(q, g) == IsQueue(q) /\ \A k \in DOMAIN q : HandlerOK(q[k], g)

HandlersInv ==
  /\ isConnected \in BOOLEAN /\ isConnecting \in BOOLEAN
  /\ disconnectRequested \in BOOLEAN /\ isWriting \in BOOLEAN
  /\ disconnectGen \in Nat
  /\ QueueOK(strand, disconnectGen)
  /\ \A op \in ops : op.kind \in Kinds /\ op.gen \in 0 .. disconnectGen

Idle(K) == None(ops, strand, disconnectGen, K)

Single(K) == AtMostOne(ops, strand, disconnectGen, K)

\* A disconnect() has begun, which d says, or what it posted has not run.
DisconnectPending(d) == d \/ Waits(strand, "disconnect")

\* How the flags, the generations and the write queue fit together.
FlagInv(d) ==
  /\ ~(isConnected /\ isConnecting)
  /\ isConnected \/ isConnecting => activeGen = disconnectGen
  /\ ~isConnected => ~isWriting /\ writeQueue = << >>
  /\ isConnected /\ disconnectRequested => DisconnectPending(d)

\* The flags tell which operations the present generation has.
LiveInv ==
  /\ \A K \in KindSets : Single(K)
  /\ isConnecting <=> ~Idle(AttemptKinds)
  /\ ~isConnected => Idle({"read"})
  /\ ~isWriting => Idle({"write"})

\* A connection that nobody gives up is read from, and written to if need be.
ServedInv(d) ==
  isConnected /\ ~DisconnectPending(d) =>
    /\ ~Idle({"read"})
    /\ isWriting => ~Idle({"write"})
    /\ writeQueue # << >> => isWriting

Core(d) == HandlersInv /\ FlagInv(d) /\ LiveInv /\ ServedInv(d)

\* Posting a handler keeps the queue well formed.
LEMMA QueueAppend ==
  ASSUME NEW q, NEW g, QueueOK(q, g), NEW x, HandlerOK(x, g)
  PROVE  /\ QueueOK(Append(q, x), g)
         /\ \A h : Waits(Append(q, x), h) <=> Waits(q, h) \/ x.h = h
PROOF
<1> DEFINE p == Append(q, x)
<1>1. /\ IsQueue(p) /\ DOMAIN p = DOMAIN q \cup {Len(q) + 1}
      /\ \A k \in DOMAIN q : p[k] = q[k]
      /\ p[Len(q) + 1] = x
  BY AppendPlaces DEF QueueOK
<1> HIDE DEF p
<1>2. \A k \in DOMAIN p : HandlerOK(p[k], g)
  BY <1>1, Zenon DEF QueueOK
<1>3. \A h : Waits(p, h) <=> Waits(q, h) \/ x.h = h
  BY <1>1, Zenon DEF Waits
<1> QED BY <1>1, <1>2, <1>3, Zenon DEF QueueOK, p

\* Taking the first handler keeps the queue well formed.
LEMMA QueueTail ==
  ASSUME NEW q, NEW g, QueueOK(q, g), q # << >>
  PROVE  /\ QueueOK(Tail(q), g) /\ HandlerOK(Head(q), g)
         /\ \A h : Waits(q, h) <=> Waits(Tail(q), h) \/ Head(q).h = h
PROOF
<1> DEFINE p == Tail(q)
<1>1. /\ IsQueue(p)
      /\ \A k \in DOMAIN p : k + 1 \in DOMAIN q /\ p[k] = q[k + 1]
      /\ \A k \in DOMAIN q : k = 1 \/ (k - 1 \in DOMAIN p /\ p[k - 1] = q[k])
      /\ 1 \in DOMAIN q /\ q[1] = Head(q)
  BY TailPlaces DEF QueueOK
<1> HIDE DEF p
<1>2. \A k \in DOMAIN p : HandlerOK(p[k], g)
  BY <1>1, Zenon DEF QueueOK
<1>3. \A h : Waits(q, h) <=> Waits(p, h) \/ Head(q).h = h
  BY <1>1, Zenon DEF Waits
<1> QED BY <1>1, <1>2, <1>3, Zenon DEF QueueOK, p

\* q becomes p when lambdas, or nothing, are posted.
Posted(q, p) ==
  /\ IsQueue(p) /\ DOMAIN q \subseteq DOMAIN p
  /\ \A k \in DOMAIN p : IF k \in DOMAIN q THEN p[k] = q[k] ELSE p[k].h \in LambdaNames

LEMMA LambdaPosted ==
  ASSUME NEW q, IsQueue(q)
  PROVE  /\ Posted(q, q)
         /\ \A x : x.h \in LambdaNames => Posted(q, Append(q, x))
PROOF
<1>1. ASSUME NEW x, x.h \in LambdaNames
      PROVE  Posted(q, Append(q, x))
  <2> DEFINE p == Append(q, x)
  <2>1. /\ IsQueue(p) /\ DOMAIN p = DOMAIN q \cup {Len(q) + 1}
        /\ p[Len(q) + 1] = x
        /\ \A k \in DOMAIN q : p[k] = q[k]
    BY AppendPlaces
  <2> HIDE DEF p
  <2>2. Posted(q, p)
    BY <1>1, <2>1, Zenon DEF Posted
  <2> QED BY <2>2 DEF p
<1> QED BY <1>1 DEF Posted

\* Calls, which post lambdas, keep the invariant: a disconnect() that set the flag
\* posts its lambda, or will (e).
LEMMA CorePost ==
  ASSUME NEW d, NEW e, Core(d), Posted(strand, strand'),
         UNCHANGED <<isConnected, isConnecting, disconnectGen, activeGen, writeQueue, isWriting, ops>>,
         disconnectRequested' \in BOOLEAN,
         d => e \/ Waits(strand', "disconnect"),
         disconnectRequested' => disconnectRequested \/ e \/ Waits(strand', "disconnect")
  PROVE  Core(e)'
PROOF
<1>1. /\ HandlersInv /\ FlagInv(d) /\ LiveInv /\ ServedInv(d) /\ disconnectGen \in Nat
      /\ QueueOK(strand, disconnectGen)
  BY DEF Core, HandlersInv
<1>2. \A K \in KindSets, h \in LambdaNames : h \notin K
  BY DEF KindSets, AttemptKinds, LambdaNames
<1>3. ASSUME NEW K \in KindSets
      PROVE  (Idle(K)' <=> Idle(K)) /\ (Single(K)' <=> Single(K))
  BY <1>2, PostOther DEF Idle, Single, Posted
<1>4. Waits(strand, "disconnect") => Waits(strand', "disconnect")
  BY DEF Waits, Posted
<1>5. HandlersInv'
  <2>1. QueueOK(strand', disconnectGen)
    BY <1>1, Zenon DEF QueueOK, HandlerOK, Posted, Kinds, LambdaNames
  <2> QED BY <1>1, <2>1 DEF HandlersInv
<1>6. AttemptKinds \in KindSets /\ {"read"} \in KindSets /\ {"write"} \in KindSets
  BY DEF KindSets
<1> QED BY <1>1, <1>3, <1>4, <1>5, <1>6 DEF Core, FlagInv, LiveInv, ServedInv, DisconnectPending

\* The end of an operation keeps the invariant.
LEMMA CoreNetwork ==
  ASSUME NEW d, Core(d), NEW op \in ops, NEW x, x.h = op.kind, x.op = op,
         strand' = Append(strand, x), ops' = ops \ {op},
         UNCHANGED <<isConnected, isConnecting, disconnectGen, activeGen, disconnectRequested,
                     writeQueue, isWriting>>
  PROVE  Core(d)'
PROOF
<1>1. /\ HandlersInv /\ FlagInv(d) /\ LiveInv /\ ServedInv(d) /\ disconnectGen \in Nat
      /\ QueueOK(strand, disconnectGen) /\ IsQueue(strand)
      /\ op.kind \in Kinds /\ op.gen \in 0 .. disconnectGen
  BY DEF Core, HandlersInv, QueueOK
<1>2. ASSUME NEW K \in KindSets
      PROVE  (Idle(K)' <=> Idle(K)) /\ (Single(K) => Single(K)')
  BY <1>1, Complete DEF Idle, Single
<1>3. HandlerOK(x, disconnectGen) /\ x.h # "disconnect"
  BY <1>1 DEF HandlerOK, Kinds
<1>4. QueueOK(strand', disconnectGen) /\ (Waits(strand', "disconnect") <=> Waits(strand, "disconnect"))
  BY <1>1, <1>3, QueueAppend
<1>5. HandlersInv'
  BY <1>1, <1>4 DEF HandlersInv
<1>6. AttemptKinds \in KindSets /\ {"read"} \in KindSets /\ {"write"} \in KindSets
  BY DEF KindSets
<1> QED BY <1>1, <1>2, <1>4, <1>5, <1>6 DEF Core, FlagInv, LiveInv, ServedInv, DisconnectPending

\* Every handler of TcpClient keeps the flags in agreement with the operations.
LEMMA CoreStrand ==
  ASSUME NEW d, Core(d), StrandStep
  PROVE  Core(d)'
PROOF
<1> DEFINE A == AttemptKinds
           R == {"read"}
           W == {"write"}
           Inv == FlagInv(d) /\ LiveInv /\ ServedInv(d)
<1>1. /\ HandlersInv /\ disconnectGen \in Nat /\ QueueOK(strand, disconnectGen) /\ IsQueue(strand)
      /\ isConnected \in BOOLEAN /\ isConnecting \in BOOLEAN /\ disconnectRequested \in BOOLEAN
      /\ isWriting \in BOOLEAN
      /\ \A op \in ops : op.kind \in Kinds /\ op.gen \in 0 .. disconnectGen
  BY DEF Core, HandlersInv, QueueOK
<1>2. DisconnectLambda.h = "disconnect" /\ HandlerOK(DisconnectLambda, disconnectGen)
  BY DEF DisconnectLambda, Lambda, HandlerOK, Kinds, LambdaNames
<1>3. FlagInv(d) /\ LiveInv /\ ServedInv(d)
  BY DEF Core
<1>4. /\ KindSets = {A, R, W} /\ (\A K \in KindSets : K \subseteq Kinds)
      /\ A \in KindSets /\ R \in KindSets /\ W \in KindSets
  BY DEF KindSets, AttemptKinds, Kinds
<1>5. \A K \in KindSets, h \in LambdaNames : h \notin K
  BY <1>4 DEF LambdaNames, Kinds
<1> DEFINE rest == Tail(strand)
           gen  == Head(strand).op.gen
\* The first handler is taken.
<1>6. strand # << >>
  BY DEF StrandStep, ConnectHandler, SendHandler, DisconnectHandler, ResolveHandler, ConnectionHandler,
     ReadHandler, WriteHandler, Running
<1>7. HandlersInv'
  <2>1. QueueOK(rest, disconnectGen) /\ QueueOK(Append(rest, DisconnectLambda), disconnectGen)
    BY <1>1, <1>2, <1>6, QueueTail, QueueAppend
  <2>2. /\ strand' = rest \/ strand' = Append(rest, DisconnectLambda)
        /\ disconnectGen' = disconnectGen \/ (disconnectGen' = disconnectGen + 1 /\ strand' = rest)
    BY DEF StrandStep, ConnectHandler, SendHandler, DisconnectHandler, ResolveHandler, ConnectionHandler,
       ReadHandler, WriteHandler, DisconnectFrom, BeginAttempt, genVars
  <2>3. QueueOK(strand', disconnectGen')
    <3>1. \A x : HandlerOK(x, disconnectGen) => HandlerOK(x, disconnectGen + 1)
      BY <1>1 DEF HandlerOK
    <3> QED BY <2>1, <2>2, <3>1 DEF QueueOK
  <2>4. ops' = ops \/ \E kind \in Kinds : \E arg : ops' = ops \cup {Op(kind, disconnectGen, arg)}
    <3>1. CASE ConnectHandler
      BY <3>1 DEF ConnectHandler, BeginAttempt, Generation, Kinds
    <3>2. CASE SendHandler \/ WriteHandler
      <4>1. ops' = ops \/ ops' = ops \cup {Op("write", disconnectGen, Head(writeQueue'))}
        BY <1>3, <3>2 DEF SendHandler, WriteHandler, WriteOf, IsValidGeneration, IsStopped, FlagInv
      <4> QED BY <4>1 DEF Kinds
    <3>3. CASE ResolveHandler \/ ConnectionHandler
      <4>1. \/ ops' = ops \/ ops' = ops \cup {Op("connect", disconnectGen, 0)}
            \/ ops' = ops \cup {Op("read", disconnectGen, 0)}
        BY <3>3 DEF ResolveHandler, ConnectionHandler, Connected, AttemptIsStale, IsValidGeneration
      <4> QED BY <4>1 DEF Kinds
    <3>4. CASE ReadHandler
      <4>1. ops' = ops \/ ops' = ops \cup {Op("read", disconnectGen, 0)}
        BY <3>4 DEF ReadHandler, IsValidGeneration
      <4> QED BY <4>1 DEF Kinds
    <3>5. CASE DisconnectHandler
      BY <3>5 DEF DisconnectHandler
    <3> QED BY <3>1, <3>2, <3>3, <3>4, <3>5 DEF StrandStep
  <2>5. \A op \in ops' : op.kind \in Kinds /\ op.gen \in 0 .. disconnectGen
    <3>1. \A kind, g, arg : Op(kind, g, arg).kind = kind /\ Op(kind, g, arg).gen = g
      BY DEF Op
    <3>2. disconnectGen \in 0 .. disconnectGen
      BY <1>1
    <3> QED BY <1>1, <2>4, <3>1, <3>2
  <2>6. \A op \in ops' : op.kind \in Kinds /\ op.gen \in 0 .. disconnectGen'
    BY <1>1, <2>2, <2>5
  <2>7. disconnectGen' \in Nat
    BY <1>1, <2>2
  <2>8. /\ isConnected' \in BOOLEAN /\ isConnecting' \in BOOLEAN
        /\ disconnectRequested' \in BOOLEAN /\ isWriting' \in BOOLEAN
    BY <1>1 DEF StrandStep, ConnectHandler, SendHandler, DisconnectHandler, ResolveHandler, ConnectionHandler,
       ReadHandler, WriteHandler, DisconnectFrom, BeginAttempt, FailConnect, Connected, connVars, writeVars
  <2> QED BY <2>3, <2>6, <2>7, <2>8 DEF HandlersInv
<1>8. SUFFICES Inv'
  BY <1>7 DEF Core
<1>10. /\ \A K \in KindSets :
             /\ Idle(K) => None(ops, rest, disconnectGen, K)
             /\ Single(K) => AtMostOne(ops, rest, disconnectGen, K)
             /\ Head(strand).h \notin K \/ gen # disconnectGen
                  => (None(ops, rest, disconnectGen, K) <=> Idle(K))
             /\ Head(strand).h \in K /\ gen = disconnectGen => None(ops, rest, disconnectGen, K)
       /\ Head(strand).h # "disconnect" => (Waits(rest, "disconnect") <=> Waits(strand, "disconnect"))
       /\ QueueOK(rest, disconnectGen) /\ IsQueue(rest)
  <2>1. ASSUME NEW K \in KindSets
        PROVE  /\ Idle(K) => None(ops, rest, disconnectGen, K)
               /\ Single(K) => AtMostOne(ops, rest, disconnectGen, K)
               /\ Head(strand).h \notin K \/ gen # disconnectGen
                    => (None(ops, rest, disconnectGen, K) <=> Idle(K))
               /\ Head(strand).h \in K /\ gen = disconnectGen => None(ops, rest, disconnectGen, K)
    <3>1. Single(K)
      BY <1>3 DEF LiveInv
    <3> QED BY <1>1, <1>6, <3>1, Take DEF Idle, Single
  <2>2. /\ QueueOK(rest, disconnectGen)
        /\ Head(strand).h # "disconnect" => (Waits(rest, "disconnect") <=> Waits(strand, "disconnect"))
    BY <1>1, <1>6, QueueTail
  <2> QED BY <2>1, <2>2 DEF QueueOK
<1> HIDE DEF rest, gen
\* ... and a disconnect is posted.
<1>11. ASSUME strand' = Append(rest, DisconnectLambda), UNCHANGED <<ops, disconnectGen>>
       PROVE  /\ \A K \in KindSets : /\ Idle(K)' <=> None(ops, rest, disconnectGen, K)
                                     /\ Single(K)'
              /\ Waits(strand', "disconnect")
  <2>1. ASSUME NEW K \in KindSets
        PROVE  (Idle(K)' <=> None(ops, rest, disconnectGen, K)) /\ Single(K)'
    <3>1. DisconnectLambda.h \notin K
      BY <1>2, <1>5 DEF LambdaNames
    <3>2. AtMostOne(ops, rest, disconnectGen, K)
      BY <1>3, <1>10 DEF LiveInv
    <3>3. /\ DOMAIN rest \subseteq DOMAIN strand'
          /\ \A k \in DOMAIN strand' : IF k \in DOMAIN rest THEN strand'[k] = rest[k] ELSE strand'[k].h \notin K
      BY <1>10, <1>11, <3>1, AppendPlaces
    <3> QED BY <1>11, <3>2, <3>3, PostOther DEF Idle, Single
  <2>2. Waits(strand', "disconnect")
    BY <1>2, <1>10, <1>11, QueueAppend
  <2> QED BY <2>1, <2>2
\* ... and nothing or one operation is started.
<1>12. ASSUME strand' = rest, UNCHANGED <<ops, disconnectGen>>
       PROVE  \A K \in KindSets : (Idle(K)' <=> None(ops, rest, disconnectGen, K)) /\ Single(K)'
  BY <1>3, <1>10, <1>12 DEF Idle, Single, LiveInv
<1>13. ASSUME NEW op, strand' = rest, ops' = ops \cup {op}, disconnectGen' = disconnectGen,
              op.kind \in Kinds
       PROVE  \A K \in KindSets :
                /\ op.kind \notin K => (Idle(K)' <=> None(ops, rest, disconnectGen, K)) /\ Single(K)'
                /\ None(ops, rest, disconnectGen, K) => Single(K)'
                /\ op.kind \in K /\ op.gen = disconnectGen => ~Idle(K)'
  <2> SUFFICES ASSUME NEW K \in KindSets
               PROVE  /\ op.kind \notin K => (Idle(K)' <=> None(ops, rest, disconnectGen, K)) /\ Single(K)'
                      /\ None(ops, rest, disconnectGen, K) => Single(K)'
                      /\ op.kind \in K /\ op.gen = disconnectGen => ~Idle(K)'
    OBVIOUS
  <2>1. AtMostOne(ops, rest, disconnectGen, K)
    BY <1>3, <1>10 DEF LiveInv
  <2> QED BY <1>13, <2>1, StartOp DEF Idle, Single
<1>14. \A kind, g, arg : Op(kind, g, arg).kind = kind /\ Op(kind, g, arg).gen = g
  BY DEF Op
<1> USE DEF FlagInv, LiveInv, ServedInv, DisconnectPending
<1>20. CASE ConnectHandler
  <2>1. /\ strand # << >> /\ Head(strand).h = "connectCall" /\ strand' = rest
        /\ UNCHANGED <<writeQueue, isWriting>>
    BY <1>20 DEF ConnectHandler, Running, writeVars, rest
  <2>2. \A K \in KindSets : None(ops, rest, disconnectGen, K) <=> Idle(K)
    BY <1>5, <1>10, <2>1 DEF LambdaNames
  <2>3. Waits(strand', "disconnect") <=> Waits(strand, "disconnect")
    BY <1>10, <2>1
  <2>4. CASE isConnected \/ isConnecting
    <3>1. UNCHANGED <<isConnected, isConnecting, disconnectGen, activeGen, disconnectRequested, ops>>
      BY <1>20, <2>4 DEF ConnectHandler, connVars, genVars
    <3>2. \A K \in KindSets : (Idle(K)' <=> Idle(K)) /\ Single(K)'
      BY <1>12, <2>1, <2>2, <3>1
    <3> QED BY <1>3, <1>4, <2>1, <2>3, <3>1, <3>2
  <2>5. CASE ~(isConnected \/ isConnecting)
    <3> DEFINE op == Op("resolve", disconnectGen, 0)
    <3>1. /\ isConnecting' = TRUE /\ isConnected' = isConnected /\ ops' = ops \cup {op}
          /\ activeGen' = disconnectGen /\ disconnectGen' = disconnectGen
      BY <1>20, <2>5 DEF ConnectHandler, BeginAttempt, Generation
    <3>2. op.kind = "resolve" /\ op.gen = disconnectGen
      BY <1>14
    <3> HIDE DEF op
    <3>3. \A K \in KindSets : /\ op.kind \notin K => (Idle(K)' <=> Idle(K)) /\ Single(K)'
                              /\ Idle(K) => Single(K)'
                              /\ op.kind \in K => ~Idle(K)'
      BY <1>13, <2>1, <2>2, <3>1, <3>2 DEF Kinds
    <3>4. Idle(A) /\ Idle(R) /\ Idle(W)
      BY <1>3, <2>5
    <3>5. Single(A)' /\ Single(R)' /\ Single(W)' /\ Idle(R)' /\ Idle(W)' /\ ~Idle(A)'
      BY <1>4, <3>2, <3>3, <3>4 DEF AttemptKinds
    <3> QED BY <1>3, <1>4, <2>1, <2>5, <3>1, <3>5
  <2> QED BY <2>4, <2>5
<1>21. CASE SendHandler
  <2>1. /\ strand # << >> /\ Head(strand).h = "sendCall" /\ strand' = rest
        /\ UNCHANGED <<isConnected, isConnecting, disconnectGen, activeGen, disconnectRequested>>
    BY <1>21 DEF SendHandler, Running, connVars, genVars, rest
  <2>2. \A K \in KindSets : None(ops, rest, disconnectGen, K) <=> Idle(K)
    BY <1>5, <1>10, <2>1 DEF LambdaNames
  <2>3. Waits(strand', "disconnect") <=> Waits(strand, "disconnect")
    BY <1>10, <2>1
  <2>4. CASE UNCHANGED <<writeQueue, isWriting, ops>>
    <3>1. \A K \in KindSets : (Idle(K)' <=> Idle(K)) /\ Single(K)'
      BY <1>12, <2>1, <2>2, <2>4
    <3> QED BY <1>3, <1>4, <2>1, <2>3, <2>4, <3>1
  <2>5. CASE isConnected /\ isWriting' = TRUE /\ isWriting /\ ops' = ops
    <3>1. \A K \in KindSets : (Idle(K)' <=> Idle(K)) /\ Single(K)'
      BY <1>12, <2>1, <2>2, <2>5
    <3> QED BY <1>3, <1>4, <2>1, <2>3, <2>5, <3>1
  <2>6. CASE isConnected /\ isWriting' = TRUE /\ ~isWriting /\ ops' = ops \cup WriteOf(writeQueue')
    <3> DEFINE op == Op("write", activeGen, Head(writeQueue'))
    <3>1. op.kind = "write" /\ op.gen = disconnectGen /\ ops' = ops \cup {op}
      BY <1>3, <1>14, <2>6 DEF WriteOf
    <3> HIDE DEF op
    <3>2. \A K \in KindSets : /\ op.kind \notin K => (Idle(K)' <=> Idle(K)) /\ Single(K)'
                              /\ Idle(K) => Single(K)'
                              /\ op.kind \in K => ~Idle(K)'
      BY <1>13, <2>1, <2>2, <3>1 DEF Kinds
    <3>3. Single(W)' /\ ~Idle(W)' /\ \A K \in {A, R} : (Idle(K)' <=> Idle(K)) /\ Single(K)'
      BY <1>3, <1>4, <2>6, <3>1, <3>2 DEF AttemptKinds
    <3> QED BY <1>3, <1>4, <2>1, <2>3, <2>6, <3>3
  <2> QED BY <1>1, <1>21, <2>4, <2>5, <2>6 DEF SendHandler, IsStopped, MayWrite, writeVars
<1>22. CASE DisconnectHandler
  <2>1. /\ strand # << >> /\ strand' = rest /\ ops' = ops /\ disconnectGen' = disconnectGen + 1
    BY <1>22 DEF DisconnectHandler, Running, rest
  <2>2. isConnected' = FALSE /\ isConnecting' = FALSE /\ isWriting' = FALSE /\ writeQueue' = << >>
    BY <1>1, <1>3, <1>22 DEF DisconnectHandler, connVars, writeVars
  <2>3. ASSUME NEW K \in KindSets
        PROVE  Idle(K)' /\ Single(K)'
    <3>1. \A op \in ops : op.gen \in 0 .. disconnectGen
      BY <1>1
    <3>2. \A k \in DOMAIN rest : rest[k].h \in K => rest[k].op.gen \in 0 .. disconnectGen
      BY <1>4, <1>10, <2>1 DEF QueueOK, HandlerOK
    <3>3. None(ops, rest, disconnectGen + 1, K)
      BY <1>1, <3>1, <3>2, NewGeneration
    <3> QED BY <2>1, <3>3, NoneIsAtMostOne DEF Idle, Single
  <2> QED BY <1>4, <2>2, <2>3
<1>23. CASE (ResolveHandler \/ ConnectionHandler)
  <2>1. /\ strand # << >> /\ Head(strand).h \in A /\ strand' = rest
        /\ UNCHANGED <<disconnectGen, activeGen, disconnectRequested, writeQueue, isWriting>>
    BY <1>23 DEF ResolveHandler, ConnectionHandler, Running, genVars, writeVars, rest, AttemptKinds
  <2>2. \A K \in {R, W} : None(ops, rest, disconnectGen, K) <=> Idle(K)
    BY <1>4, <1>10, <2>1 DEF AttemptKinds
  <2>3. /\ Idle(A) => None(ops, rest, disconnectGen, A)
        /\ gen = disconnectGen => None(ops, rest, disconnectGen, A)
        /\ gen # disconnectGen => (None(ops, rest, disconnectGen, A) <=> Idle(A))
        /\ Waits(strand', "disconnect") <=> Waits(strand, "disconnect")
    BY <1>4, <1>10, <2>1 DEF AttemptKinds
  <2>4. \/ /\ gen # activeGen \/ gen # disconnectGen \/ ~isConnecting
           /\ UNCHANGED <<isConnected, isConnecting, ops>>
        \/ /\ isConnecting /\ gen = disconnectGen
           /\ \/ isConnecting' = FALSE /\ isConnected' = FALSE /\ ops' = ops
              \/ UNCHANGED <<isConnected, isConnecting>> /\ ops' = ops \cup {Op("connect", gen, 0)}
              \/ /\ isConnecting' = FALSE /\ isConnected' = TRUE /\ ~disconnectRequested
                 /\ ops' = ops \cup {Op("read", gen, 0)}
    BY <1>1, <1>23 DEF ResolveHandler, ConnectionHandler, AttemptIsStale, IsValidGeneration, FailConnect,
       Connected, connVars, gen
  <2>5. CASE /\ gen # activeGen \/ gen # disconnectGen \/ ~isConnecting
             /\ UNCHANGED <<isConnected, isConnecting, ops>>
    <3>1. \A K \in KindSets : (Idle(K)' <=> None(ops, rest, disconnectGen, K)) /\ Single(K)'
      BY <1>12, <2>1, <2>5
    <3> QED BY <1>3, <1>4, <2>1, <2>2, <2>3, <2>5, <3>1
  <2>6. CASE isConnecting /\ gen = disconnectGen /\ isConnecting' = FALSE /\ isConnected' = FALSE /\ ops' = ops
    <3>1. \A K \in KindSets : (Idle(K)' <=> None(ops, rest, disconnectGen, K)) /\ Single(K)'
      BY <1>12, <2>1, <2>6
    <3> QED BY <1>3, <1>4, <2>1, <2>2, <2>3, <2>6, <3>1
  <2>7. CASE /\ isConnecting /\ gen = disconnectGen /\ UNCHANGED <<isConnected, isConnecting>>
             /\ ops' = ops \cup {Op("connect", gen, 0)}
    <3> DEFINE op == Op("connect", gen, 0)
    <3>1. op.kind = "connect" /\ op.gen = disconnectGen /\ ops' = ops \cup {op}
      BY <1>14, <2>7
    <3> HIDE DEF op
    <3>2. \A K \in KindSets :
            /\ op.kind \notin K => (Idle(K)' <=> None(ops, rest, disconnectGen, K)) /\ Single(K)'
            /\ None(ops, rest, disconnectGen, K) => Single(K)'
            /\ op.kind \in K => ~Idle(K)'
      BY <1>13, <2>1, <3>1 DEF Kinds
    <3>3. Single(A)' /\ ~Idle(A)' /\ \A K \in {R, W} : (Idle(K)' <=> Idle(K)) /\ Single(K)'
      BY <1>4, <2>2, <2>3, <2>7, <3>1, <3>2 DEF AttemptKinds
    <3> QED BY <1>3, <1>4, <2>1, <2>3, <2>7, <3>3
  <2>8. CASE /\ isConnecting /\ gen = disconnectGen /\ isConnecting' = FALSE /\ isConnected' = TRUE
             /\ ~disconnectRequested /\ ops' = ops \cup {Op("read", gen, 0)}
    <3> DEFINE op == Op("read", gen, 0)
    <3>1. op.kind = "read" /\ op.gen = disconnectGen /\ ops' = ops \cup {op}
      BY <1>14, <2>8
    <3> HIDE DEF op
    <3>2. \A K \in KindSets :
            /\ op.kind \notin K => (Idle(K)' <=> None(ops, rest, disconnectGen, K)) /\ Single(K)'
            /\ None(ops, rest, disconnectGen, K) => Single(K)'
            /\ op.kind \in K => ~Idle(K)'
      BY <1>13, <2>1, <3>1 DEF Kinds
    <3>3. Idle(R) /\ Idle(W) /\ ~isWriting /\ writeQueue = << >> /\ activeGen = disconnectGen
      BY <1>3, <2>8
    <3>4. Single(R)' /\ ~Idle(R)' /\ Idle(W)' /\ Single(W)' /\ Idle(A)' /\ Single(A)'
      BY <1>4, <2>2, <2>3, <2>8, <3>1, <3>2, <3>3 DEF AttemptKinds
    <3> QED BY <1>4, <2>1, <2>8, <3>3, <3>4
  <2> QED BY <2>4, <2>5, <2>6, <2>7, <2>8
<1>24. CASE ReadHandler
  <2>1. /\ strand # << >> /\ Head(strand).h = "read"
        /\ UNCHANGED <<isConnected, isConnecting, disconnectGen, activeGen, writeQueue, isWriting>>
    BY <1>24 DEF ReadHandler, Running, connVars, genVars, writeVars
  <2>2. \A K \in {A, W} : None(ops, rest, disconnectGen, K) <=> Idle(K)
    BY <1>4, <1>10, <2>1 DEF AttemptKinds
  <2>3. /\ Idle(R) => None(ops, rest, disconnectGen, R)
        /\ gen = disconnectGen => None(ops, rest, disconnectGen, R)
        /\ gen # disconnectGen => (None(ops, rest, disconnectGen, R) <=> Idle(R))
        /\ Waits(rest, "disconnect") <=> Waits(strand, "disconnect")
    BY <1>4, <1>10, <2>1
  <2>4. \/ /\ gen # activeGen \/ gen # disconnectGen \/ ~isConnected \/ disconnectRequested
           /\ strand' = rest /\ UNCHANGED <<disconnectRequested, ops>>
        \/ strand' = Append(rest, DisconnectLambda) /\ ops' = ops
        \/ /\ gen = disconnectGen /\ activeGen = disconnectGen /\ isConnected /\ strand' = rest
           /\ ops' = ops \cup {Op("read", activeGen, 0)} /\ UNCHANGED disconnectRequested
    BY <1>24 DEF ReadHandler, IsValidGeneration, IsStopped, DisconnectFrom, gen, rest
  <2>5. CASE /\ gen # activeGen \/ gen # disconnectGen \/ ~isConnected \/ disconnectRequested
             /\ strand' = rest /\ UNCHANGED <<disconnectRequested, ops>>
    <3>1. \A K \in KindSets : (Idle(K)' <=> None(ops, rest, disconnectGen, K)) /\ Single(K)'
      BY <1>12, <2>1, <2>5
    <3> QED BY <1>3, <1>4, <2>1, <2>2, <2>3, <2>5, <3>1
  <2>6. CASE strand' = Append(rest, DisconnectLambda) /\ ops' = ops
    <3>1. /\ \A K \in KindSets : (Idle(K)' <=> None(ops, rest, disconnectGen, K)) /\ Single(K)'
          /\ Waits(strand', "disconnect")
      BY <1>11, <2>1, <2>6
    <3> QED BY <1>3, <1>4, <2>1, <2>2, <2>3, <3>1
  <2>7. CASE /\ gen = disconnectGen /\ activeGen = disconnectGen /\ isConnected /\ strand' = rest
             /\ ops' = ops \cup {Op("read", activeGen, 0)} /\ UNCHANGED disconnectRequested
    <3> DEFINE op == Op("read", activeGen, 0)
    <3>1. op.kind = "read" /\ op.gen = disconnectGen /\ ops' = ops \cup {op}
      BY <1>14, <2>7
    <3> HIDE DEF op
    <3>2. \A K \in KindSets :
            /\ op.kind \notin K => (Idle(K)' <=> None(ops, rest, disconnectGen, K)) /\ Single(K)'
            /\ None(ops, rest, disconnectGen, K) => Single(K)'
            /\ op.kind \in K => ~Idle(K)'
      BY <1>13, <2>1, <2>7, <3>1 DEF Kinds
    <3>3. Single(R)' /\ ~Idle(R)' /\ \A K \in {A, W} : (Idle(K)' <=> Idle(K)) /\ Single(K)'
      BY <1>4, <2>2, <2>3, <2>7, <3>1, <3>2 DEF AttemptKinds
    <3> QED BY <1>3, <1>4, <2>1, <2>3, <2>7, <3>3
  <2> QED BY <2>4, <2>5, <2>6, <2>7
<1>25. CASE WriteHandler
  <2>1. /\ strand # << >> /\ Head(strand).h = "write"
        /\ UNCHANGED <<isConnected, isConnecting, disconnectGen, activeGen>>
    BY <1>25 DEF WriteHandler, Running, connVars, genVars
  <2>2. \A K \in {A, R} : None(ops, rest, disconnectGen, K) <=> Idle(K)
    BY <1>4, <1>10, <2>1 DEF AttemptKinds
  <2>3. /\ Idle(W) => None(ops, rest, disconnectGen, W)
        /\ gen = disconnectGen => None(ops, rest, disconnectGen, W)
        /\ gen # disconnectGen => (None(ops, rest, disconnectGen, W) <=> Idle(W))
        /\ Waits(rest, "disconnect") <=> Waits(strand, "disconnect")
    BY <1>4, <1>10, <2>1
  <2> DEFINE next == writeQueue' # << >> /\ ~disconnectRequested
  <2>4. \/ /\ gen # activeGen \/ gen # disconnectGen \/ ~isConnected
           /\ strand' = rest /\ UNCHANGED <<disconnectRequested, writeQueue, isWriting, ops>>
        \/ strand' = Append(rest, DisconnectLambda) /\ UNCHANGED <<writeQueue, isWriting, ops>> /\ isConnected
        \/ /\ gen = disconnectGen /\ activeGen = disconnectGen /\ isConnected /\ strand' = rest
           /\ isWriting' = next /\ UNCHANGED disconnectRequested
           /\ ops' = IF next THEN ops \cup WriteOf(writeQueue') ELSE ops
    BY <1>25 DEF WriteHandler, IsValidGeneration, DisconnectFrom, writeVars, gen, rest
  <2> HIDE DEF next
  <2>5. CASE /\ gen # activeGen \/ gen # disconnectGen \/ ~isConnected
             /\ strand' = rest /\ UNCHANGED <<disconnectRequested, writeQueue, isWriting, ops>>
    <3>1. \A K \in KindSets : (Idle(K)' <=> None(ops, rest, disconnectGen, K)) /\ Single(K)'
      BY <1>12, <2>1, <2>5
    <3> QED BY <1>3, <1>4, <2>1, <2>2, <2>3, <2>5, <3>1
  <2>6. CASE strand' = Append(rest, DisconnectLambda) /\ UNCHANGED <<writeQueue, isWriting, ops>> /\ isConnected
    <3>1. /\ \A K \in KindSets : (Idle(K)' <=> None(ops, rest, disconnectGen, K)) /\ Single(K)'
          /\ Waits(strand', "disconnect")
      BY <1>11, <2>1, <2>6
    <3> QED BY <1>3, <1>4, <2>1, <2>2, <2>3, <2>6, <3>1
  <2>7. CASE /\ gen = disconnectGen /\ activeGen = disconnectGen /\ isConnected /\ strand' = rest
             /\ isWriting' = next /\ ops' = ops /\ ~next /\ UNCHANGED disconnectRequested
    <3>1. \A K \in KindSets : (Idle(K)' <=> None(ops, rest, disconnectGen, K)) /\ Single(K)'
      BY <1>12, <2>1, <2>7
    <3> QED BY <1>3, <1>4, <2>1, <2>2, <2>3, <2>7, <3>1 DEF next
  <2>8. CASE /\ gen = disconnectGen /\ activeGen = disconnectGen /\ isConnected /\ strand' = rest
             /\ isWriting' = next /\ ops' = ops \cup WriteOf(writeQueue') /\ next /\ UNCHANGED disconnectRequested
    <3> DEFINE op == Op("write", activeGen, Head(writeQueue'))
    <3>1. op.kind = "write" /\ op.gen = disconnectGen /\ ops' = ops \cup {op}
      BY <1>14, <2>8 DEF WriteOf
    <3> HIDE DEF op
    <3>2. \A K \in KindSets :
            /\ op.kind \notin K => (Idle(K)' <=> None(ops, rest, disconnectGen, K)) /\ Single(K)'
            /\ None(ops, rest, disconnectGen, K) => Single(K)'
            /\ op.kind \in K => ~Idle(K)'
      BY <1>13, <2>1, <2>8, <3>1 DEF Kinds
    <3>3. Single(W)' /\ ~Idle(W)' /\ \A K \in {A, R} : (Idle(K)' <=> Idle(K)) /\ Single(K)'
      BY <1>4, <2>2, <2>3, <2>8, <3>1, <3>2 DEF AttemptKinds
    <3> QED BY <1>3, <1>4, <2>1, <2>3, <2>8, <3>3
  <2> QED BY <2>4, <2>5, <2>6, <2>7, <2>8
<1> QED BY <1>20, <1>21, <1>22, <1>23, <1>24, <1>25, Zenon DEF StrandStep

-----------------------------------------------------------------------------
(* Callers in any order: the types of what they post *)

Operations == [kind : Kinds, gen : Nat, arg : Nat]

Handlers ==
  [h : LambdaNames, arg : Nat]
    \cup [h : Kinds, op : Operations, ok : BOOLEAN, msg : {"none", "message"}]

\* What a queued handler brings, besides an operation: the frame of a send() or the
\* number of a callback.
UserHandlerOK(x, g) ==
  /\ HandlerOK(x, g)
  /\ x.h = "sendCall" => x.arg \in 1 .. MaxCalls
  /\ x.h = "connectCall" => x.arg \in 1 .. MaxConnects

UserQueueOK(q, g) == q \in Seq(Handlers) /\ \A k \in DOMAIN q : UserHandlerOK(q[k], g)

TypeInv ==
  /\ TypeOK
  /\ UserQueueOK(strand, disconnectGen)
  /\ ops \subseteq Operations /\ \A op \in ops : op.gen \in 0 .. disconnectGen

\* Posting a handler keeps the queue well formed.
LEMMA UserQueueAppend ==
  ASSUME NEW q, NEW g, UserQueueOK(q, g), NEW x \in Handlers, UserHandlerOK(x, g)
  PROVE  /\ UserQueueOK(Append(q, x), g)
         /\ \A h : Waits(Append(q, x), h) <=> Waits(q, h) \/ x.h = h
PROOF
<1> DEFINE p == Append(q, x)
<1>1. /\ q \in Seq(Handlers) /\ p \in Seq(Handlers)
      /\ DOMAIN p = 1 .. (Len(q) + 1) /\ Len(q) \in Nat /\ DOMAIN q = 1 .. Len(q)
      /\ \A k \in DOMAIN q : p[k] = q[k]
      /\ p[Len(q) + 1] = x
  <2>1. q \in Seq(Handlers)
    BY DEF UserQueueOK
  <2> QED BY <2>1
<1> HIDE DEF p
<1>2. \A k \in DOMAIN p : k \in DOMAIN q \/ k = Len(q) + 1
  BY <1>1
<1>3. \A k \in DOMAIN p : UserHandlerOK(p[k], g)
  BY <1>1, <1>2, Zenon DEF UserQueueOK
<1>4. \A k \in DOMAIN q : k \in DOMAIN p
  BY <1>1
<1>5. Len(q) + 1 \in DOMAIN p
  BY <1>1
<1>6. \A h : Waits(p, h) <=> Waits(q, h) \/ x.h = h
  BY <1>1, <1>2, <1>4, <1>5, Zenon DEF Waits
<1> QED BY <1>1, <1>3, <1>6, Zenon DEF UserQueueOK, p

\* Taking the first handler keeps the queue well formed.
LEMMA UserQueueTail ==
  ASSUME NEW q, NEW g, UserQueueOK(q, g), q # << >>
  PROVE  /\ UserQueueOK(Tail(q), g) /\ UserHandlerOK(Head(q), g) /\ Head(q) \in Handlers
         /\ \A h : Waits(q, h) <=> Waits(Tail(q), h) \/ Head(q).h = h
PROOF
<1> DEFINE p == Tail(q)
<1>1. q \in Seq(Handlers)
  BY DEF UserQueueOK
<1>2. /\ p \in Seq(Handlers)
      /\ Len(q) \in Nat /\ Len(q) >= 1 /\ DOMAIN q = 1 .. Len(q)
      /\ DOMAIN p = 1 .. (Len(q) - 1)
      /\ \A k \in DOMAIN p : p[k] = q[k + 1] /\ k + 1 \in DOMAIN q
      /\ Head(q) = q[1] /\ 1 \in DOMAIN q /\ q[1] \in Handlers
  BY <1>1
<1> HIDE DEF p
<1>3. \A k \in DOMAIN q : k = 1 \/ (k - 1 \in DOMAIN p /\ (k - 1) + 1 = k)
  BY <1>2
<1>4. \A k \in DOMAIN q : k = 1 \/ p[k - 1] = q[k]
  BY <1>2, <1>3
<1>5. \A k \in DOMAIN p : UserHandlerOK(p[k], g)
  BY <1>2, Zenon DEF UserQueueOK
<1>6. \A h : Waits(q, h) <=> Waits(p, h) \/ Head(q).h = h
  BY <1>2, <1>3, <1>4, Zenon DEF Waits
<1> QED BY <1>2, <1>5, <1>6, Zenon DEF UserQueueOK, p

\* What is posted is a handler.
LEMMA PostedHandlers ==
  ASSUME TypeInv
  PROVE  /\ \A h \in LambdaNames, arg \in Nat :
              Lambda(h, arg) \in Handlers /\ Lambda(h, arg).h = h /\ Lambda(h, arg).arg = arg
         /\ \A op \in ops, ok \in BOOLEAN, msg \in {"none", "message"} :
              /\ Completion(op, ok, msg) \in Handlers
              /\ Completion(op, ok, msg).h = op.kind /\ Completion(op, ok, msg).op = op
              /\ op.kind \in Kinds
              /\ UserHandlerOK(Completion(op, ok, msg), disconnectGen)
PROOF
<1>1. \A h \in LambdaNames, arg \in Nat :
        Lambda(h, arg) \in Handlers /\ Lambda(h, arg).h = h /\ Lambda(h, arg).arg = arg
  BY DEF Lambda, Handlers
<1>2. ASSUME NEW op \in ops, NEW ok \in BOOLEAN, NEW msg \in {"none", "message"}
      PROVE  /\ Completion(op, ok, msg) \in Handlers
             /\ Completion(op, ok, msg).h = op.kind /\ Completion(op, ok, msg).op = op
             /\ op.kind \in Kinds
             /\ UserHandlerOK(Completion(op, ok, msg), disconnectGen)
  <2>1. op \in Operations /\ op.gen \in 0 .. disconnectGen
    BY DEF TypeInv
  <2>2. op.kind \in Kinds
    BY <2>1 DEF Operations
  <2>3. Completion(op, ok, msg) \in Handlers
    BY <2>1, <2>2 DEF Completion, Handlers
  <2>4. Completion(op, ok, msg).h = op.kind /\ Completion(op, ok, msg).op = op
    BY DEF Completion
  <2> QED BY <2>1, <2>2, <2>3, <2>4 DEF UserHandlerOK, HandlerOK, Kinds
<1> QED BY <1>1, <1>2

\* Every step keeps the queues and the other variables in their types.
LEMMA TypeNext == TypeInv /\ [UserNext]_vars => TypeInv'
PROOF
<1> SUFFICES ASSUME TypeInv, [UserNext]_vars
             PROVE  TypeInv'
  OBVIOUS
<1> USE TcpClientAssumption
<1>1. /\ isConnected \in BOOLEAN /\ isConnecting \in BOOLEAN /\ disconnectRequested \in BOOLEAN
      /\ isWriting \in BOOLEAN /\ disconnecting \in BOOLEAN
      /\ disconnectGen \in Nat /\ activeGen \in 0 .. disconnectGen
      /\ pendingCallback \in 0 .. MaxConnects
      /\ writeQueue \in Seq(1 .. MaxCalls)
      /\ UserQueueOK(strand, disconnectGen)
      /\ ops \subseteq Operations /\ \A op \in ops : op.gen \in 0 .. disconnectGen
      /\ answers \in [1 .. MaxConnects -> Nat]
      /\ messages \in 0 .. MaxMessages /\ calls \in 0 .. MaxCalls /\ connects \in 0 .. MaxConnects
  BY DEF TypeInv, TypeOK
<1>2. SUFFICES /\ isConnected' \in BOOLEAN /\ isConnecting' \in BOOLEAN /\ disconnectRequested' \in BOOLEAN
               /\ isWriting' \in BOOLEAN /\ disconnecting' \in BOOLEAN
               /\ disconnectGen' \in Nat /\ activeGen' \in 0 .. disconnectGen'
               /\ pendingCallback' \in 0 .. MaxConnects
               /\ writeQueue' \in Seq(1 .. MaxCalls)
               /\ UserQueueOK(strand', disconnectGen')
               /\ ops' \subseteq Operations /\ \A op \in ops' : op.gen \in 0 .. disconnectGen'
               /\ answers' \in [1 .. MaxConnects -> Nat]
               /\ messages' \in 0 .. MaxMessages /\ calls' \in 0 .. MaxCalls
               /\ connects' \in 0 .. MaxConnects
  <2>1. \A k \in DOMAIN strand' : strand'[k].h \in {"connectCall", "sendCall", "disconnect", "resolve", "connect", "read", "write"}
    BY <1>2 DEF UserQueueOK, UserHandlerOK, HandlerOK, Kinds, LambdaNames
  <2>2. \A op \in ops' : op.kind \in {"resolve", "connect", "read", "write"}
    BY <1>2 DEF Operations, Kinds
  <2>3. \A op \in ops' : op.gen <= disconnectGen'
    BY <1>2
  <2> QED BY <1>2, <2>1, <2>2, <2>3 DEF TypeInv, TypeOK
<1>3. \A h, arg : h \in LambdaNames /\ arg \in Nat => Lambda(h, arg) \in Handlers
  BY PostedHandlers
<1>4. UserQueueOK(Append(strand, DisconnectLambda), disconnectGen)
  <2>1. DisconnectLambda \in Handlers /\ UserHandlerOK(DisconnectLambda, disconnectGen)
    BY <1>3 DEF DisconnectLambda, UserHandlerOK, HandlerOK, Lambda, LambdaNames, Kinds
  <2> QED BY <1>1, <2>1, UserQueueAppend
<1>5. CASE UNCHANGED vars
  BY <1>1, <1>5 DEF vars, tcpVars, connVars, genVars, writeVars, userVars
<1>6. CASE Connect
  <2> DEFINE x == Lambda("connectCall", connects + 1)
  <2>1. x \in Handlers /\ UserHandlerOK(x, disconnectGen)
    <3>1. connects + 1 \in 1 .. MaxConnects
      BY <1>1, <1>6 DEF Connect
    <3> QED BY <1>3, <3>1 DEF UserHandlerOK, HandlerOK, Lambda, LambdaNames, Kinds
  <2>2. strand' = Append(strand, x)
    BY <1>6 DEF Connect
  <2>3. UserQueueOK(strand', disconnectGen)
    BY <1>1, <2>1, <2>2, UserQueueAppend
  <2> QED BY <1>1, <1>6, <2>3 DEF Connect, connVars, genVars, writeVars
<1>7. CASE Send
  <2> DEFINE x == Lambda("sendCall", calls + 1)
  <2>1. x \in Handlers /\ UserHandlerOK(x, disconnectGen)
    <3>1. calls + 1 \in 1 .. MaxCalls
      BY <1>1, <1>7 DEF Send
    <3> QED BY <1>3, <3>1 DEF UserHandlerOK, HandlerOK, Lambda, LambdaNames, Kinds
  <2>2. strand' = Append(strand, x)
    BY <1>7 DEF Send
  <2>3. UserQueueOK(strand', disconnectGen)
    BY <1>1, <2>1, <2>2, UserQueueAppend
  <2> QED BY <1>1, <1>7, <2>3 DEF Send, connVars, genVars, writeVars
<1>8. CASE DisconnectStore \/ DisconnectPost \/ TakeEvent
  <2>1. /\ UNCHANGED <<connVars, genVars, writeVars, ops, answers, messages, connects>>
        /\ strand' = strand \/ strand' = Append(strand, DisconnectLambda)
    BY <1>8 DEF DisconnectStore, DisconnectPost, TakeEvent, userVars
  <2>2. calls' \in 0 .. MaxCalls
    BY <1>1, <1>8 DEF DisconnectStore, DisconnectPost, TakeEvent, userVars
  <2>3. disconnecting' \in BOOLEAN /\ disconnectRequested' \in BOOLEAN
    BY <1>1, <1>8, Zenon DEF DisconnectStore, DisconnectPost, TakeEvent, userVars
  <2> QED BY <1>1, <1>4, <2>1, <2>2, <2>3 DEF connVars, genVars, writeVars
<1>9. ASSUME strand # << >>
      PROVE  /\ UserQueueOK(Tail(strand), disconnectGen)
             /\ UserHandlerOK(Head(strand), disconnectGen)
             /\ UserQueueOK(Append(Tail(strand), DisconnectLambda), disconnectGen)
  <2>1. DisconnectLambda \in Handlers /\ UserHandlerOK(DisconnectLambda, disconnectGen)
    BY <1>3 DEF DisconnectLambda, UserHandlerOK, HandlerOK, Lambda, LambdaNames, Kinds
  <2> QED BY <1>1, <1>9, <2>1, UserQueueTail, UserQueueAppend
<1>10. ASSUME NEW cb \in 0 .. MaxConnects, NEW ok, InvokeConnectCallback(cb, ok)
       PROVE  answers' \in [1 .. MaxConnects -> Nat]
  <2>1. CASE cb = 0
    BY <1>1, <1>10, <2>1 DEF InvokeConnectCallback
  <2>2. CASE cb # 0
    <3>1. cb \in 1 .. MaxConnects
      BY <2>2
    <3>2. answers' = [answers EXCEPT ![cb] = answers[cb] + 1]
      BY <1>10, <2>2 DEF InvokeConnectCallback
    <3> QED BY <1>1, <3>1, <3>2
  <2> QED BY <2>1, <2>2
<1>11. \A kind \in Kinds, gen \in 0 .. disconnectGen, arg \in Nat :
         Op(kind, gen, arg) \in Operations /\ Op(kind, gen, arg).gen = gen
  BY <1>1 DEF Op, Operations
<1>12. ASSUME NEW q \in Seq(1 .. MaxCalls), q # << >>
       PROVE  \A op \in WriteOf(q) : op \in Operations /\ op.gen \in 0 .. disconnectGen
  <2>1. Head(q) \in Nat
    BY <1>12
  <2> QED BY <1>1, <1>11, <2>1 DEF WriteOf, Kinds
<1> HIDE DEF TypeInv
<1>13. CASE StrandStep /\ UNCHANGED userVars
  <2>1. CASE ConnectHandler
    <3>1. /\ strand # << >> /\ Head(strand).arg \in 1 .. MaxConnects /\ strand' = Tail(strand)
      BY <1>9, <2>1 DEF ConnectHandler, Running, UserHandlerOK, HandlerOK
    <3>2. CASE isConnected \/ isConnecting
      <4>1. /\ InvokeConnectCallback(Head(strand).arg, FALSE)
            /\ UNCHANGED <<connVars, genVars, disconnectRequested, ops, writeVars, messages>>
        BY <2>1, <3>2 DEF ConnectHandler
      <4>2. Head(strand).arg \in 0 .. MaxConnects
        BY <3>1
      <4>3. answers' \in [1 .. MaxConnects -> Nat]
        BY <1>10, <4>1, <4>2
      <4> QED BY <1>1, <1>9, <1>13, <3>1, <4>1, <4>3 DEF connVars, genVars, writeVars, userVars
    <3>3. CASE ~(isConnected \/ isConnecting)
      <4>1. /\ BeginAttempt(Head(strand).arg) /\ UNCHANGED <<owner, answers, writeVars, messages>>
        BY <2>1, <3>3 DEF ConnectHandler
      <4>2. ops' = ops \cup {Op("resolve", disconnectGen, 0)} /\ activeGen' = disconnectGen
            /\ disconnectGen' = disconnectGen
        BY <4>1 DEF BeginAttempt, Generation
      <4>3. Op("resolve", disconnectGen, 0) \in Operations /\ Op("resolve", disconnectGen, 0).gen = disconnectGen
        BY <1>1, <1>11 DEF Kinds
      <4>4. ops' \subseteq Operations /\ \A op \in ops' : op.gen \in 0 .. disconnectGen
        BY <1>1, <4>2, <4>3
      <4>5. /\ disconnectRequested' = FALSE /\ isConnecting' = TRUE /\ isConnected' = isConnected
            /\ pendingCallback' = Head(strand).arg
        BY <4>1 DEF BeginAttempt
      <4>6. pendingCallback' \in 0 .. MaxConnects /\ activeGen' \in 0 .. disconnectGen'
        BY <1>1, <3>1, <4>2, <4>5
      <4> QED BY <1>1, <1>9, <1>13, <3>1, <4>1, <4>2, <4>4, <4>5, <4>6 DEF writeVars, userVars
    <3> QED BY <3>2, <3>3
  <2>2. CASE SendHandler
    <3>1. /\ strand # << >> /\ Head(strand).arg \in 1 .. MaxCalls /\ strand' = Tail(strand)
          /\ UNCHANGED <<connVars, genVars, disconnectRequested, answers, messages, userVars>>
      BY <1>9, <1>13, <2>2 DEF SendHandler, Running, UserHandlerOK, HandlerOK
    <3>2. CASE IsStopped
      BY <1>1, <1>9, <2>2, <3>1, <3>2 DEF SendHandler, connVars, genVars, writeVars, userVars
    <3>3. CASE ~IsStopped
      <4>1. /\ writeQueue' = Append(writeQueue, Head(strand).arg) /\ isWriting' = TRUE
            /\ ops' = ops \/ ops' = ops \cup WriteOf(writeQueue')
        BY <2>2, <3>3 DEF SendHandler
      <4>2. writeQueue' \in Seq(1 .. MaxCalls) /\ writeQueue' # << >>
        <5> DEFINE frame == Head(strand).arg
        <5>1. frame \in 1 .. MaxCalls /\ writeQueue' = Append(writeQueue, frame)
          BY <3>1, <4>1
        <5>2. \A q \in Seq(1 .. MaxCalls), x \in 1 .. MaxCalls :
                Append(q, x) \in Seq(1 .. MaxCalls) /\ Append(q, x) # << >>
          OBVIOUS
        <5> HIDE DEF frame
        <5> QED BY <1>1, <5>1, <5>2, Zenon
      <4>3. ops' \subseteq Operations /\ \A op \in ops' : op.gen \in 0 .. disconnectGen
        BY <1>1, <1>12, <4>1, <4>2
      <4> QED BY <1>1, <1>9, <3>1, <4>1, <4>2, <4>3 DEF connVars, genVars, userVars
    <3> QED BY <3>2, <3>3
  <2>3. CASE DisconnectHandler
    <3>1. strand # << >> /\ strand' = Tail(strand) /\ disconnectGen' = disconnectGen + 1
          /\ UNCHANGED <<activeGen, disconnectRequested, ops, messages, userVars>>
      BY <1>13, <2>3 DEF DisconnectHandler, Running
    <3>2. UserQueueOK(strand', disconnectGen')
      <4>1. \A x : UserHandlerOK(x, disconnectGen) => UserHandlerOK(x, disconnectGen + 1)
        BY <1>1 DEF UserHandlerOK, HandlerOK
      <4> QED BY <1>9, <3>1, <4>1 DEF UserQueueOK
    <3>3. \A op \in ops' : op.gen \in 0 .. disconnectGen'
      BY <1>1, <3>1
    <3>4. answers' \in [1 .. MaxConnects -> Nat]
      BY <1>1, <1>10, <2>3 DEF DisconnectHandler
    <3>5. /\ isConnected' \in BOOLEAN /\ isConnecting' \in BOOLEAN /\ pendingCallback' \in 0 .. MaxConnects
          /\ writeQueue' \in Seq(1 .. MaxCalls) /\ isWriting' \in BOOLEAN
      <4>1. \/ /\ isConnected' = FALSE /\ isConnecting' = FALSE /\ pendingCallback' = 0
               /\ writeQueue' = << >> /\ isWriting' = FALSE
            \/ UNCHANGED <<isConnected, isConnecting, pendingCallback, writeQueue, isWriting>>
        BY <2>3 DEF DisconnectHandler, connVars, writeVars
      <4>2. << >> \in Seq(1 .. MaxCalls) /\ 0 \in 0 .. MaxConnects
        OBVIOUS
      <4> QED BY <1>1, <4>1, <4>2
    <3> QED BY <1>1, <3>1, <3>2, <3>3, <3>4, <3>5 DEF userVars
  <2>4. CASE ResolveHandler \/ ConnectionHandler
    <3>1. /\ strand # << >> /\ Head(strand).op.gen \in 0 .. disconnectGen /\ strand' = Tail(strand)
          /\ UNCHANGED <<genVars, disconnectRequested, writeVars, messages, userVars>>
      BY <1>9, <1>13, <2>4 DEF ResolveHandler, ConnectionHandler, Running, UserHandlerOK, HandlerOK, Kinds
    <3> DEFINE gen == Head(strand).op.gen
    <3>2. \/ UNCHANGED <<connVars, ops, owner, answers>>
          \/ FailConnect /\ UNCHANGED ops
          \/ ops' = ops \cup {Op("connect", gen, 0)} /\ UNCHANGED <<connVars, owner, answers>>
          \/ Connected(gen)
      BY <2>4 DEF ResolveHandler, ConnectionHandler
    <3>3. ops' = ops \/ ops' = ops \cup {Op("connect", gen, 0)} \/ ops' = ops \cup {Op("read", gen, 0)}
      BY <3>2 DEF Connected
    <3>4. \A kind \in {"connect", "read"} :
            Op(kind, gen, 0) \in Operations /\ Op(kind, gen, 0).gen \in 0 .. disconnectGen
      BY <1>11, <3>1 DEF Kinds
    <3>5. ops' \subseteq Operations /\ \A op \in ops' : op.gen \in 0 .. disconnectGen
      BY <1>1, <3>3, <3>4
    <3>6. /\ isConnected' \in BOOLEAN /\ isConnecting' \in BOOLEAN /\ pendingCallback' \in 0 .. MaxConnects
          /\ answers' \in [1 .. MaxConnects -> Nat]
      <4>1. \/ UNCHANGED <<isConnected, isConnecting, pendingCallback, answers>>
            \/ /\ isConnected' \in BOOLEAN /\ isConnecting' = FALSE /\ pendingCallback' = 0
               /\ \E ok \in BOOLEAN : InvokeConnectCallback(pendingCallback, ok)
        BY <3>2 DEF FailConnect, Connected, connVars
      <4>2. answers' \in [1 .. MaxConnects -> Nat]
        BY <1>1, <1>10, <4>1
      <4>3. 0 \in 0 .. MaxConnects
        OBVIOUS
      <4> QED BY <1>1, <4>1, <4>2, <4>3
    <3> QED BY <1>1, <1>9, <3>1, <3>5, <3>6 DEF genVars, writeVars, userVars
  <2>5. CASE ReadHandler
    <3>1. /\ strand # << >>
          /\ strand' = Tail(strand) \/ strand' = Append(Tail(strand), DisconnectLambda)
          /\ UNCHANGED <<connVars, genVars, writeVars, answers, messages, userVars>>
          /\ ops' = ops \/ ops' = ops \cup {Op("read", activeGen, 0)}
          /\ disconnectRequested' \in BOOLEAN
      BY <1>1, <1>13, <2>5 DEF ReadHandler, Running, DisconnectFrom
    <3>2. Op("read", activeGen, 0) \in Operations /\ Op("read", activeGen, 0).gen \in 0 .. disconnectGen
      BY <1>1, <1>11 DEF Kinds
    <3>3. ops' \subseteq Operations /\ \A op \in ops' : op.gen \in 0 .. disconnectGen
      BY <1>1, <3>1, <3>2
    <3> QED BY <1>1, <1>9, <3>1, <3>3 DEF connVars, genVars, writeVars, userVars
  <2>6. CASE WriteHandler
    <3>1. /\ strand # << >>
          /\ strand' = Tail(strand) \/ strand' = Append(Tail(strand), DisconnectLambda)
          /\ UNCHANGED <<connVars, genVars, answers, messages, userVars>>
          /\ disconnectRequested' \in BOOLEAN
      BY <1>1, <1>13, <2>6 DEF WriteHandler, Running, DisconnectFrom
    <3>2. \/ UNCHANGED <<writeVars, ops>>
          \/ /\ writeQueue' = Written(Head(strand).op.arg) /\ isWriting' \in BOOLEAN
             /\ ops' = ops \/ (writeQueue' # << >> /\ ops' = ops \cup WriteOf(writeQueue'))
      BY <1>1, <2>6 DEF WriteHandler
    <3>3. writeQueue' \in Seq(1 .. MaxCalls) /\ isWriting' \in BOOLEAN
      <4>1. writeQueue' = writeQueue \/ (writeQueue # << >> /\ writeQueue' = Tail(writeQueue))
        BY <3>2 DEF Written, writeVars
      <4>2. writeQueue # << >> => Tail(writeQueue) \in Seq(1 .. MaxCalls)
        BY <1>1
      <4>3. isWriting' \in BOOLEAN
        BY <1>1, <3>2 DEF writeVars
      <4> QED BY <1>1, <4>1, <4>2, <4>3
    <3>4. ops' \subseteq Operations /\ \A op \in ops' : op.gen \in 0 .. disconnectGen
      BY <1>1, <1>12, <3>2, <3>3
    <3> QED BY <1>1, <1>9, <3>1, <3>3, <3>4 DEF connVars, genVars, userVars
  <2> QED BY <1>13, <2>1, <2>2, <2>3, <2>4, <2>5, <2>6 DEF StrandStep
<1>14. CASE NetworkStep /\ UNCHANGED userVars
  <2>1. ASSUME NEW op \in ops, NEW ok \in BOOLEAN, NEW msg \in {"none", "message"},
               strand' = Append(strand, Completion(op, ok, msg))
        PROVE  UserQueueOK(strand', disconnectGen)
    BY <1>1, <2>1, PostedHandlers, UserQueueAppend
  <2>2. PICK op \in ops : (\E ok \in BOOLEAN : OpCompletes(op, ok)) \/ ReadBrings(op, "message")
    BY <1>14 DEF NetworkStep
  <2>3. \E ok \in BOOLEAN, msg \in {"none", "message"} : strand' = Append(strand, Completion(op, ok, msg))
    BY <2>2 DEF OpCompletes, ReadBrings
  <2>4. UserQueueOK(strand', disconnectGen)
    BY <2>1, <2>3
  <2>5. /\ ops' = ops \ {op} /\ messages' \in 0 .. MaxMessages
        /\ UNCHANGED <<connVars, genVars, disconnectRequested, writeVars, answers>>
    <3>1. CASE \E ok \in BOOLEAN : OpCompletes(op, ok)
      BY <1>1, <3>1 DEF OpCompletes
    <3>2. CASE ReadBrings(op, "message")
      BY <1>1, <3>2 DEF ReadBrings
    <3> QED BY <2>2, <3>1, <3>2
  <2> QED BY <1>1, <1>14, <2>4, <2>5 DEF connVars, genVars, writeVars, userVars
<1> QED BY <1>5, <1>6, <1>7, <1>8, <1>13, <1>14 DEF UserNext


-----------------------------------------------------------------------------
(* Callers in any order: the connection *)

ConnectionInv == TypeInv /\ Core(disconnecting)

\* What the types of this section mean for the connection.
LEMMA TypedQueue ==
  ASSUME NEW q, NEW g, UserQueueOK(q, g)
  PROVE  QueueOK(q, g)
  BY DEF UserQueueOK, UserHandlerOK, QueueOK, IsQueue

\* A client that was just constructed satisfies the invariant.
LEMMA ConnectionInit == UserInit => ConnectionInv
PROOF
<1> SUFFICES ASSUME UserInit
             PROVE  ConnectionInv
  OBVIOUS
<1>1. TypeOK
  <2>1. {isConnected, isConnecting, disconnectRequested, isWriting, disconnecting} \subseteq BOOLEAN
    BY DEF UserInit, TcpInit
  <2>2. /\ writeQueue \in Seq(1 .. MaxCalls) /\ DOMAIN strand = {}
        /\ answers \in [1 .. MaxConnects -> Nat] /\ ops = {}
    BY DEF UserInit, TcpInit
  <2>3. /\ disconnectGen \in Nat /\ activeGen \in 0 .. disconnectGen /\ pendingCallback \in 0 .. MaxConnects
        /\ messages \in 0 .. MaxMessages /\ calls \in 0 .. MaxCalls /\ connects \in 0 .. MaxConnects
    BY TcpClientAssumption DEF UserInit, TcpInit
  <2> QED BY <2>1, <2>2, <2>3 DEF TypeOK
<1>2. TypeInv
  BY <1>1 DEF UserInit, TcpInit, TypeInv, UserQueueOK
<1>3. \A K : Idle(K)
  BY DEF UserInit, TcpInit, Idle, None, UnderWay, Completed
<1>4. \A K : Single(K)
  BY DEF UserInit, TcpInit, Single, AtMostOne, UnderWay, Completed
<1>5. HandlersInv
  <2>1. QueueOK(strand, disconnectGen)
    BY <1>2, TypedQueue DEF TypeInv
  <2> QED BY <2>1 DEF HandlersInv, UserInit, TcpInit
<1> QED BY <1>2, <1>3, <1>4, <1>5 DEF ConnectionInv, Core, FlagInv, LiveInv, ServedInv, UserInit, TcpInit

\* Every step keeps the flags in agreement with the operations.
LEMMA ConnectionNext == ConnectionInv /\ [UserNext]_vars => ConnectionInv'
PROOF
<1> SUFFICES ASSUME ConnectionInv, [UserNext]_vars
             PROVE  ConnectionInv'
  OBVIOUS
<1>1. /\ TypeInv /\ TypeInv' /\ Core(disconnecting) /\ IsQueue(strand) /\ IsQueue(strand')
      /\ disconnectRequested' \in BOOLEAN
  <2>1. TypeInv /\ TypeInv' /\ Core(disconnecting)
    BY TypeNext DEF ConnectionInv
  <2> QED BY <2>1, TypedQueue DEF TypeInv, TypeOK, QueueOK
<1>2. PICK d : d = disconnecting
  OBVIOUS
<1>3. PICK e : e = disconnecting'
  OBVIOUS
<1>4. Core(d)
  BY <1>1, <1>2
<1>5. SUFFICES Core(e)'
  BY <1>1, <1>3 DEF ConnectionInv, Core, FlagInv, ServedInv, DisconnectPending
<1>6. \A h, arg : Lambda(h, arg).h = h
  BY DEF Lambda
\* A lambda is posted.
<1>7. ASSUME NEW h \in LambdaNames, NEW arg, strand' = Append(strand, Lambda(h, arg))
      PROVE  Posted(strand, strand') /\ Waits(strand', h)
  <2>1. Posted(strand, strand')
    BY <1>1, <1>6, <1>7, LambdaPosted
  <2>2. /\ DOMAIN strand' = DOMAIN strand \cup {Len(strand) + 1}
        /\ strand'[Len(strand) + 1] = Lambda(h, arg)
    BY <1>1, <1>7, AppendPlaces
  <2> QED BY <1>6, <2>1, <2>2 DEF Waits
<1>8. CASE UNCHANGED vars
  <2>1. Posted(strand, strand') /\ d = e
    BY <1>1, <1>2, <1>3, <1>8, LambdaPosted DEF vars, tcpVars, userVars
  <2> QED BY <1>1, <1>4, <1>8, <2>1, CorePost DEF vars, tcpVars, connVars, genVars, writeVars
<1>9. CASE Connect \/ Send
  <2>1. Posted(strand, strand')
    BY <1>7, <1>9 DEF Connect, Send, LambdaNames
  <2>2. d = e
    BY <1>2, <1>3, <1>9 DEF Connect, Send
  <2> QED BY <1>1, <1>4, <1>9, <2>1, <2>2, CorePost DEF Connect, Send, connVars, genVars, writeVars
<1>10. CASE DisconnectStore \/ TakeEvent
  <2>1. Posted(strand, strand')
    BY <1>1, <1>10, LambdaPosted DEF DisconnectStore, TakeEvent
  <2>2. e = TRUE \/ (d = e /\ UNCHANGED disconnectRequested)
    BY <1>2, <1>3, <1>10 DEF DisconnectStore, TakeEvent, userVars
  <2> QED BY <1>1, <1>4, <1>10, <2>1, <2>2, CorePost DEF DisconnectStore, TakeEvent, connVars, genVars, writeVars
<1>11. CASE DisconnectPost
  <2>1. Posted(strand, strand') /\ Waits(strand', "disconnect")
    BY <1>7, <1>11 DEF DisconnectPost, DisconnectLambda, LambdaNames
  <2> QED BY <1>1, <1>4, <1>11, <2>1, CorePost DEF DisconnectPost, connVars, genVars, writeVars
<1>12. CASE StrandStep /\ UNCHANGED userVars
  <2>1. d = e
    BY <1>2, <1>3, <1>12 DEF userVars
  <2> QED BY <1>4, <1>12, <2>1, CoreStrand
<1>13. CASE NetworkStep /\ UNCHANGED userVars
  <2>1. PICK op \in ops : (\E ok \in BOOLEAN : OpCompletes(op, ok)) \/ ReadBrings(op, "message")
    BY <1>13 DEF NetworkStep
  <2>2. PICK ok, msg : strand' = Append(strand, Completion(op, ok, msg))
    BY <2>1 DEF OpCompletes, ReadBrings
  <2>3. Completion(op, ok, msg).h = op.kind /\ Completion(op, ok, msg).op = op
    BY DEF Completion
  <2>4. d = e
    BY <1>2, <1>3, <1>13 DEF userVars
  <2>5. /\ ops' = ops \ {op}
        /\ UNCHANGED <<isConnected, isConnecting, disconnectGen, activeGen, disconnectRequested,
                       writeQueue, isWriting>>
    BY <2>1 DEF OpCompletes, ReadBrings, connVars, genVars, writeVars
  <2> QED BY <1>4, <2>2, <2>3, <2>4, <2>5, CoreNetwork
<1> QED BY <1>8, <1>9, <1>10, <1>11, <1>12, <1>13, Zenon DEF UserNext

\* For any number of calls in any order the flags, the generations and the
\* operations of the connection fit together.
THEOREM ConnectionCorrect == UserSpec => []ConnectionInv
  BY ConnectionInit, ConnectionNext, PTL DEF UserSpec

\* Counting: operations of kinds in K, when there is at most one.
LEMMA CountOne ==
  ASSUME NEW S, \A a, b \in S : a = b
  PROVE  /\ S # {} => Cardinality(S) = 1
         /\ S = {} => Cardinality(S) = 0
PROOF
<1>1. CASE S = {}
  BY <1>1, FS_EmptySet
<1>2. CASE S # {}
  <2>1. PICK a : a \in S
    BY <1>2
  <2>2. S = {a}
    BY <2>1
  <2> QED BY <1>2, <2>2, FS_Singleton
<1> QED BY <1>1, <1>2

\* Live(), said with the sets of the invariant.
LEMMA CountLive ==
  ASSUME NEW kind, Single({kind})
  PROVE  /\ Live(kind) = 0 <=> Idle({kind})
         /\ Live(kind) = 1 <=> ~Idle({kind})
         /\ Live(kind) \in {0, 1}
PROOF
<1> DEFINE O == UnderWay(ops, disconnectGen, {kind})
           C == Completed(strand, disconnectGen, {kind})
<1>1. Live(kind) = Cardinality(O) + Cardinality(C)
  <2>1. O = {op \in ops : op.kind = kind /\ op.gen = disconnectGen}
    BY DEF UnderWay
  <2>2. C = {k \in DOMAIN strand : strand[k].h = kind /\ strand[k].op.gen = disconnectGen}
    BY DEF Completed
  <2> QED BY <2>1, <2>2, Zenon DEF Live
<1>2. /\ \A a, b \in O : a = b
      /\ \A a, b \in C : a = b
      /\ O = {} \/ C = {}
  BY DEF Single, AtMostOne
<1>3. Idle({kind}) <=> O = {} /\ C = {}
  BY DEF Idle, None
<1> HIDE DEF O, C
<1>4. /\ O # {} => Cardinality(O) = 1
      /\ O = {} => Cardinality(O) = 0
      /\ C # {} => Cardinality(C) = 1
      /\ C = {} => Cardinality(C) = 0
  BY <1>2, CountOne
<1> QED BY <1>1, <1>2, <1>3, <1>4

\* On the open socket at most one read, one write and one attempt to connect are
\* under way, for any number of connects, sends and disconnects, however they race
\* with completions of connections that were given up (the generations,
\* is_writing_ and is_connecting_ of tcp_client.cpp).
THEOREM OneOperationCorrect == UserSpec => []OneOperationAtATime
PROOF
<1>1. ConnectionInv => OneOperationAtATime
  <2> SUFFICES ASSUME ConnectionInv
               PROVE  OneOperationAtATime
    OBVIOUS
  <2>1. Single({"read"}) /\ Single({"write"}) /\ Single(AttemptKinds)
    BY DEF ConnectionInv, Core, LiveInv, KindSets
  <2>2. Single({"resolve"}) /\ Single({"connect"}) /\ (Idle({"resolve"}) \/ Idle({"connect"}))
    <3> DEFINE O(K) == UnderWay(ops, disconnectGen, K)
               C(K) == Completed(strand, disconnectGen, K)
    <3>1. ASSUME NEW kind \in AttemptKinds
          PROVE  O({kind}) \subseteq O(AttemptKinds) /\ C({kind}) \subseteq C(AttemptKinds)
      BY DEF UnderWay, Completed
    <3>2. /\ \A a \in O({"resolve"}), b \in O({"connect"}) : a # b
          /\ \A j \in C({"resolve"}), k \in C({"connect"}) : j # k
      BY DEF UnderWay, Completed
    <3>3. /\ O({"resolve"}) \subseteq O(AttemptKinds) /\ O({"connect"}) \subseteq O(AttemptKinds)
          /\ C({"resolve"}) \subseteq C(AttemptKinds) /\ C({"connect"}) \subseteq C(AttemptKinds)
      BY <3>1 DEF AttemptKinds
    <3> HIDE DEF O, C
    <3>4. /\ \A a, b \in O(AttemptKinds) : a = b
          /\ \A j, k \in C(AttemptKinds) : j = k
          /\ O(AttemptKinds) = {} \/ C(AttemptKinds) = {}
      BY <2>1 DEF Single, AtMostOne, O, C
    <3>5. /\ \A a, b \in O({"resolve"}) : a = b
          /\ \A a, b \in O({"connect"}) : a = b
          /\ \A a, b \in C({"resolve"}) : a = b
          /\ \A a, b \in C({"connect"}) : a = b
          /\ O({"resolve"}) = {} \/ C({"resolve"}) = {}
          /\ O({"connect"}) = {} \/ C({"connect"}) = {}
      BY <3>3, <3>4
    <3>6. (O({"resolve"}) = {} /\ C({"resolve"}) = {}) \/ (O({"connect"}) = {} /\ C({"connect"}) = {})
      BY <3>2, <3>3, <3>4
    <3> QED BY <3>5, <3>6 DEF Single, AtMostOne, Idle, None, O, C
  <2> QED BY <2>1, <2>2, CountLive DEF OneOperationAtATime
<1> QED BY <1>1, ConnectionCorrect, PTL

\* When the strand has run dry and nobody is disconnecting, an open connection is
\* being read from and whatever waits to be sent is being written.
THEOREM ServedCorrect == UserSpec => []ConnectionIsServed
PROOF
<1>1. ConnectionInv => ConnectionIsServed
  <2> SUFFICES ASSUME ConnectionInv, Quiet, isConnected
               PROVE  /\ Live("read") = 1
                      /\ isWriting <=> Live("write") = 1
                      /\ writeQueue # << >> => isWriting
    BY DEF ConnectionIsServed
  <2>1. ~DisconnectPending(disconnecting)
    BY DEF Quiet, DisconnectPending, Waits
  <2>2. Single({"read"}) /\ Single({"write"})
    BY DEF ConnectionInv, Core, LiveInv, KindSets
  <2>3. ~Idle({"read"}) /\ (isWriting <=> ~Idle({"write"})) /\ (writeQueue # << >> => isWriting)
    BY <2>1 DEF ConnectionInv, Core, ServedInv, LiveInv
  <2> QED BY <2>2, <2>3, CountLive
<1> QED BY <1>1, ConnectionCorrect, PTL


-----------------------------------------------------------------------------
(* The callbacks of connect() *)

\* The places of the lambda that carries callback cb.
Carried(q, cb) == {k \in DOMAIN q : q[k].h = "connectCall" /\ q[k].arg = cb}

Waiting(q, cb) == Carried(q, cb) # {}

OnlyOnce(q, cb) == \A j, k \in Carried(q, cb) : j = k

\* A callback that was handed to connect() is at one place: with the lambda on the
\* strand, in pending_connect_callback_, or called.
Placed(cb) ==
  \/ Waiting(strand, cb) /\ pendingCallback # cb /\ answers[cb] = 0
  \/ ~Waiting(strand, cb) /\ pendingCallback = cb /\ answers[cb] = 0
  \/ ~Waiting(strand, cb) /\ pendingCallback # cb /\ answers[cb] = 1

CallbackInv ==
  /\ pendingCallback # 0 <=> isConnecting
  /\ \A cb \in 1 .. MaxConnects :
       /\ OnlyOnce(strand, cb)
       /\ IF cb <= connects THEN Placed(cb)
                            ELSE ~Waiting(strand, cb) /\ pendingCallback # cb /\ answers[cb] = 0

\* No callback is called twice, and none is forgotten: when no attempt is under way
\* and no call waits on the strand every callback has been called.
CallbacksKept ==
  /\ \A cb \in 1 .. MaxConnects : answers[cb] <= 1
  /\ strand = << >> /\ ~isConnecting => \A cb \in 1 .. connects : answers[cb] = 1

\* What posting a handler does to the places of a callback.
LEMMA CarriedAppend ==
  ASSUME NEW q \in Seq(Handlers), NEW x, NEW cb
  PROVE  /\ ~(x.h = "connectCall" /\ x.arg = cb) =>
              /\ Waiting(Append(q, x), cb) <=> Waiting(q, cb)
              /\ OnlyOnce(Append(q, x), cb) <=> OnlyOnce(q, cb)
         /\ x.h = "connectCall" /\ x.arg = cb =>
              /\ Waiting(Append(q, x), cb)
              /\ ~Waiting(q, cb) => OnlyOnce(Append(q, x), cb)
PROOF
<1> DEFINE p == Append(q, x)
<1>1. /\ DOMAIN p = 1 .. (Len(q) + 1) /\ Len(q) \in Nat /\ DOMAIN q = 1 .. Len(q)
      /\ \A k \in DOMAIN q : p[k] = q[k]
      /\ p[Len(q) + 1] = x
  OBVIOUS
<1> HIDE DEF p
<1>2. ~(x.h = "connectCall" /\ x.arg = cb) => Carried(p, cb) = Carried(q, cb)
  BY <1>1 DEF Carried
<1>3. x.h = "connectCall" /\ x.arg = cb => Carried(p, cb) = Carried(q, cb) \cup {Len(q) + 1}
  BY <1>1 DEF Carried
<1> QED BY <1>2, <1>3 DEF Waiting, OnlyOnce, p

\* What taking the first handler does to them.
LEMMA CarriedTail ==
  ASSUME NEW q \in Seq(Handlers), q # << >>, NEW cb, OnlyOnce(q, cb)
  PROVE  /\ OnlyOnce(Tail(q), cb)
         /\ ~(Head(q).h = "connectCall" /\ Head(q).arg = cb)
              => (Waiting(Tail(q), cb) <=> Waiting(q, cb))
         /\ Head(q).h = "connectCall" /\ Head(q).arg = cb
              => Waiting(q, cb) /\ ~Waiting(Tail(q), cb)
PROOF
<1> DEFINE p == Tail(q)
<1>1. /\ Len(q) \in Nat /\ Len(q) >= 1 /\ DOMAIN q = 1 .. Len(q)
      /\ DOMAIN p = 1 .. (Len(q) - 1)
      /\ \A k \in DOMAIN p : p[k] = q[k + 1] /\ k + 1 \in DOMAIN q
      /\ Head(q) = q[1] /\ 1 \in DOMAIN q
  OBVIOUS
<1> HIDE DEF p
<1>2. \A k \in Carried(p, cb) : k \in Nat /\ k >= 1 /\ k + 1 \in Carried(q, cb)
  BY <1>1 DEF Carried
<1>3. \A k \in Carried(q, cb) : k = 1 \/ k - 1 \in Carried(p, cb)
  <2> SUFFICES ASSUME NEW k \in Carried(q, cb), k # 1
               PROVE  k - 1 \in Carried(p, cb)
    OBVIOUS
  <2>1. k \in 1 .. Len(q) /\ q[k].h = "connectCall" /\ q[k].arg = cb
    BY <1>1 DEF Carried
  <2>2. k - 1 \in DOMAIN p /\ (k - 1) + 1 = k
    BY <1>1, <2>1
  <2>3. p[k - 1] = q[k]
    BY <1>1, <2>2
  <2> QED BY <2>1, <2>2, <2>3 DEF Carried
<1>4. 1 \in Carried(q, cb) <=> Head(q).h = "connectCall" /\ Head(q).arg = cb
  BY <1>1 DEF Carried
<1>5. OnlyOnce(p, cb)
  BY <1>2 DEF OnlyOnce
<1>6. 1 \notin Carried(q, cb) => (Waiting(p, cb) <=> Waiting(q, cb))
  BY <1>2, <1>3 DEF Waiting
<1>7. 1 \in Carried(q, cb) => Waiting(q, cb) /\ ~Waiting(p, cb)
  BY <1>2 DEF Waiting, OnlyOnce
<1> QED BY <1>4, <1>5, <1>6, <1>7 DEF p

\* Every step keeps each callback at one place.
LEMMA CallbackNext == ConnectionInv /\ CallbackInv /\ [UserNext]_vars => CallbackInv'
PROOF
<1> SUFFICES ASSUME ConnectionInv, CallbackInv, [UserNext]_vars
             PROVE  CallbackInv'
  OBVIOUS
<1> USE TcpClientAssumption
<1>1. /\ TypeInv /\ strand \in Seq(Handlers) /\ UserQueueOK(strand, disconnectGen)
      /\ isConnected \in BOOLEAN /\ isConnecting \in BOOLEAN
      /\ pendingCallback \in 0 .. MaxConnects /\ connects \in 0 .. MaxConnects
      /\ answers \in [1 .. MaxConnects -> Nat]
      /\ ~(isConnected /\ isConnecting)
  BY DEF ConnectionInv, Core, TypeInv, TypeOK, UserQueueOK, FlagInv
<1>2. /\ pendingCallback # 0 <=> isConnecting
      /\ \A cb \in 1 .. MaxConnects :
           /\ OnlyOnce(strand, cb)
           /\ cb <= connects => Placed(cb)
           /\ ~(cb <= connects) => ~Waiting(strand, cb) /\ pendingCallback # cb /\ answers[cb] = 0
  BY DEF CallbackInv
<1> DEFINE Kept(cb) == /\ OnlyOnce(strand', cb)
                       /\ cb <= connects' => Placed(cb)'
                       /\ ~(cb <= connects') => ~Waiting(strand', cb) /\ pendingCallback' # cb /\ answers'[cb] = 0
           Goal == (pendingCallback' # 0 <=> isConnecting') /\ \A cb \in 1 .. MaxConnects : Kept(cb)
<1>3. SUFFICES Goal
  BY DEF CallbackInv
<1> DEFINE Same == \A cb \in 1 .. MaxConnects :
                     OnlyOnce(strand', cb) /\ (Waiting(strand', cb) <=> Waiting(strand, cb))
           Settled == /\ pendingCallback' = 0 /\ isConnecting' = FALSE
                      /\ \/ pendingCallback = 0 /\ UNCHANGED answers
                         \/ pendingCallback # 0 /\ answers' = [answers EXCEPT ![pendingCallback] = @ + 1]
\* The handlers other than those of connect() either leave the callbacks where
\* they are or call the one that is pending.
<1>4. ASSUME Same, UNCHANGED connects, UNCHANGED <<pendingCallback, isConnecting, answers>> \/ Settled
      PROVE  Goal
  <2>1. CASE UNCHANGED <<pendingCallback, isConnecting, answers>>
    BY <1>1, <1>2, <1>4, <2>1 DEF Placed
  <2>2. CASE Settled
    <3>1. CASE pendingCallback = 0
      BY <1>1, <1>2, <1>4, <2>2, <3>1 DEF Placed
    <3>2. CASE pendingCallback # 0
      <4>1. pendingCallback \in 1 .. MaxConnects
        BY <1>1, <3>2
      <4>2. /\ answers'[pendingCallback] = answers[pendingCallback] + 1
            /\ \A cb \in 1 .. MaxConnects : cb # pendingCallback => answers'[cb] = answers[cb]
        BY <1>1, <2>2, <3>2, <4>1
      <4>3. pendingCallback <= connects /\ ~Waiting(strand, pendingCallback) /\ answers[pendingCallback] = 0
        BY <1>2, <4>1 DEF Placed
      <4>4. ASSUME NEW cb \in 1 .. MaxConnects
            PROVE  Kept(cb)
        <5>1. CASE cb = pendingCallback
          BY <1>4, <2>2, <4>1, <4>2, <4>3, <5>1 DEF Placed
        <5>2. CASE cb # pendingCallback
          BY <1>2, <1>4, <2>2, <4>2, <5>2 DEF Placed
        <5> QED BY <5>1, <5>2
      <4> QED BY <2>2, <4>4
    <3> QED BY <3>1, <3>2
  <2> QED BY <1>4, <2>1, <2>2
\* Handlers that are taken or posted and carry no callback.
<1>5. ASSUME NEW x, x.h # "connectCall", strand' = Append(strand, x)
      PROVE  Same
  BY <1>1, <1>2, <1>5, CarriedAppend
<1>6. ASSUME strand # << >>, Head(strand).h # "connectCall", strand' = Tail(strand)
      PROVE  Same
  BY <1>1, <1>2, <1>6, CarriedTail
<1>7. ASSUME NEW x, x.h # "connectCall", strand # << >>, Head(strand).h # "connectCall",
             strand' = Append(Tail(strand), x)
      PROVE  Same
  <2> DEFINE q == Tail(strand)
  <2>1. q \in Seq(Handlers)
    BY <1>1, <1>7
  <2>2. \A cb \in 1 .. MaxConnects : OnlyOnce(q, cb) /\ (Waiting(q, cb) <=> Waiting(strand, cb))
    BY <1>1, <1>2, <1>7, CarriedTail
  <2>3. strand' = Append(q, x)
    BY <1>7
  <2> HIDE DEF q
  <2>4. \A cb \in 1 .. MaxConnects : /\ Waiting(Append(q, x), cb) <=> Waiting(q, cb)
                                     /\ OnlyOnce(Append(q, x), cb) <=> OnlyOnce(q, cb)
    BY <1>7, <2>1, CarriedAppend
  <2> QED BY <2>2, <2>3, <2>4, Zenon
<1>8. DisconnectLambda.h = "disconnect"
  BY DEF DisconnectLambda, Lambda
<1>9. ASSUME strand' = strand
      PROVE  Same
  BY <1>2, <1>9
<1>10. ASSUME NEW cb \in 0 .. MaxConnects, NEW ok, InvokeConnectCallback(cb, ok)
       PROVE  \/ cb = 0 /\ UNCHANGED answers
              \/ cb # 0 /\ answers' = [answers EXCEPT ![cb] = @ + 1]
  BY <1>10 DEF InvokeConnectCallback
<1> HIDE DEF Same
<1>11. CASE UNCHANGED vars
  BY <1>4, <1>9, <1>11 DEF vars, tcpVars, connVars, userVars
<1>12. CASE Send \/ DisconnectStore \/ DisconnectPost \/ TakeEvent
  <2>1. UNCHANGED <<pendingCallback, isConnecting, answers, connects>>
    BY <1>12 DEF Send, DisconnectStore, DisconnectPost, TakeEvent, connVars, userVars
  <2>2. strand' = strand \/ \E x : x.h # "connectCall" /\ strand' = Append(strand, x)
    <3>1. \A n : Lambda("sendCall", n).h = "sendCall"
      BY DEF Lambda
    <3> QED BY <1>8, <1>12, <3>1 DEF Send, DisconnectStore, DisconnectPost, TakeEvent
  <2> QED BY <1>4, <1>5, <1>9, <2>1, <2>2
<1>13. CASE NetworkStep /\ UNCHANGED userVars
  <2>1. PICK op \in ops : (\E ok \in BOOLEAN : OpCompletes(op, ok)) \/ ReadBrings(op, "message")
    BY <1>13 DEF NetworkStep
  <2>2. PICK ok \in BOOLEAN, msg \in {"none", "message"} : strand' = Append(strand, Completion(op, ok, msg))
    BY <2>1 DEF OpCompletes, ReadBrings
  <2>3. UNCHANGED <<pendingCallback, isConnecting, answers, connects>>
    BY <1>13, <2>1 DEF OpCompletes, ReadBrings, connVars, userVars
  <2>4. Completion(op, ok, msg).h # "connectCall"
    <3>1. Completion(op, ok, msg).h \in Kinds
      BY <1>1, PostedHandlers
    <3> QED BY <3>1 DEF Kinds
  <2> QED BY <1>4, <1>5, <2>2, <2>3, <2>4
<1>14. CASE (SendHandler \/ ReadHandler \/ WriteHandler) /\ UNCHANGED userVars
  <2>1. /\ strand # << >> /\ Head(strand).h # "connectCall"
        /\ strand' = Tail(strand) \/ strand' = Append(Tail(strand), DisconnectLambda)
        /\ UNCHANGED <<pendingCallback, isConnecting, answers, connects>>
    BY <1>14 DEF SendHandler, ReadHandler, WriteHandler, Running, DisconnectFrom, connVars, userVars
  <2> QED BY <1>4, <1>6, <1>7, <1>8, <2>1
<1>15. CASE (ResolveHandler \/ ConnectionHandler \/ DisconnectHandler) /\ UNCHANGED userVars
  <2>1. strand # << >> /\ Head(strand).h # "connectCall" /\ strand' = Tail(strand) /\ UNCHANGED connects
    BY <1>15 DEF ResolveHandler, ConnectionHandler, DisconnectHandler, Running, userVars
  <2>2. \/ UNCHANGED <<pendingCallback, isConnecting, answers>>
        \/ /\ pendingCallback' = 0 /\ isConnecting' = FALSE
           /\ (\E ok \in BOOLEAN : InvokeConnectCallback(pendingCallback, ok))
                \/ (~isConnecting /\ UNCHANGED answers)
    BY <1>15 DEF ResolveHandler, ConnectionHandler, DisconnectHandler, FailConnect, Connected, connVars
  <2>3. UNCHANGED <<pendingCallback, isConnecting, answers>> \/ Settled
    BY <1>1, <1>2, <1>10, <2>2
  <2> QED BY <1>4, <1>6, <2>1, <2>3
<1>16. CASE Connect
  <2> DEFINE n == connects + 1
             x == Lambda("connectCall", n)
  <2>1. /\ n \in 1 .. MaxConnects /\ connects' = n
        /\ strand' = Append(strand, x) /\ UNCHANGED <<pendingCallback, isConnecting, answers>>
    BY <1>1, <1>16 DEF Connect, connVars
  <2>2. x.h = "connectCall" /\ x.arg = n
    BY DEF Lambda
  <2>3. ~(n <= connects) /\ \A cb \in 1 .. MaxConnects : cb <= n <=> cb <= connects \/ cb = n
    BY <1>1
  <2> HIDE DEF n, x
  <2>4. ~Waiting(strand, n) /\ pendingCallback # n /\ answers[n] = 0
    BY <1>2, <2>1, <2>3
  <2>5. Waiting(strand', n) /\ OnlyOnce(strand', n)
    BY <1>1, <2>1, <2>2, <2>4, CarriedAppend
  <2>6. \A cb \in 1 .. MaxConnects :
          cb # n => OnlyOnce(strand', cb) /\ (Waiting(strand', cb) <=> Waiting(strand, cb))
    BY <1>1, <1>2, <2>1, <2>2, CarriedAppend
  <2> QED BY <1>2, <2>1, <2>3, <2>4, <2>5, <2>6 DEF Placed
<1>17. CASE ConnectHandler /\ UNCHANGED userVars
  <2> DEFINE n == Head(strand).arg
  <2>1. strand # << >> /\ Head(strand).h = "connectCall" /\ strand' = Tail(strand) /\ UNCHANGED connects
    BY <1>17 DEF ConnectHandler, Running, userVars
  <2>2. n \in 1 .. MaxConnects
    <3>1. UserHandlerOK(Head(strand), disconnectGen)
      BY <1>1, <2>1, UserQueueTail
    <3> QED BY <2>1, <3>1 DEF UserHandlerOK
  <2>3. \/ UNCHANGED <<pendingCallback, isConnecting>> /\ InvokeConnectCallback(n, FALSE)
        \/ ~isConnecting /\ isConnecting' = TRUE /\ pendingCallback' = n /\ UNCHANGED answers
    BY <1>17 DEF ConnectHandler, BeginAttempt, connVars
  <2>4. Waiting(strand, n) /\ ~Waiting(strand', n) /\ OnlyOnce(strand', n)
    BY <1>1, <1>2, <2>1, <2>2, CarriedTail
  <2>5. \A cb \in 1 .. MaxConnects :
          cb # n => OnlyOnce(strand', cb) /\ (Waiting(strand', cb) <=> Waiting(strand, cb))
    BY <1>1, <1>2, <2>1, CarriedTail
  <2> HIDE DEF n
  <2>6. n <= connects /\ pendingCallback # n /\ answers[n] = 0
    BY <1>2, <2>2, <2>4 DEF Placed
  <2>7. CASE UNCHANGED <<pendingCallback, isConnecting>> /\ InvokeConnectCallback(n, FALSE)
    <3>1. n # 0 /\ n \in 0 .. MaxConnects
      BY <2>2
    <3>2. answers' = [answers EXCEPT ![n] = answers[n] + 1]
      BY <1>10, <2>7, <3>1
    <3>3. answers'[n] = 1 /\ \A cb \in 1 .. MaxConnects : cb # n => answers'[cb] = answers[cb]
      BY <1>1, <2>2, <2>6, <3>2
    <3> QED BY <1>2, <2>1, <2>4, <2>5, <2>6, <2>7, <3>3 DEF Placed
  <2>8. CASE ~isConnecting /\ isConnecting' = TRUE /\ pendingCallback' = n /\ UNCHANGED answers
    <3>1. pendingCallback = 0 /\ n # 0
      BY <1>2, <2>2, <2>8
    <3>2. \A cb \in 1 .. MaxConnects : cb # 0
      OBVIOUS
    <3> QED BY <1>2, <2>1, <2>4, <2>5, <2>6, <2>8, <3>1, <3>2 DEF Placed
  <2> QED BY <2>3, <2>7, <2>8
<1> QED BY <1>11, <1>12, <1>13, <1>14, <1>15, <1>16, <1>17, Zenon DEF UserNext, StrandStep

\* No connect callback is called twice and none is lost, however connect(),
\* disconnect() and the completions of an attempt race: the safety half of
\* EveryConnectAnsweredOnce.
THEOREM CallbacksCorrect == UserSpec => []CallbacksKept
PROOF
<1>1. UserInit => CallbackInv
  <2> SUFFICES ASSUME UserInit
               PROVE  CallbackInv
    OBVIOUS
  <2>1. /\ strand = << >> /\ pendingCallback = 0 /\ isConnecting = FALSE /\ connects = 0
        /\ \A cb \in 1 .. MaxConnects : answers[cb] = 0
    BY DEF UserInit, TcpInit
  <2>2. \A cb : ~Waiting(strand, cb) /\ OnlyOnce(strand, cb)
    BY <2>1 DEF Waiting, OnlyOnce, Carried
  <2> QED BY <2>1, <2>2, TcpClientAssumption DEF CallbackInv
<1>2. ConnectionInv /\ CallbackInv => CallbacksKept
  <2> SUFFICES ASSUME ConnectionInv, CallbackInv
               PROVE  CallbacksKept
    OBVIOUS
  <2>1. connects \in 0 .. MaxConnects
    BY DEF ConnectionInv, TypeInv, TypeOK
  <2>2. \A cb \in 1 .. MaxConnects : answers[cb] <= 1
    BY DEF CallbackInv, Placed
  <2>3. ASSUME strand = << >>, ~isConnecting, NEW cb \in 1 .. connects
        PROVE  answers[cb] = 1
    <3>1. cb \in 1 .. MaxConnects /\ cb <= connects /\ cb # 0
      BY <2>1, TcpClientAssumption
    <3>2. ~Waiting(strand, cb)
      BY <2>3 DEF Waiting, Carried
    <3>3. Placed(cb) /\ pendingCallback = 0
      BY <2>3, <3>1 DEF CallbackInv
    <3> QED BY <3>1, <3>2, <3>3 DEF Placed
  <2> QED BY <2>2, <2>3 DEF CallbacksKept
<1> QED BY <1>1, <1>2, ConnectionInit, ConnectionNext, CallbackNext, PTL DEF UserSpec

-----------------------------------------------------------------------------
(* The controller: what waits on the two strands *)

QueuesOK == IsQueue(strand) /\ IsQueue(owner) /\ \A op \in ops : op.kind \in Kinds

\* The owner's queue has a start() or rejoin().
Restarts(q) == \E k \in DOMAIN q : q[k].what \in {"start", "rejoin"}

\* It has a shutdown() with none of them behind it.
ShutdownLast(q) ==
  \E k \in DOMAIN q : /\ q[k].what = "shutdown"
                      /\ \A j \in DOMAIN q : q[j].what \in {"start", "rejoin"} => j < k

\* The same for the strand of TcpClient: a connect(), and a disconnect() with none
\* behind it.
Connects(q) == \E k \in DOMAIN q : q[k].h = "connectCall"

DisconnectLast(q) ==
  \E k \in DOMAIN q : /\ q[k].h = "disconnect"
                      /\ \A j \in DOMAIN q : q[j].h = "connectCall" => j < k

\* The owner's queue, when something is posted and when something is taken.
LEMMA OwnerQueue ==
  ASSUME NEW q, IsQueue(q)
  PROVE  /\ \A x : x.what \notin {"start", "rejoin"} =>
              /\ Restarts(Append(q, x)) <=> Restarts(q)
              /\ ShutdownLast(q) => ShutdownLast(Append(q, x))
              /\ x.what = "shutdown" => ShutdownLast(Append(q, x))
         /\ q # << >> =>
              /\ ~Restarts(q) => ~Restarts(Tail(q)) /\ Head(q).what \notin {"start", "rejoin"}
              /\ ShutdownLast(q) =>
                   \/ ShutdownLast(Tail(q))
                   \/ Head(q).what = "shutdown" /\ ~Restarts(Tail(q))
PROOF
<1>1. ASSUME NEW x, x.what \notin {"start", "rejoin"}
      PROVE  /\ Restarts(Append(q, x)) <=> Restarts(q)
             /\ ShutdownLast(q) => ShutdownLast(Append(q, x))
             /\ x.what = "shutdown" => ShutdownLast(Append(q, x))
  <2> DEFINE p == Append(q, x)
             n == Len(q) + 1
  <2>1. /\ DOMAIN p = DOMAIN q \cup {n} /\ p[n] = x
        /\ \A k \in DOMAIN q : p[k] = q[k] /\ k \in Nat /\ k < n
    BY AppendPlaces
  <2> HIDE DEF p, n
  <2>2. Restarts(p) <=> Restarts(q)
    BY <1>1, <2>1 DEF Restarts
  <2>3. ShutdownLast(q) => ShutdownLast(p)
    BY <1>1, <2>1 DEF ShutdownLast
  <2>4. x.what = "shutdown" => ShutdownLast(p)
    BY <1>1, <2>1 DEF ShutdownLast
  <2> QED BY <2>2, <2>3, <2>4 DEF p
<1>2. ASSUME q # << >>
      PROVE  /\ ~Restarts(q) => ~Restarts(Tail(q)) /\ Head(q).what \notin {"start", "rejoin"}
             /\ ShutdownLast(q) =>
                  \/ ShutdownLast(Tail(q))
                  \/ Head(q).what = "shutdown" /\ ~Restarts(Tail(q))
  <2> DEFINE p == Tail(q)
  <2>1. /\ \A k \in DOMAIN p : k \in Nat /\ k + 1 \in DOMAIN q /\ p[k] = q[k + 1]
        /\ \A k \in DOMAIN q : k \in Nat /\ (k = 1 \/ (k - 1 \in DOMAIN p /\ p[k - 1] = q[k]))
        /\ 1 \in DOMAIN q /\ q[1] = Head(q)
    BY <1>2, TailPlaces
  <2> HIDE DEF p
  <2>2. ~Restarts(q) => ~Restarts(p) /\ Head(q).what \notin {"start", "rejoin"}
    BY <2>1 DEF Restarts
  <2>3. ASSUME NEW k \in DOMAIN q, q[k].what = "shutdown",
               \A j \in DOMAIN q : q[j].what \in {"start", "rejoin"} => j < k
        PROVE  ShutdownLast(p) \/ (Head(q).what = "shutdown" /\ ~Restarts(p))
    <3>1. CASE k = 1
      <4>1. \A j \in DOMAIN p : p[j].what \notin {"start", "rejoin"}
        BY <2>1, <2>3, <3>1
      <4> QED BY <2>1, <2>3, <3>1, <4>1 DEF Restarts
    <3>2. CASE k # 1
      <4>1. k - 1 \in DOMAIN p /\ p[k - 1].what = "shutdown"
        BY <2>1, <2>3, <3>2
      <4>2. \A j \in DOMAIN p : p[j].what \in {"start", "rejoin"} => j < k - 1
        BY <2>1, <2>3
      <4> QED BY <4>1, <4>2 DEF ShutdownLast
    <3> QED BY <3>1, <3>2
  <2> QED BY <2>2, <2>3 DEF ShutdownLast, p
<1> QED BY <1>1, <1>2

\* The strand of TcpClient, likewise.
LEMMA StrandQueue ==
  ASSUME NEW q, IsQueue(q)
  PROVE  /\ \A x : x.h # "connectCall" =>
              /\ Connects(Append(q, x)) <=> Connects(q)
              /\ DisconnectLast(q) => DisconnectLast(Append(q, x))
              /\ x.h = "disconnect" => DisconnectLast(Append(q, x))
         /\ q # << >> =>
              /\ ~Connects(q) => ~Connects(Tail(q)) /\ Head(q).h # "connectCall"
              /\ DisconnectLast(q) =>
                   \/ DisconnectLast(Tail(q))
                   \/ Head(q).h = "disconnect" /\ ~Connects(Tail(q))
PROOF
<1>1. ASSUME NEW x, x.h # "connectCall"
      PROVE  /\ Connects(Append(q, x)) <=> Connects(q)
             /\ DisconnectLast(q) => DisconnectLast(Append(q, x))
             /\ x.h = "disconnect" => DisconnectLast(Append(q, x))
  <2> DEFINE p == Append(q, x)
             n == Len(q) + 1
  <2>1. /\ DOMAIN p = DOMAIN q \cup {n} /\ p[n] = x
        /\ \A k \in DOMAIN q : p[k] = q[k] /\ k \in Nat /\ k < n
    BY AppendPlaces
  <2> HIDE DEF p, n
  <2>2. Connects(p) <=> Connects(q)
    BY <1>1, <2>1 DEF Connects
  <2>3. DisconnectLast(q) => DisconnectLast(p)
    BY <1>1, <2>1 DEF DisconnectLast
  <2>4. x.h = "disconnect" => DisconnectLast(p)
    BY <1>1, <2>1 DEF DisconnectLast
  <2> QED BY <2>2, <2>3, <2>4 DEF p
<1>2. ASSUME q # << >>
      PROVE  /\ ~Connects(q) => ~Connects(Tail(q)) /\ Head(q).h # "connectCall"
             /\ DisconnectLast(q) =>
                  \/ DisconnectLast(Tail(q))
                  \/ Head(q).h = "disconnect" /\ ~Connects(Tail(q))
  <2> DEFINE p == Tail(q)
  <2>1. /\ \A k \in DOMAIN p : k \in Nat /\ k + 1 \in DOMAIN q /\ p[k] = q[k + 1]
        /\ \A k \in DOMAIN q : k \in Nat /\ (k = 1 \/ (k - 1 \in DOMAIN p /\ p[k - 1] = q[k]))
        /\ 1 \in DOMAIN q /\ q[1] = Head(q)
    BY <1>2, TailPlaces
  <2> HIDE DEF p
  <2>2. ~Connects(q) => ~Connects(p) /\ Head(q).h # "connectCall"
    BY <2>1 DEF Connects
  <2>3. ASSUME NEW k \in DOMAIN q, q[k].h = "disconnect",
               \A j \in DOMAIN q : q[j].h = "connectCall" => j < k
        PROVE  DisconnectLast(p) \/ (Head(q).h = "disconnect" /\ ~Connects(p))
    <3>1. CASE k = 1
      <4>1. \A j \in DOMAIN p : p[j].h # "connectCall"
        BY <2>1, <2>3, <3>1
      <4> QED BY <2>1, <2>3, <3>1, <4>1 DEF Connects
    <3>2. CASE k # 1
      <4>1. k - 1 \in DOMAIN p /\ p[k - 1].h = "disconnect"
        BY <2>1, <2>3, <3>2
      <4>2. \A j \in DOMAIN p : p[j].h = "connectCall" => j < k - 1
        BY <2>1, <2>3
      <4> QED BY <4>1, <4>2 DEF DisconnectLast
    <3> QED BY <3>1, <3>2
  <2> QED BY <2>2, <2>3 DEF DisconnectLast, p
<1> QED BY <1>1, <1>2

-----------------------------------------------------------------------------
(* The controller: shutdown() *)

\* The transport is down, or a disconnect() that nothing follows is on its way.
TransportGoesDown ==
  \/ DisconnectLast(strand)
  \/ ~Connects(strand) /\ ~isConnected /\ ~isConnecting

\* After a last shutdown(): it waits on the controller's strand with no start() or
\* rejoin() behind it, or it has been handled and the transport goes down.
ShutdownUnderWay ==
  \/ ShutdownLast(owner)
  \/ ~Restarts(owner) /\ state = "Disconnected" /\ TransportGoesDown

ShutdownInv == QueuesOK /\ (lastCall = "shutdown" => ShutdownUnderWay)

\* A handler of TcpClient changes the queues as follows, and brings the transport
\* up only for a connect() that was posted.
LEMMA TcpHandler ==
  ASSUME QueuesOK, StrandStep
  PROVE  /\ QueuesOK'
         /\ owner' = owner \/ \E x : x.what \notin {"start", "rejoin", "shutdown"} /\ owner' = Append(owner, x)
         /\ TransportGoesDown => TransportGoesDown'
PROOF
<1> USE DEF Running
<1>1. strand # << >> /\ IsQueue(strand) /\ IsQueue(owner) /\ \A op \in ops : op.kind \in Kinds
  BY DEF StrandStep, ConnectHandler, SendHandler, DisconnectHandler, ResolveHandler, ConnectionHandler,
     ReadHandler, WriteHandler, QueuesOK
<1>2. strand' = Tail(strand) \/ strand' = Append(Tail(strand), DisconnectLambda)
  BY DEF StrandStep, ConnectHandler, SendHandler, DisconnectHandler, ResolveHandler, ConnectionHandler,
     ReadHandler, WriteHandler, DisconnectFrom
<1> DEFINE Told == owner' = owner \/ \E x : /\ x.what \in {"connect", "message", "disconnect"}
                                           /\ owner' = Append(owner, x)
<1>3. Told
  <2>1. ASSUME NEW x, x.what \in {"connect", "message", "disconnect"}, owner' = Append(owner, x)
        PROVE  Told
    BY <2>1
  <2> HIDE DEF Told
  <2>2. ASSUME owner' = owner
        PROVE  Told
    BY <2>2 DEF Told
  <2>3. ASSUME NEW cb, NEW ok, InvokeConnectCallback(cb, ok)
        PROVE  Told
    <3> DEFINE x == ConnectEvent(cb, ok)
    <3>1. x.what \in {"connect", "message", "disconnect"}
      BY DEF ConnectEvent
    <3>2. owner' = owner \/ owner' = Append(owner, x)
      BY <2>3 DEF InvokeConnectCallback
    <3> HIDE DEF x
    <3> QED BY <2>1, <2>2, <3>1, <3>2
  <2>4. CASE ConnectHandler
    BY <2>2, <2>3, <2>4 DEF ConnectHandler
  <2>5. CASE SendHandler \/ WriteHandler
    BY <2>2, <2>5 DEF SendHandler, WriteHandler
  <2>6. CASE DisconnectHandler
    <3> DEFINE x == DisconnectEvent
    <3>1. x.what \in {"connect", "message", "disconnect"}
      BY DEF DisconnectEvent
    <3>2. owner' = owner \/ InvokeConnectCallback(pendingCallback, FALSE) \/ owner' = Append(owner, x)
      BY <2>6 DEF DisconnectHandler
    <3> HIDE DEF x
    <3>3. CASE InvokeConnectCallback(pendingCallback, FALSE)
      BY <2>3, <3>3
    <3>4. CASE owner' = owner \/ owner' = Append(owner, x)
      BY <2>1, <2>2, <3>1, <3>4
    <3> QED BY <3>2, <3>3, <3>4
  <2>7. CASE ResolveHandler \/ ConnectionHandler
    <3>1. owner' = owner \/ InvokeConnectCallback(pendingCallback, FALSE) \/ InvokeConnectCallback(pendingCallback, TRUE)
      BY <2>7 DEF ResolveHandler, ConnectionHandler, FailConnect, Connected
    <3> QED BY <2>2, <2>3, <3>1
  <2>8. CASE ReadHandler
    <3> DEFINE x == MessageEvent(Head(strand).msg)
    <3>1. x.what \in {"connect", "message", "disconnect"}
      BY DEF MessageEvent
    <3>2. owner' = owner \/ owner' = Append(owner, x)
      BY <2>8 DEF ReadHandler
    <3> HIDE DEF x
    <3> QED BY <2>1, <2>2, <3>1, <3>2
  <2> QED BY <2>4, <2>5, <2>6, <2>7, <2>8 DEF StrandStep
<1>4. \A op \in ops' : op.kind \in Kinds
  <2>1. \A kind, gen, arg : Op(kind, gen, arg).kind = kind
    BY DEF Op
  <2>2. ops' = ops \/ \E kind \in Kinds : \E gen, arg : ops' = ops \cup {Op(kind, gen, arg)}
    <3>1. CASE ConnectHandler
      BY <3>1 DEF ConnectHandler, BeginAttempt, Kinds
    <3>2. CASE SendHandler \/ WriteHandler
      <4>1. ops' = ops \/ ops' = ops \cup {Op("write", activeGen, Head(writeQueue'))}
        BY <3>2 DEF SendHandler, WriteHandler, WriteOf
      <4> QED BY <4>1 DEF Kinds
    <3>3. CASE ResolveHandler \/ ConnectionHandler
      <4>1. \/ ops' = ops \/ ops' = ops \cup {Op("connect", Head(strand).op.gen, 0)}
            \/ ops' = ops \cup {Op("read", Head(strand).op.gen, 0)}
        BY <3>3 DEF ResolveHandler, ConnectionHandler, Connected
      <4> QED BY <4>1 DEF Kinds
    <3>4. CASE ReadHandler
      BY <3>4 DEF ReadHandler, Kinds
    <3>5. CASE DisconnectHandler
      BY <3>5 DEF DisconnectHandler
    <3> QED BY <3>1, <3>2, <3>3, <3>4, <3>5 DEF StrandStep
  <2> QED BY <1>1, <2>1, <2>2
<1>5. DisconnectLambda.h = "disconnect"
  BY DEF DisconnectLambda, Lambda
<1>6. IsQueue(Tail(strand)) /\ IsQueue(strand')
  BY <1>1, <1>2, QueueStays
<1>7. QueuesOK'
  <2>1. IsQueue(owner')
    BY <1>1, <1>3, QueueStays
  <2> QED BY <1>4, <1>6, <2>1 DEF QueuesOK
<1>8. /\ DisconnectLast(Tail(strand)) => DisconnectLast(strand')
      /\ ~Connects(Tail(strand)) => ~Connects(strand')
  BY <1>2, <1>5, <1>6, StrandQueue
<1>9. DisconnectHandler => ~isConnected' /\ ~isConnecting'
  BY DEF DisconnectHandler, connVars
<1>10. ASSUME DisconnectLast(strand)
       PROVE  TransportGoesDown'
  <2>1. CASE DisconnectLast(Tail(strand))
    BY <1>8, <2>1 DEF TransportGoesDown
  <2>2. CASE Head(strand).h = "disconnect" /\ ~Connects(Tail(strand))
    <3>1. DisconnectHandler
      BY <2>2 DEF StrandStep, ConnectHandler, SendHandler, ResolveHandler, ConnectionHandler, ReadHandler,
         WriteHandler
    <3> QED BY <1>8, <1>9, <2>2, <3>1 DEF TransportGoesDown
  <2> QED BY <1>1, <1>10, <2>1, <2>2, StrandQueue
<1>11. ASSUME ~Connects(strand), ~isConnected, ~isConnecting
       PROVE  TransportGoesDown'
  <2>1. ~Connects(Tail(strand)) /\ Head(strand).h # "connectCall"
    BY <1>1, <1>11, StrandQueue
  <2>2. ~isConnected' /\ ~isConnecting'
    <3>1. CASE DisconnectHandler
      BY <1>9, <3>1
    <3>2. CASE ResolveHandler \/ ConnectionHandler
      BY <1>11, <3>2 DEF ResolveHandler, ConnectionHandler, AttemptIsStale, connVars
    <3>3. CASE SendHandler \/ ReadHandler \/ WriteHandler
      BY <1>11, <3>3 DEF SendHandler, ReadHandler, WriteHandler, connVars
    <3> QED BY <2>1, <3>1, <3>2, <3>3 DEF StrandStep, ConnectHandler
  <2> QED BY <1>8, <2>1, <2>2 DEF TransportGoesDown
<1> QED BY <1>3, <1>7, <1>10, <1>11 DEF TransportGoesDown

\* Every step keeps a last shutdown() under way.
LEMMA ShutdownNext == ShutdownInv /\ [Next]_clientVars => ShutdownInv'
PROOF
<1> SUFFICES ASSUME ShutdownInv, [Next]_clientVars
             PROVE  ShutdownInv'
  OBVIOUS
<1>1. QueuesOK /\ IsQueue(strand) /\ IsQueue(owner)
  BY DEF ShutdownInv, QueuesOK
<1>2. lastCall = "shutdown" => ShutdownUnderWay
  BY DEF ShutdownInv
\* The transport's and the network's steps leave the controller alone.
<1>3. ASSUME QueuesOK', UNCHANGED <<state, lastCall>>, TransportGoesDown => TransportGoesDown',
             owner' = owner \/ \E x : x.what \notin {"start", "rejoin", "shutdown"} /\ owner' = Append(owner, x)
      PROVE  ShutdownInv'
  <2>1. (ShutdownLast(owner) => ShutdownLast(owner')) /\ (~Restarts(owner) => ~Restarts(owner'))
    <3>1. CASE owner' = owner
      BY <3>1
    <3>2. CASE \E x : x.what \notin {"start", "rejoin", "shutdown"} /\ owner' = Append(owner, x)
      <4>1. PICK x : x.what \notin {"start", "rejoin", "shutdown"} /\ owner' = Append(owner, x)
        BY <3>2
      <4>2. /\ Restarts(Append(owner, x)) <=> Restarts(owner)
            /\ ShutdownLast(owner) => ShutdownLast(Append(owner, x))
        BY <1>1, <4>1, OwnerQueue
      <4> QED BY <4>1, <4>2, Zenon
    <3> QED BY <1>3, <3>1, <3>2
  <2> QED BY <1>2, <1>3, <2>1 DEF ShutdownInv, ShutdownUnderWay
<1>4. CASE UNCHANGED clientVars
  <2>1. UNCHANGED <<strand, owner, ops, isConnected, isConnecting, state, lastCall>>
    BY <1>4 DEF clientVars, tcpVars, connVars, ctlVars, callVars
  <2>2. QueuesOK' /\ (TransportGoesDown => TransportGoesDown')
    BY <1>1, <2>1 DEF QueuesOK, TransportGoesDown
  <2> QED BY <1>3, <2>1, <2>2
<1>5. CASE TcpStep
  <2>1. StrandStep /\ UNCHANGED <<state, lastCall>>
    BY <1>5 DEF TcpStep, ctlVars, callVars
  <2> QED BY <1>1, <1>3, <2>1, TcpHandler
<1>6. CASE (\E op \in ops, ok \in BOOLEAN : Completes(op, ok)) \/ (\E msg \in ServerMsgs : ServerSends(msg))
  <2>1. \E op \in ops, ok \in BOOLEAN : \E msg : strand' = Append(strand, Completion(op, ok, msg)) /\ ops' = ops \ {op}
    BY <1>6 DEF Completes, ServerSends, OpCompletes, ReadBrings
  <2>2. PICK x : x.h \in Kinds /\ strand' = Append(strand, x)
    <3>1. \A op, ok, msg : Completion(op, ok, msg).h = op.kind
      BY DEF Completion
    <3> QED BY <1>1, <2>1, <3>1 DEF QueuesOK
  <2>3. UNCHANGED <<isConnected, isConnecting, owner, state, lastCall>>
    BY <1>6 DEF Completes, ServerSends, OpCompletes, ReadBrings, connVars, ctlVars, callVars
  <2>4. QueuesOK'
    <3>1. \A op \in ops' : op.kind \in Kinds
      BY <1>1, <2>1 DEF QueuesOK
    <3> QED BY <1>1, <2>2, <2>3, <3>1, QueueStays DEF QueuesOK
  <2>5. TransportGoesDown => TransportGoesDown'
    <3>1. x.h # "connectCall"
      BY <2>2 DEF Kinds
    <3> QED BY <1>1, <2>2, <2>3, <3>1, StrandQueue DEF TransportGoesDown
  <2> QED BY <1>3, <2>3, <2>4, <2>5
<1>7. ASSUME NEW c \in Calls, Call(c)
      PROVE  ShutdownInv'
  <2> DEFINE x == [what |-> c]
  <2>1. /\ owner' = Append(owner, x) /\ x.what = c /\ UNCHANGED <<strand, ops, isConnected, isConnecting, state>>
        /\ lastCall' = IF c = "shoot" THEN lastCall ELSE c
    BY <1>7 DEF Call, connVars, ctlVars
  <2> HIDE DEF x
  <2>2. QueuesOK' /\ (TransportGoesDown => TransportGoesDown')
    BY <1>1, <2>1, QueueStays DEF QueuesOK, TransportGoesDown
  <2>3. CASE c \in {"start", "rejoin"}
    BY <2>1, <2>2, <2>3 DEF ShutdownInv
  <2>4. CASE c = "shutdown"
    BY <1>1, <2>1, <2>2, <2>4, OwnerQueue DEF ShutdownInv, ShutdownUnderWay
  <2>5. CASE c = "shoot"
    <3>1. UNCHANGED <<state, lastCall>>
      BY <2>1, <2>5
    <3> QED BY <1>3, <2>1, <2>2, <2>5, <3>1
  <2> QED BY <2>3, <2>4, <2>5 DEF Calls
<1>8. CASE ControllerStep
  <2>1. /\ owner # << >> /\ owner' = Tail(owner)
        /\ UNCHANGED <<isConnected, isConnecting, ops, lastCall>>
    BY <1>8 DEF ControllerStep, StartHandler, ShutdownHandler, RejoinHandler, ShootHandler, ConnectCallback,
       MessageHandler, DisconnectCallback, Serving, HandlerFrame, connVars, callVars
  <2>2. DisconnectLambda.h = "disconnect"
    BY DEF DisconnectLambda, Lambda
  <2>3. \/ strand' = strand
        \/ \E x : strand' = Append(strand, x)
        \/ \E gen : strand' = strand \o <<DisconnectLambda, ConnectCall(gen)>>
    BY <1>8 DEF ControllerStep, StartHandler, ShutdownHandler, RejoinHandler, ShootHandler, ConnectCallback,
       MessageHandler, DisconnectCallback, Ignored, DoShutdown, SendJoin, DisconnectFrom
  <2>4. IsQueue(strand')
    <3>1. ASSUME NEW a, NEW b
          PROVE  IsQueue(strand \o <<a, b>>)
      <4>1. PICK S : strand \in Seq(S)
        BY <1>1 DEF IsQueue
      <4> DEFINE T == S \cup {a, b}
      <4>2. strand \in Seq(T) /\ <<a, b>> \in Seq(T)
        BY <4>1
      <4> HIDE DEF T
      <4>3. strand \o <<a, b>> \in Seq(T)
        BY <4>2
      <4> QED BY <4>3 DEF IsQueue
    <3> QED BY <1>1, <2>3, <3>1, QueueStays
  <2>5. QueuesOK'
    BY <1>1, <2>1, <2>4, QueueStays DEF QueuesOK
  <2> SUFFICES ASSUME lastCall = "shutdown"
               PROVE  ShutdownUnderWay'
    BY <2>1, <2>5 DEF ShutdownInv
  \* The shutdown() itself.
  <2>6. ASSUME Head(owner).what = "shutdown", ~Restarts(Tail(owner))
        PROVE  ShutdownUnderWay'
    <3>1. strand' = Append(strand, DisconnectLambda) /\ state' = "Disconnected"
      BY <1>8, <2>6 DEF ControllerStep, StartHandler, ShutdownHandler, RejoinHandler, ShootHandler,
         ConnectCallback, MessageHandler, DisconnectCallback, Serving, DoShutdown, DisconnectFrom
    <3>2. DisconnectLast(strand')
      BY <1>1, <2>2, <3>1, StrandQueue
    <3> QED BY <2>1, <2>6, <3>1, <3>2 DEF ShutdownUnderWay, TransportGoesDown
  <2>7. CASE ShutdownLast(owner)
    <3>1. CASE ShutdownLast(Tail(owner))
      BY <2>1, <3>1 DEF ShutdownUnderWay
    <3> QED BY <1>1, <2>1, <2>6, <2>7, <3>1, OwnerQueue
  <2>8. CASE ~Restarts(owner) /\ state = "Disconnected" /\ TransportGoesDown
    <3>1. ~Restarts(Tail(owner)) /\ Head(owner).what \notin {"start", "rejoin"}
      BY <1>1, <2>1, <2>8, OwnerQueue
    <3>2. CASE Head(owner).what = "shutdown"
      BY <2>6, <3>1, <3>2
    <3>3. CASE Head(owner).what # "shutdown"
      \* Nothing else does anything while Disconnected.
      <4>1. UNCHANGED <<state, strand>>
        BY <1>8, <2>8, <3>1, <3>3 DEF ControllerStep, StartHandler, ShutdownHandler, RejoinHandler,
           ShootHandler, ConnectCallback, MessageHandler, DisconnectCallback, Serving, Ignored, ctlVars
      <4> QED BY <2>1, <2>8, <3>1, <4>1 DEF ShutdownUnderWay, TransportGoesDown
    <3> QED BY <3>2, <3>3
  <2> QED BY <1>2, <2>7, <2>8 DEF ShutdownUnderWay
<1> QED BY <1>4, <1>5, <1>6, <1>7, <1>8, Zenon DEF Next

\* A shutdown() that is the last request prevails: for any number of calls, polite
\* or not, whatever attempt, message or error was under way or queued before it,
\* the client comes to rest Disconnected and without a connection.
THEOREM ShutdownCorrect == Spec => []ShutdownSticks
PROOF
<1>1. Init => ShutdownInv
  <2> SUFFICES ASSUME Init
               PROVE  ShutdownInv
    OBVIOUS
  <2>1. strand = << >> /\ owner = << >> /\ ops = {} /\ lastCall = "none"
    BY DEF Init, TcpInit
  <2>2. << >> \in Seq({})
    OBVIOUS
  <2>3. IsQueue(<< >>)
    BY <2>2 DEF IsQueue
  <2> QED BY <2>1, <2>3 DEF ShutdownInv, QueuesOK
<1>2. ShutdownInv => ShutdownSticks
  <2> SUFFICES ASSUME ShutdownInv, AtRest, lastCall = "shutdown"
               PROVE  state = "Disconnected" /\ ~isConnected
    BY DEF ShutdownSticks
  <2>1. ~ShutdownLast(owner) /\ ~DisconnectLast(strand)
    BY DEF AtRest, ShutdownLast, DisconnectLast
  <2> QED BY <2>1 DEF ShutdownInv, ShutdownUnderWay, TransportGoesDown
<1> QED BY <1>1, <1>2, ShutdownNext, PTL DEF Spec

-----------------------------------------------------------------------------
(* The controller and its transport: places in the queues *)

\* Every connect() that waits will find the transport down: a disconnect() comes
\* before it and after every other connect(), or it is the first and the transport
\* is down already.
Ready(q, down) ==
  \A k \in DOMAIN q : q[k].h = "connectCall" =>
    \/ \E j \in DOMAIN q : /\ j < k /\ q[j].h = "disconnect"
                           /\ \A i \in DOMAIN q : q[i].h = "connectCall" /\ i < k => i < j
    \/ down /\ \A i \in DOMAIN q : q[i].h = "connectCall" => i >= k

\* The last connect() that waits is the only one of the generation g.
LastConnect(q, g) ==
  \E k \in DOMAIN q :
    /\ q[k].h = "connectCall" /\ q[k].arg = g
    /\ \A i \in DOMAIN q : q[i].h = "connectCall" /\ i # k => i < k /\ q[i].arg # g

\* None of the generation g waits.
NoConnect(q, g) == \A k \in DOMAIN q : q[k].h = "connectCall" => q[k].arg # g

\* The completions of an attempt of TcpClient's generation g wait behind a disconnect().
Fenced(q, g) ==
  \A k \in DOMAIN q : q[k].h \in AttemptKinds /\ q[k].op.gen = g =>
    \E j \in DOMAIN q : j < k /\ q[j].h = "disconnect"

\* The callback of generation g has not been called.
NoEvent(o, g) == \A k \in DOMAIN o : o[k].what = "connect" => o[k].cb # g

\* It was called once and waits to be served: with success, and then the connection
\* is up just when no end of it was announced since, or with failure, and it is down.
Outcome(o, g, up) ==
  \E k \in DOMAIN o :
    /\ o[k].what = "connect" /\ o[k].cb = g
    /\ \A i \in DOMAIN o : o[i].what = "connect" /\ o[i].cb = g => i = k
    /\ IF o[k].ok THEN up <=> ~\E i \in DOMAIN o : i > k /\ o[i].what = "disconnect"
                  ELSE ~up

\* The end of a connection has been announced.
Ends(o) == \E k \in DOMAIN o : o[k].what = "disconnect"

LEMMA ReadyPlaces ==
  ASSUME NEW q, IsQueue(q), NEW down \in BOOLEAN, Ready(q, down)
  PROVE  /\ \A x : (x.h # "connectCall" \/ DisconnectLast(q) \/ (~Connects(q) /\ down))
                     => Ready(Append(q, x), down)
         /\ q # << >> =>
              /\ Head(q).h \notin {"connectCall", "disconnect"} => Ready(Tail(q), down)
              /\ Head(q).h = "disconnect" => Ready(Tail(q), TRUE)
              /\ Head(q).h = "connectCall" => Ready(Tail(q), FALSE) /\ down
PROOF
<1>1. ASSUME NEW x, x.h # "connectCall" \/ DisconnectLast(q) \/ (~Connects(q) /\ down)
      PROVE  Ready(Append(q, x), down)
  <2> DEFINE p == Append(q, x)
             n == Len(q) + 1
  <2>1. /\ DOMAIN p = DOMAIN q \cup {n} /\ p[n] = x
        /\ \A k \in DOMAIN q : p[k] = q[k] /\ k \in Nat /\ k < n
    BY AppendPlaces
  <2> HIDE DEF p, n
  <2>2. ASSUME NEW k \in DOMAIN q, p[k].h = "connectCall"
        PROVE  \/ \E j \in DOMAIN p : /\ j < k /\ p[j].h = "disconnect"
                                      /\ \A i \in DOMAIN p : p[i].h = "connectCall" /\ i < k => i < j
               \/ down /\ \A i \in DOMAIN p : p[i].h = "connectCall" => i >= k
    <3>1. q[k].h = "connectCall" /\ k \in Nat /\ k < n
      BY <2>1, <2>2
    <3>2. CASE \E j \in DOMAIN q : /\ j < k /\ q[j].h = "disconnect"
                                   /\ \A i \in DOMAIN q : q[i].h = "connectCall" /\ i < k => i < j
      <4>1. PICK j \in DOMAIN q : /\ j < k /\ q[j].h = "disconnect"
                                  /\ \A i \in DOMAIN q : q[i].h = "connectCall" /\ i < k => i < j
        BY <3>2
      <4>2. n \in Nat => ~(n < k)
        BY <3>1
      <4>3. n \in Nat
        BY AppendPlaces DEF n, IsQueue
      <4>4. \A i \in DOMAIN p : p[i].h = "connectCall" /\ i < k => i < j
        BY <2>1, <4>1, <4>2, <4>3
      <4> QED BY <2>1, <4>1, <4>4
    <3>3. CASE down /\ \A i \in DOMAIN q : q[i].h = "connectCall" => i >= k
      <4>1. n \in Nat
        BY DEF n, IsQueue
      <4> QED BY <2>1, <3>1, <3>3, <4>1
    <3> QED BY <3>1, <3>2, <3>3 DEF Ready
  <2>3. ASSUME p[n].h = "connectCall"
        PROVE  \/ \E j \in DOMAIN p : /\ j < n /\ p[j].h = "disconnect"
                                      /\ \A i \in DOMAIN p : p[i].h = "connectCall" /\ i < n => i < j
               \/ down /\ \A i \in DOMAIN p : p[i].h = "connectCall" => i >= n
    <3>1. n \in Nat /\ ~(n < n) /\ n >= n
      BY DEF n, IsQueue
    <3>2. CASE DisconnectLast(q)
      BY <2>1, <3>1, <3>2 DEF DisconnectLast
    <3>3. CASE ~Connects(q) /\ down
      BY <2>1, <3>1, <3>3 DEF Connects
    <3> QED BY <1>1, <2>1, <2>3, <3>2, <3>3
  <2> QED BY <2>1, <2>2, <2>3 DEF Ready, p
<1>2. ASSUME q # << >>
      PROVE  /\ Head(q).h \notin {"connectCall", "disconnect"} => Ready(Tail(q), down)
             /\ Head(q).h = "disconnect" => Ready(Tail(q), TRUE)
             /\ Head(q).h = "connectCall" => Ready(Tail(q), FALSE) /\ down
  <2> DEFINE p == Tail(q)
             Fence(k) == \E j \in DOMAIN p : /\ j < k /\ p[j].h = "disconnect"
                                             /\ \A i \in DOMAIN p : p[i].h = "connectCall" /\ i < k => i < j
             First(k) == \A i \in DOMAIN p : p[i].h = "connectCall" => i >= k
  <2>1. /\ \A k \in DOMAIN p : k \in Nat /\ k >= 1 /\ k + 1 \in DOMAIN q /\ p[k] = q[k + 1]
        /\ \A k \in DOMAIN q : k \in Nat /\ (k = 1 \/ (k - 1 \in DOMAIN p /\ p[k - 1] = q[k]))
        /\ 1 \in DOMAIN q /\ q[1] = Head(q)
    BY <1>2, TailPlaces
  <2> HIDE DEF p
  <2>2. ASSUME NEW k \in DOMAIN p, p[k].h = "connectCall"
        PROVE  \/ Fence(k)
               \/ Head(q).h = "disconnect" /\ First(k)
               \/ Head(q).h # "connectCall" /\ down /\ First(k)
    <3>1. k \in Nat /\ k >= 1 /\ k + 1 \in DOMAIN q /\ q[k + 1].h = "connectCall"
      BY <2>1, <2>2
    <3>2. ASSUME NEW j \in DOMAIN q, j < k + 1, q[j].h = "disconnect",
                 \A i \in DOMAIN q : q[i].h = "connectCall" /\ i < k + 1 => i < j
          PROVE  Fence(k) \/ (Head(q).h = "disconnect" /\ First(k))
      <4>1. CASE j = 1
        <5>1. ASSUME NEW i \in DOMAIN p, p[i].h = "connectCall"
              PROVE  i >= k
          <6>1. i \in Nat /\ i >= 1 /\ i + 1 \in DOMAIN q /\ q[i + 1].h = "connectCall"
            BY <2>1, <5>1
          <6>2. ~(i + 1 < k + 1)
            BY <3>2, <4>1, <6>1
          <6> QED BY <3>1, <6>1, <6>2
        <5> QED BY <2>1, <3>2, <4>1, <5>1
      <4>2. CASE j # 1
        <5>1. j \in Nat /\ j - 1 \in DOMAIN p /\ p[j - 1].h = "disconnect" /\ j - 1 < k
          BY <2>1, <3>1, <3>2, <4>2
        <5>2. ASSUME NEW i \in DOMAIN p, p[i].h = "connectCall", i < k
              PROVE  i < j - 1
          <6>1. i \in Nat /\ i + 1 \in DOMAIN q /\ q[i + 1].h = "connectCall"
            BY <2>1, <5>2
          <6>2. i + 1 < j
            BY <3>1, <3>2, <5>2, <6>1
          <6> QED BY <5>1, <6>1, <6>2
        <5> QED BY <5>1, <5>2
      <4> QED BY <4>1, <4>2
    <3>3. ASSUME down, \A i \in DOMAIN q : q[i].h = "connectCall" => i >= k + 1
          PROVE  Head(q).h # "connectCall" /\ First(k)
      <4>1. Head(q).h # "connectCall"
        BY <2>1, <3>1, <3>3
      <4>2. ASSUME NEW i \in DOMAIN p, p[i].h = "connectCall"
            PROVE  i >= k
        <5>1. i \in Nat /\ i + 1 \in DOMAIN q /\ q[i + 1].h = "connectCall"
          BY <2>1, <4>2
        <5> QED BY <3>1, <3>3, <5>1
      <4> QED BY <4>1, <4>2
    <3> QED BY <3>1, <3>2, <3>3 DEF Ready
  <2>3. Head(q).h = "connectCall" => down
    BY <2>1 DEF Ready
  <2> QED BY <2>2, <2>3 DEF Ready, p
<1> QED BY <1>1, <1>2

LEMMA ConnectPlaces ==
  ASSUME NEW q, IsQueue(q), NEW g
  PROVE  /\ \A x : x.h # "connectCall" =>
              /\ LastConnect(q, g) => LastConnect(Append(q, x), g)
              /\ NoConnect(q, g) => NoConnect(Append(q, x), g)
         /\ \A x : x.h = "connectCall" /\ x.arg = g /\ NoConnect(q, g) => LastConnect(Append(q, x), g)
         /\ q # << >> =>
              /\ NoConnect(q, g) => NoConnect(Tail(q), g) /\ ~(Head(q).h = "connectCall" /\ Head(q).arg = g)
              /\ LastConnect(q, g) => IF Head(q).h = "connectCall" /\ Head(q).arg = g
                                      THEN ~Connects(Tail(q)) ELSE LastConnect(Tail(q), g)
              /\ LastConnect(q, g) /\ Head(q).h = "connectCall" /\ Head(q).arg # g
                   => Connects(Tail(q))
PROOF
<1>1. ASSUME NEW x
      PROVE  /\ x.h # "connectCall" =>
                  /\ LastConnect(q, g) => LastConnect(Append(q, x), g)
                  /\ NoConnect(q, g) => NoConnect(Append(q, x), g)
             /\ x.h = "connectCall" /\ x.arg = g /\ NoConnect(q, g) => LastConnect(Append(q, x), g)
  <2> DEFINE p == Append(q, x)
             n == Len(q) + 1
  <2>1. /\ DOMAIN p = DOMAIN q \cup {n} /\ p[n] = x
        /\ \A k \in DOMAIN q : p[k] = q[k] /\ k \in Nat /\ k < n
    BY AppendPlaces
  <2> HIDE DEF p, n
  <2>2. x.h # "connectCall" /\ LastConnect(q, g) => LastConnect(p, g)
    BY <2>1 DEF LastConnect
  <2>3. x.h # "connectCall" /\ NoConnect(q, g) => NoConnect(p, g)
    BY <2>1 DEF NoConnect
  <2>4. x.h = "connectCall" /\ x.arg = g /\ NoConnect(q, g) => LastConnect(p, g)
    BY <2>1 DEF LastConnect, NoConnect
  <2> QED BY <2>2, <2>3, <2>4 DEF p
<1>2. ASSUME q # << >>
      PROVE  /\ NoConnect(q, g) => NoConnect(Tail(q), g) /\ ~(Head(q).h = "connectCall" /\ Head(q).arg = g)
             /\ LastConnect(q, g) => IF Head(q).h = "connectCall" /\ Head(q).arg = g
                                     THEN ~Connects(Tail(q)) ELSE LastConnect(Tail(q), g)
             /\ LastConnect(q, g) /\ Head(q).h = "connectCall" /\ Head(q).arg # g
                  => Connects(Tail(q))
  <2> DEFINE p == Tail(q)
  <2>1. /\ \A k \in DOMAIN p : k \in Nat /\ k >= 1 /\ k + 1 \in DOMAIN q /\ p[k] = q[k + 1]
        /\ \A k \in DOMAIN q : k \in Nat /\ (k = 1 \/ (k - 1 \in DOMAIN p /\ p[k - 1] = q[k]))
        /\ 1 \in DOMAIN q /\ q[1] = Head(q)
    BY <1>2, TailPlaces
  <2> HIDE DEF p
  <2>2. NoConnect(q, g) => NoConnect(p, g) /\ ~(Head(q).h = "connectCall" /\ Head(q).arg = g)
    BY <2>1 DEF NoConnect
  <2>3. ASSUME NEW k \in DOMAIN q, q[k].h = "connectCall", q[k].arg = g,
               \A i \in DOMAIN q : q[i].h = "connectCall" /\ i # k => i < k /\ q[i].arg # g
        PROVE  /\ Head(q).h = "connectCall" /\ Head(q).arg = g => ~Connects(p)
               /\ ~(Head(q).h = "connectCall" /\ Head(q).arg = g) => LastConnect(p, g) /\ Connects(p)
    <3>1. Head(q).h = "connectCall" /\ Head(q).arg = g => k = 1
      BY <2>1, <2>3
    <3>2. ASSUME k = 1
          PROVE  ~Connects(p)
      <4>1. \A i \in DOMAIN p : p[i].h # "connectCall"
        <5> SUFFICES ASSUME NEW i \in DOMAIN p, p[i].h = "connectCall"
                     PROVE  FALSE
          OBVIOUS
        <5>1. i \in Nat /\ i >= 1 /\ i + 1 \in DOMAIN q /\ q[i + 1].h = "connectCall"
          BY <2>1
        <5> QED BY <2>3, <3>2, <5>1
      <4> QED BY <4>1 DEF Connects
    <3>3. ASSUME k # 1
          PROVE  LastConnect(p, g) /\ Connects(p)
      <4>1. k \in Nat /\ k - 1 \in DOMAIN p /\ p[k - 1].h = "connectCall" /\ p[k - 1].arg = g
        BY <2>1, <2>3, <3>3
      <4>2. ASSUME NEW i \in DOMAIN p, p[i].h = "connectCall", i # k - 1
            PROVE  i < k - 1 /\ p[i].arg # g
        <5>1. i \in Nat /\ i + 1 \in DOMAIN q /\ q[i + 1] = p[i] /\ i + 1 # k
          BY <2>1, <4>1, <4>2
        <5>2. i + 1 < k /\ q[i + 1].arg # g
          BY <2>3, <4>2, <5>1
        <5> QED BY <4>1, <5>1, <5>2
      <4> QED BY <4>1, <4>2 DEF LastConnect, Connects
    <3>4. k = 1 => Head(q).h = "connectCall" /\ Head(q).arg = g
      BY <2>1, <2>3
    <3> QED BY <3>1, <3>2, <3>3, <3>4
  <2> QED BY <2>2, <2>3 DEF LastConnect, p
<1> QED BY <1>1, <1>2

LEMMA FencedPlaces ==
  ASSUME NEW q, IsQueue(q), NEW g, Fenced(q, g)
  PROVE  /\ \A x : x.h \notin AttemptKinds \/ Waits(q, "disconnect") => Fenced(Append(q, x), g)
         /\ q # << >> /\ Head(q).h # "disconnect" =>
              Fenced(Tail(q), g) /\ ~(Head(q).h \in AttemptKinds /\ Head(q).op.gen = g)
PROOF
<1>1. ASSUME NEW x, x.h \notin AttemptKinds \/ Waits(q, "disconnect")
      PROVE  Fenced(Append(q, x), g)
  <2> DEFINE p == Append(q, x)
             n == Len(q) + 1
  <2>1. /\ DOMAIN p = DOMAIN q \cup {n} /\ p[n] = x
        /\ \A k \in DOMAIN q : p[k] = q[k] /\ k \in Nat /\ k < n
    BY AppendPlaces
  <2> HIDE DEF p, n
  <2>2. Fenced(p, g)
    BY <1>1, <2>1 DEF Fenced, Waits
  <2> QED BY <2>2 DEF p
<1>2. ASSUME q # << >>, Head(q).h # "disconnect"
      PROVE  Fenced(Tail(q), g) /\ ~(Head(q).h \in AttemptKinds /\ Head(q).op.gen = g)
  <2> DEFINE p == Tail(q)
  <2>1. /\ \A k \in DOMAIN p : k \in Nat /\ k >= 1 /\ k + 1 \in DOMAIN q /\ p[k] = q[k + 1]
        /\ \A k \in DOMAIN q : k \in Nat /\ (k = 1 \/ (k - 1 \in DOMAIN p /\ k - 1 >= 1 /\ p[k - 1] = q[k]))
        /\ 1 \in DOMAIN q /\ q[1] = Head(q)
    BY <1>2, TailPlaces
  <2> HIDE DEF p
  <2>2. \A j \in DOMAIN q : ~(j < 1)
    BY <2>1
  <2>3. ~(Head(q).h \in AttemptKinds /\ Head(q).op.gen = g)
    BY <2>1, <2>2 DEF Fenced
  <2>4. ASSUME NEW k \in DOMAIN p, p[k].h \in AttemptKinds, p[k].op.gen = g
        PROVE  \E j \in DOMAIN p : j < k /\ p[j].h = "disconnect"
    <3>1. k \in Nat /\ k + 1 \in DOMAIN q /\ q[k + 1] = p[k]
      BY <2>1
    <3>2. PICK j \in DOMAIN q : j < k + 1 /\ q[j].h = "disconnect"
      BY <2>4, <3>1 DEF Fenced
    <3>3. j # 1 /\ j \in Nat
      BY <1>2, <2>1, <3>2
    <3>4. j - 1 \in DOMAIN p /\ p[j - 1].h = "disconnect" /\ j - 1 < k
      BY <2>1, <3>1, <3>2, <3>3
    <3> QED BY <3>4
  <2> QED BY <2>3, <2>4 DEF Fenced, p
<1> QED BY <1>1, <1>2

\* The connection is up before the event x is posted, and afterwards.
Moves(x, up, down) ==
  IF x.what = "disconnect" THEN up /\ ~down ELSE up <=> down

\* The owner's queue.
LEMMA EventPlaces ==
  ASSUME NEW o, IsQueue(o), NEW g
  PROVE  /\ \A x : /\ Ends(Append(o, x)) <=> Ends(o) \/ x.what = "disconnect"
                   /\ NoEvent(o, g) /\ ~(x.what = "connect" /\ x.cb = g) => NoEvent(Append(o, x), g)
                   /\ NoEvent(o, g) /\ x.what = "connect" /\ x.cb = g =>
                        \A up \in BOOLEAN : (up <=> x.ok) => Outcome(Append(o, x), g, up)
                   /\ ~(x.what = "connect" /\ x.cb = g) =>
                        \A up, down \in BOOLEAN : Outcome(o, g, up) /\ Moves(x, up, down) => Outcome(Append(o, x), g, down)
         /\ o # << >> =>
              /\ Ends(o) <=> Head(o).what = "disconnect" \/ Ends(Tail(o))
              /\ NoEvent(o, g) => NoEvent(Tail(o), g) /\ ~(Head(o).what = "connect" /\ Head(o).cb = g)
              /\ \A up \in BOOLEAN : Outcome(o, g, up) =>
                   /\ Head(o).what = "connect" /\ Head(o).cb = g /\ Head(o).ok => (up <=> ~Ends(Tail(o)))
                   /\ Head(o).what = "connect" /\ Head(o).cb = g /\ ~Head(o).ok => ~up
                   /\ ~(Head(o).what = "connect" /\ Head(o).cb = g) => Outcome(Tail(o), g, up)
PROOF
<1>1. ASSUME NEW x
      PROVE  /\ Ends(Append(o, x)) <=> Ends(o) \/ x.what = "disconnect"
             /\ NoEvent(o, g) /\ ~(x.what = "connect" /\ x.cb = g) => NoEvent(Append(o, x), g)
             /\ NoEvent(o, g) /\ x.what = "connect" /\ x.cb = g =>
                  \A up \in BOOLEAN : (up <=> x.ok) => Outcome(Append(o, x), g, up)
             /\ ~(x.what = "connect" /\ x.cb = g) =>
                  \A up, down \in BOOLEAN : Outcome(o, g, up) /\ Moves(x, up, down) => Outcome(Append(o, x), g, down)
  <2> DEFINE p == Append(o, x)
             n == Len(o) + 1
  <2>1. /\ DOMAIN p = DOMAIN o \cup {n} /\ p[n] = x
        /\ \A k \in DOMAIN o : p[k] = o[k] /\ k \in Nat /\ k < n
        /\ n \in Nat
    BY AppendPlaces DEF IsQueue
  <2> HIDE DEF p, n
  <2>2. Ends(p) <=> Ends(o) \/ x.what = "disconnect"
    BY <2>1 DEF Ends
  <2>3. NoEvent(o, g) /\ ~(x.what = "connect" /\ x.cb = g) => NoEvent(p, g)
    BY <2>1 DEF NoEvent
  <2>4. ASSUME NoEvent(o, g), x.what = "connect", x.cb = g, NEW up \in BOOLEAN, up <=> x.ok
        PROVE  Outcome(p, g, up)
    <3>1. \A i \in DOMAIN p : p[i].what = "connect" /\ p[i].cb = g => i = n
      BY <2>1, <2>4 DEF NoEvent
    <3>2. ~\E i \in DOMAIN p : i > n /\ p[i].what = "disconnect"
      BY <2>1
    <3> QED BY <2>1, <2>4, <3>1, <3>2 DEF Outcome
  <2>5. ASSUME ~(x.what = "connect" /\ x.cb = g), NEW up \in BOOLEAN, NEW down \in BOOLEAN, Outcome(o, g, up), Moves(x, up, down)
        PROVE  Outcome(p, g, down)
    <3>1. PICK k \in DOMAIN o :
            /\ o[k].what = "connect" /\ o[k].cb = g
            /\ \A i \in DOMAIN o : o[i].what = "connect" /\ o[i].cb = g => i = k
            /\ IF o[k].ok THEN up <=> ~\E i \in DOMAIN o : i > k /\ o[i].what = "disconnect"
                          ELSE ~up
      BY <2>5 DEF Outcome
    <3>2. p[k] = o[k] /\ k \in DOMAIN p /\ \A i \in DOMAIN p : p[i].what = "connect" /\ p[i].cb = g => i = k
      BY <2>1, <2>5, <3>1
    <3>3. (\E i \in DOMAIN p : i > k /\ p[i].what = "disconnect")
            <=> (\E i \in DOMAIN o : i > k /\ o[i].what = "disconnect") \/ x.what = "disconnect"
      BY <2>1, <3>1
    <3>4. IF p[k].ok THEN down <=> ~\E i \in DOMAIN p : i > k /\ p[i].what = "disconnect"
                     ELSE ~down
      BY <2>5, <3>1, <3>2, <3>3 DEF Moves
    <3> QED BY <3>1, <3>2, <3>4, Zenon DEF Outcome
  <2> QED BY <2>2, <2>3, <2>4, <2>5, Zenon DEF p
<1>2. ASSUME o # << >>
      PROVE  /\ Ends(o) <=> Head(o).what = "disconnect" \/ Ends(Tail(o))
             /\ NoEvent(o, g) => NoEvent(Tail(o), g) /\ ~(Head(o).what = "connect" /\ Head(o).cb = g)
             /\ \A up \in BOOLEAN : Outcome(o, g, up) =>
                  /\ Head(o).what = "connect" /\ Head(o).cb = g /\ Head(o).ok => (up <=> ~Ends(Tail(o)))
                  /\ Head(o).what = "connect" /\ Head(o).cb = g /\ ~Head(o).ok => ~up
                  /\ ~(Head(o).what = "connect" /\ Head(o).cb = g) => Outcome(Tail(o), g, up)
  <2> DEFINE p == Tail(o)
  <2>1. /\ \A k \in DOMAIN p : k \in Nat /\ k >= 1 /\ k + 1 \in DOMAIN o /\ p[k] = o[k + 1]
        /\ \A k \in DOMAIN o : k \in Nat /\ (k = 1 \/ (k - 1 \in DOMAIN p /\ p[k - 1] = o[k]))
        /\ 1 \in DOMAIN o /\ o[1] = Head(o)
    BY <1>2, TailPlaces
  <2> HIDE DEF p
  <2>2. Ends(o) <=> Head(o).what = "disconnect" \/ Ends(p)
    BY <2>1 DEF Ends
  <2>3. NoEvent(o, g) => NoEvent(p, g) /\ ~(Head(o).what = "connect" /\ Head(o).cb = g)
    BY <2>1 DEF NoEvent
  <2>4. ASSUME NEW up \in BOOLEAN, Outcome(o, g, up)
        PROVE  /\ Head(o).what = "connect" /\ Head(o).cb = g /\ Head(o).ok => (up <=> ~Ends(p))
               /\ Head(o).what = "connect" /\ Head(o).cb = g /\ ~Head(o).ok => ~up
               /\ ~(Head(o).what = "connect" /\ Head(o).cb = g) => Outcome(p, g, up)
    <3>1. PICK k \in DOMAIN o :
            /\ o[k].what = "connect" /\ o[k].cb = g
            /\ \A i \in DOMAIN o : o[i].what = "connect" /\ o[i].cb = g => i = k
            /\ IF o[k].ok THEN up <=> ~\E i \in DOMAIN o : i > k /\ o[i].what = "disconnect"
                          ELSE ~up
      BY <2>4 DEF Outcome
    <3>2. CASE Head(o).what = "connect" /\ Head(o).cb = g
      <4>1. k = 1
        BY <2>1, <3>1, <3>2
      <4>2. (\E i \in DOMAIN o : i > 1 /\ o[i].what = "disconnect") <=> Ends(p)
        <5>1. ASSUME NEW i \in DOMAIN o, i > 1, o[i].what = "disconnect"
              PROVE  Ends(p)
          <6>1. i - 1 \in DOMAIN p /\ p[i - 1] = o[i]
            BY <2>1, <5>1
          <6> QED BY <5>1, <6>1 DEF Ends
        <5>2. ASSUME NEW i \in DOMAIN p, p[i].what = "disconnect"
              PROVE  \E j \in DOMAIN o : j > 1 /\ o[j].what = "disconnect"
          <6>1. i + 1 \in DOMAIN o /\ i + 1 > 1 /\ o[i + 1].what = "disconnect"
            BY <2>1, <5>2
          <6> QED BY <6>1
        <5> QED BY <5>1, <5>2 DEF Ends
      <4> QED BY <2>1, <3>1, <3>2, <4>1, <4>2
    <3>3. CASE ~(Head(o).what = "connect" /\ Head(o).cb = g)
      <4>1. k # 1 /\ k \in Nat
        BY <2>1, <3>1, <3>3
      <4>2. k - 1 \in DOMAIN p /\ p[k - 1] = o[k] /\ k - 1 \in Nat /\ (k - 1) + 1 = k
        BY <2>1, <3>1, <4>1
      <4>3. ASSUME NEW i \in DOMAIN p, p[i].what = "connect", p[i].cb = g
            PROVE  i = k - 1
        <5>1. i \in Nat /\ i + 1 = k
          BY <2>1, <3>1, <4>3
        <5> QED BY <4>2, <5>1
      <4>4. (\E i \in DOMAIN p : i > k - 1 /\ p[i].what = "disconnect")
              <=> (\E i \in DOMAIN o : i > k /\ o[i].what = "disconnect")
        <5>1. ASSUME NEW i \in DOMAIN o, i > k, o[i].what = "disconnect"
              PROVE  \E j \in DOMAIN p : j > k - 1 /\ p[j].what = "disconnect"
          <6>0. i \in Nat /\ i # 1
            BY <2>1, <3>1, <4>1, <5>1
          <6>1. i - 1 \in DOMAIN p /\ p[i - 1] = o[i] /\ i - 1 > k - 1
            BY <2>1, <4>1, <5>1, <6>0
          <6> QED BY <5>1, <6>1
        <5>2. ASSUME NEW i \in DOMAIN p, i > k - 1, p[i].what = "disconnect"
              PROVE  \E j \in DOMAIN o : j > k /\ o[j].what = "disconnect"
          <6>1. i + 1 \in DOMAIN o /\ i + 1 > k /\ o[i + 1].what = "disconnect"
            BY <2>1, <4>1, <5>2
          <6> QED BY <6>1
        <5> QED BY <5>1, <5>2
      <4>5. IF p[k - 1].ok THEN up <=> ~\E i \in DOMAIN p : i > k - 1 /\ p[i].what = "disconnect"
                           ELSE ~up
        BY <3>1, <4>2, <4>4
      <4>6. Outcome(p, g, up)
        BY <3>1, <4>2, <4>3, <4>5, Zenon DEF Outcome
      <4> QED BY <3>3, <4>6
    <3> QED BY <3>2, <3>3
  <2> QED BY <2>2, <2>3, <2>4 DEF p
<1> QED BY <1>1, <1>2


LEMMA ReadyAlready ==
  ASSUME NEW q, NEW d, NEW e
  PROVE  /\ ~Connects(q) => Ready(q, d)
         /\ Ready(q, d) /\ (d => e) => Ready(q, e)
         /\ Ready(q, d) /\ Connects(q) /\ ~d => Waits(q, "disconnect")
         /\ DisconnectLast(q) => Waits(q, "disconnect")
         /\ LastConnect(q, d) => Connects(q)
         /\ ~Connects(q) => NoConnect(q, d)
  BY DEF Ready, Connects, Waits, DisconnectLast, LastConnect, NoConnect

-----------------------------------------------------------------------------
(* The controller and its transport: the invariant *)

Playing == {"Joining", "InGame", "GameOver"}

Down == ~isConnected /\ ~isConnecting

\* The callbacks are numbered by the controller's generations so far.
NumberedHandler(x, g) == x.h = "connectCall" => x.arg \in 1 .. g

NumberedEvent(x, g) == x.what = "connect" => x.cb \in 1 .. g

Numbers ==
  /\ connectGen \in Nat /\ pendingCallback \in 0 .. connectGen
  /\ \A k \in DOMAIN strand : NumberedHandler(strand[k], connectGen)
  /\ \A k \in DOMAIN owner : NumberedEvent(owner[k], connectGen)

\* An attempt of an earlier generation of the controller is given up: the lambda of
\* a disconnect() waits, and no completion gets through before it.
Abandoned ==
  isConnecting /\ pendingCallback # connectGen =>
    /\ Waits(strand, "disconnect")
    /\ disconnectRequested \/ Fenced(strand, disconnectGen)

\* A Connecting controller has asked for a connection, or the attempt is under way,
\* or its outcome waits to be served.
Asked ==
  /\ LastConnect(strand, connectGen) /\ pendingCallback # connectGen /\ NoEvent(owner, connectGen)
  /\ isConnected => disconnectRequested

Trying ==
  /\ ~Connects(strand) /\ isConnecting /\ pendingCallback = connectGen
  /\ NoEvent(owner, connectGen)

Told ==
  /\ ~Connects(strand) /\ ~isConnecting /\ pendingCallback # connectGen
  /\ Outcome(owner, connectGen, isConnected)

\* A Disconnected one has a transport that is down or goes down.
Off ==
  /\ TransportGoesDown /\ NoConnect(strand, connectGen)
  /\ isConnected => disconnectRequested
  /\ isConnecting => pendingCallback # connectGen

\* One that plays has a connection, until the end of it is announced.
On == ~Connects(strand) /\ ~isConnecting /\ (isConnected <=> ~Ends(owner))

Structure ==
  /\ Ready(strand, Down)
  /\ pendingCallback # 0 <=> isConnecting
  /\ Abandoned
  /\ state \in {"Disconnected", "Connecting"} \cup Playing
  /\ state = "Connecting" => Asked \/ Trying \/ Told
  /\ state = "Disconnected" => Off
  /\ state \in Playing => On

\* What the handlers of TcpClient do to the connection: an attempt begins,
Begins ==
  /\ Head(strand).h = "connectCall" /\ Down
  /\ ~disconnectRequested' /\ isConnecting' /\ ~isConnected' /\ pendingCallback' = Head(strand).arg
  /\ strand' = Tail(strand)
  /\ UNCHANGED <<disconnectGen, owner>>

\* or it goes on as before,
GoesOn ==
  /\ Head(strand).h \notin {"connectCall", "disconnect"}
  /\ \/ strand' = Tail(strand) /\ disconnectRequested' = disconnectRequested
     \/ strand' = Append(Tail(strand), DisconnectLambda) /\ disconnectRequested'
  /\ owner' = owner \/ \E msg : owner' = Append(owner, MessageEvent(msg))
  /\ UNCHANGED <<isConnected, isConnecting, pendingCallback, disconnectGen>>

\* or an attempt ends, well or not,
Settles(ok) ==
  /\ Head(strand).h \in AttemptKinds /\ Head(strand).op.gen = disconnectGen
  /\ isConnecting /\ ~isConnecting' /\ (isConnected' <=> ok)
  /\ pendingCallback' = 0
  /\ owner' = Append(owner, ConnectEvent(pendingCallback, ok))
  /\ strand' = Tail(strand)
  /\ UNCHANGED <<disconnectGen, disconnectRequested>>
  /\ ok => Head(strand).h = "connect" /\ Head(strand).ok /\ ~disconnectRequested

\* or it is closed.
Closes ==
  /\ Head(strand).h = "disconnect"
  /\ Down' /\ pendingCallback' = 0
  /\ owner' = IF isConnecting THEN Append(owner, ConnectEvent(pendingCallback, FALSE))
              ELSE IF isConnected THEN Append(owner, DisconnectEvent) ELSE owner
  /\ strand' = Tail(strand)
  /\ disconnectGen' = disconnectGen + 1
  /\ UNCHANGED disconnectRequested

LEMMA StrandEffect ==
  ASSUME Core(FALSE), QueuesOK, Structure, StrandStep
  PROVE  strand # << >> /\ (Begins \/ GoesOn \/ Settles(TRUE) \/ Settles(FALSE) \/ Closes)
PROOF
<1> USE DEF Running
<1>1. strand # << >> /\ IsQueue(strand)
  BY DEF StrandStep, ConnectHandler, SendHandler, DisconnectHandler, ResolveHandler, ConnectionHandler,
     ReadHandler, WriteHandler, QueuesOK
<1>2. /\ isConnected \in BOOLEAN /\ isConnecting \in BOOLEAN /\ disconnectRequested \in BOOLEAN
      /\ ~(isConnected /\ isConnecting)
      /\ pendingCallback # 0 <=> isConnecting
  BY DEF Core, HandlersInv, FlagInv, Structure
<1>3. CASE ConnectHandler
  <2>1. Down
    <3>1. Ready(strand, Down) /\ Head(strand).h = "connectCall"
      BY <1>3 DEF ConnectHandler, Structure
    <3>2. Down \in BOOLEAN
      BY DEF Down
    <3> QED BY <1>1, <3>1, <3>2, ReadyPlaces
  <2>2. Begins
    BY <1>2, <1>3, <2>1 DEF ConnectHandler, BeginAttempt, Begins, Down
  <2> QED BY <1>1, <2>2
<1>4. CASE SendHandler
  <2>1. GoesOn
    BY <1>4 DEF SendHandler, GoesOn, connVars, genVars
  <2> QED BY <1>1, <2>1
<1>5. CASE WriteHandler
  <2>1. GoesOn
    BY <1>5 DEF WriteHandler, GoesOn, DisconnectFrom, connVars, genVars
  <2> QED BY <1>1, <2>1
<1>6. CASE ReadHandler
  <2>1. GoesOn
    BY <1>6 DEF ReadHandler, GoesOn, DisconnectFrom, connVars, genVars
  <2> QED BY <1>1, <2>1
<1>7. ASSUME FailConnect, isConnecting
      PROVE  /\ ~isConnecting' /\ ~isConnected' /\ pendingCallback' = 0
             /\ owner' = Append(owner, ConnectEvent(pendingCallback, FALSE))
  BY <1>2, <1>7 DEF FailConnect, InvokeConnectCallback
<1>8. CASE ResolveHandler
  <2> DEFINE h == Head(strand)
  <2>1. CASE AttemptIsStale(h.op.gen)
    <3>1. GoesOn
      BY <1>8, <2>1 DEF ResolveHandler, GoesOn, connVars, genVars
    <3> QED BY <1>1, <3>1
  <2>2. CASE ~AttemptIsStale(h.op.gen) /\ (disconnectRequested \/ ~h.ok)
    <3>1. FailConnect /\ isConnecting /\ h.op.gen = disconnectGen
      BY <1>8, <2>2 DEF ResolveHandler, AttemptIsStale, IsValidGeneration
    <3>2. Settles(FALSE)
      BY <1>7, <1>8, <3>1 DEF ResolveHandler, Settles, genVars, AttemptKinds
    <3> QED BY <1>1, <3>2
  <2>3. CASE ~AttemptIsStale(h.op.gen) /\ ~(disconnectRequested \/ ~h.ok)
    <3>1. GoesOn
      BY <1>8, <2>3 DEF ResolveHandler, GoesOn, connVars, genVars
    <3> QED BY <1>1, <3>1
  <2> QED BY <2>1, <2>2, <2>3
<1>9. CASE ConnectionHandler
  <2> DEFINE h == Head(strand)
  <2>1. CASE AttemptIsStale(h.op.gen)
    <3>1. GoesOn
      BY <1>9, <2>1 DEF ConnectionHandler, GoesOn, connVars, genVars
    <3> QED BY <1>1, <3>1
  <2>2. CASE ~AttemptIsStale(h.op.gen) /\ (disconnectRequested \/ ~h.ok)
    <3>1. FailConnect /\ isConnecting /\ h.op.gen = disconnectGen
      BY <1>9, <2>2 DEF ConnectionHandler, AttemptIsStale, IsValidGeneration
    <3>2. Settles(FALSE)
      BY <1>7, <1>9, <3>1 DEF ConnectionHandler, Settles, genVars, AttemptKinds
    <3> QED BY <1>1, <3>2
  <2>3. CASE ~AttemptIsStale(h.op.gen) /\ ~(disconnectRequested \/ ~h.ok)
    <3>1. Connected(h.op.gen) /\ isConnecting /\ h.op.gen = disconnectGen
      BY <1>9, <2>3 DEF ConnectionHandler, AttemptIsStale, IsValidGeneration
    <3>2. Settles(TRUE)
      BY <1>2, <1>9, <2>3, <3>1 DEF ConnectionHandler, Connected, InvokeConnectCallback, Settles, genVars,
         AttemptKinds
    <3> QED BY <1>1, <3>2
  <2> QED BY <2>1, <2>2, <2>3
<1>10. CASE DisconnectHandler
  <2>1. Closes
    BY <1>2, <1>10 DEF DisconnectHandler, Closes, InvokeConnectCallback, Down, connVars
  <2> QED BY <1>1, <2>1
<1> QED BY <1>3, <1>4, <1>5, <1>6, <1>8, <1>9, <1>10 DEF StrandStep

\* The handlers of TcpClient keep the structure.
LEMMA StructureStrand ==
  ASSUME Core(FALSE), QueuesOK, Numbers, Structure, StrandStep, UNCHANGED <<state, connectGen>>
  PROVE  Structure'
PROOF
<1> DEFINE x    == Head(strand)
           rest == Tail(strand)
           g    == connectGen
           c    == pendingCallback
<1>1. /\ strand # << >> /\ IsQueue(strand) /\ IsQueue(owner) /\ IsQueue(rest)
      /\ Begins \/ GoesOn \/ Settles(TRUE) \/ Settles(FALSE) \/ Closes
  BY StrandEffect, QueueStays DEF QueuesOK
<1>2. /\ isConnected \in BOOLEAN /\ isConnecting \in BOOLEAN /\ disconnectRequested \in BOOLEAN
      /\ ~(isConnected /\ isConnecting) /\ Down \in BOOLEAN
      /\ g \in Nat /\ c \in 0 .. g
  BY DEF Core, HandlersInv, FlagInv, Numbers, Down
<1>3. /\ Ready(strand, Down) /\ (c # 0 <=> isConnecting) /\ Abandoned
      /\ state \in {"Disconnected", "Connecting"} \cup Playing
      /\ state = "Connecting" => Asked \/ Trying \/ Told
      /\ state = "Disconnected" => Off
      /\ state \in Playing => On
  BY DEF Structure
<1>4. TransportGoesDown => TransportGoesDown'
  BY TcpHandler
<1>5. /\ x.h \notin {"connectCall", "disconnect"} => Ready(rest, Down)
      /\ x.h = "disconnect" => Ready(rest, TRUE)
      /\ x.h = "connectCall" => Ready(rest, FALSE)
  BY <1>1, <1>2, <1>3, ReadyPlaces
<1>6. /\ NoConnect(strand, g) => NoConnect(rest, g) /\ ~(x.h = "connectCall" /\ x.arg = g)
      /\ LastConnect(strand, g) /\ x.h = "connectCall" /\ x.arg = g => ~Connects(rest)
      /\ LastConnect(strand, g) /\ ~(x.h = "connectCall" /\ x.arg = g) => LastConnect(rest, g)
  BY <1>1, ConnectPlaces
<1>7. /\ ~Connects(strand) => ~Connects(rest) /\ x.h # "connectCall"
      /\ DisconnectLast(strand) /\ x.h # "disconnect" => DisconnectLast(rest)
  BY <1>1, StrandQueue
<1>8. Waits(strand, "disconnect") /\ x.h # "disconnect" => Waits(rest, "disconnect")
  BY <1>1, QueueTail DEF Core, HandlersInv
<1>9. LastConnect(strand, g) => g # 0
  BY DEF Numbers, NumberedHandler, LastConnect
<1>10. Connects(strand) /\ Off => DisconnectLast(strand)
  BY DEF Off, TransportGoesDown
<1>11. x.h = "connectCall" => Connects(strand)
  BY <1>7
<1> HIDE DEF x, rest
<1>12. CASE Begins
  <2>1. /\ x.h = "connectCall" /\ x.arg \in 1 .. g /\ Down
        /\ ~disconnectRequested' /\ isConnecting' /\ ~isConnected' /\ c' = x.arg
        /\ strand' = rest /\ UNCHANGED <<disconnectGen, owner, g>>
    <3>1. 1 \in DOMAIN strand /\ strand[1] = x
      BY <1>1, TailPlaces DEF x
    <3>2. NumberedHandler(x, g)
      BY <3>1, Zenon DEF Numbers
    <3> QED BY <1>12, <3>2 DEF Begins, x, rest, NumberedHandler
  <2>2. Ready(strand', Down')
    BY <1>5, <2>1 DEF Down
  <2>3. Fenced(strand', disconnectGen')
    <3>1. Completed(strand, disconnectGen, AttemptKinds) = {} /\ HandlersInv
      BY <2>1 DEF Core, LiveInv, Idle, None, Down
    <3>2. None(ops, rest, disconnectGen, AttemptKinds)
      BY <1>1, <2>1, Take DEF Core, LiveInv, Idle, Down, rest
    <3> QED BY <2>1, <3>2 DEF None, Completed, Fenced
  <2>4. x.arg # g => Waits(rest, "disconnect")
    <3>1. CASE state = "Connecting"
      <4>1. Asked
        BY <1>3, <1>11, <2>1, <3>1 DEF Trying, Told
      <4>2. x.arg # g => Connects(rest)
        BY <1>6, <4>1, ReadyAlready DEF Asked
      <4> QED BY <1>5, <2>1, <4>2, ReadyAlready
    <3>2. CASE state = "Disconnected"
      BY <1>3, <1>7, <1>10, <1>11, <2>1, <3>2, ReadyAlready
    <3>3. CASE state \in Playing
      BY <1>3, <1>11, <2>1, <3>3 DEF On
    <3> QED BY <1>3, <3>1, <3>2, <3>3
  <2>5. Abandoned'
    BY <2>1, <2>3, <2>4 DEF Abandoned
  <2>6. state = "Connecting" => Asked' \/ Trying'
    <3>1. state = "Connecting" => Asked
      BY <1>3, <1>11, <2>1 DEF Trying, Told
    <3>2. ASSUME Asked, x.arg = g
          PROVE  Trying'
      BY <1>6, <2>1, <3>2 DEF Asked, Trying
    <3>3. ASSUME Asked, x.arg # g
          PROVE  Asked'
      BY <1>6, <2>1, <3>3 DEF Asked
    <3> QED BY <3>1, <3>2, <3>3
  <2>7. state = "Disconnected" => Off'
    BY <1>3, <1>4, <1>6, <2>1 DEF Off
  <2>8. state \notin Playing
    BY <1>3, <1>11, <2>1 DEF On
  <2> QED BY <1>2, <1>3, <2>1, <2>2, <2>5, <2>6, <2>7, <2>8 DEF Structure
<1>13. CASE GoesOn
  <2>1. /\ x.h \notin {"connectCall", "disconnect"}
        /\ \/ strand' = rest /\ disconnectRequested' = disconnectRequested
           \/ strand' = Append(rest, DisconnectLambda) /\ disconnectRequested'
        /\ UNCHANGED <<isConnected, isConnecting, c, disconnectGen, g>>
    BY <1>13 DEF GoesOn, x, rest
  <2>2. DisconnectLambda.h = "disconnect"
    BY DEF DisconnectLambda, Lambda
  <2> DEFINE y == DisconnectLambda
  <2> HIDE DEF y
  <2>3. Ready(strand', Down')
    <3>1. Ready(rest, Down) /\ Ready(Append(rest, y), Down)
      BY <1>1, <1>2, <1>5, <2>1, <2>2, ReadyPlaces DEF y
    <3> QED BY <2>1, <3>1 DEF Down, y
  <2>4. /\ NoConnect(rest, g) => NoConnect(strand', g)
        /\ LastConnect(rest, g) => LastConnect(strand', g)
        /\ ~Connects(rest) => ~Connects(strand')
    <3>1. /\ NoConnect(rest, g) => NoConnect(Append(rest, y), g)
          /\ LastConnect(rest, g) => LastConnect(Append(rest, y), g)
          /\ ~Connects(rest) => ~Connects(Append(rest, y))
      BY <1>1, <2>2, ConnectPlaces, StrandQueue DEF y
    <3> QED BY <2>1, <3>1 DEF y
  <2>5. Abandoned'
    <3>1. Waits(rest, "disconnect") => Waits(strand', "disconnect")
      <4>1. QueueOK(rest, disconnectGen) /\ HandlerOK(y, disconnectGen)
        BY <1>1, <2>2, QueueTail DEF Core, HandlersInv, rest, HandlerOK, y, LambdaNames, Kinds
      <4>2. Waits(rest, "disconnect") => Waits(Append(rest, y), "disconnect")
        BY <4>1, QueueAppend
      <4> QED BY <2>1, <4>2 DEF y
    <3>2. Fenced(strand, disconnectGen) => Fenced(strand', disconnectGen)
      <4>1. Fenced(strand, disconnectGen) => Fenced(rest, disconnectGen)
        BY <1>1, <2>1, FencedPlaces DEF x, rest
      <4>2. Fenced(rest, disconnectGen) => Fenced(Append(rest, y), disconnectGen)
        BY <1>1, <2>2, FencedPlaces DEF y, AttemptKinds
      <4> QED BY <2>1, <4>1, <4>2 DEF y
    <3> QED BY <1>2, <1>3, <1>8, <2>1, <3>1, <3>2 DEF Abandoned
  <2>6. /\ NoEvent(owner, g) => NoEvent(owner', g)
        /\ Outcome(owner, g, isConnected) => Outcome(owner', g, isConnected)
        /\ Ends(owner') <=> Ends(owner)
    <3>1. CASE owner' = owner
      BY <3>1
    <3>2. CASE owner' # owner
      <4>1. PICK msg : owner' = Append(owner, MessageEvent(msg))
        BY <1>13, <3>2 DEF GoesOn
      <4> DEFINE m == MessageEvent(msg)
      <4>2. m.what = "message"
        BY DEF MessageEvent
      <4> HIDE DEF m
      <4>3. /\ NoEvent(owner, g) => NoEvent(Append(owner, m), g)
            /\ Outcome(owner, g, isConnected) => Outcome(Append(owner, m), g, isConnected)
            /\ Ends(Append(owner, m)) <=> Ends(owner)
        BY <1>1, <1>2, <4>2, EventPlaces DEF Moves
      <4> QED BY <4>1, <4>3 DEF m
    <3> QED BY <3>1, <3>2
  <2>7. state = "Connecting" => Asked' \/ Trying' \/ Told'
    <3>1. Asked => Asked'
      BY <1>6, <2>1, <2>4, <2>6 DEF Asked
    <3>2. Trying => Trying'
      BY <1>7, <2>1, <2>4, <2>6 DEF Trying
    <3>3. Told => Told'
      BY <1>7, <2>1, <2>4, <2>6 DEF Told
    <3> QED BY <1>3, <3>1, <3>2, <3>3
  <2>8. state = "Disconnected" => Off'
    BY <1>3, <1>4, <1>6, <2>1, <2>4 DEF Off
  <2>9. state \in Playing => On'
    BY <1>3, <1>7, <2>1, <2>4, <2>6 DEF On
  <2> QED BY <1>3, <2>1, <2>3, <2>5, <2>7, <2>8, <2>9 DEF Structure
\* An attempt given up does not succeed.
<1>14. ASSUME NEW ok \in BOOLEAN, Settles(ok)
       PROVE  Structure'
  <2> DEFINE e == ConnectEvent(c, ok)
  <2>1. /\ x.h \in AttemptKinds /\ x.op.gen = disconnectGen
        /\ isConnecting /\ ~isConnecting' /\ (isConnected' <=> ok) /\ isConnected' \in BOOLEAN /\ c' = 0
        /\ strand' = rest /\ owner' = Append(owner, e)
        /\ UNCHANGED <<disconnectGen, disconnectRequested, g>>
        /\ ok => ~disconnectRequested
        /\ e.what = "connect" /\ e.cb = c /\ (e.ok <=> ok)
    <3>1. Core(FALSE)'
      BY CoreStrand
    <3>2. isConnected' \in BOOLEAN
      BY <3>1 DEF Core, HandlersInv
    <3> QED BY <1>14, <3>2 DEF Settles, x, rest, ConnectEvent
  <2>2. x.h \notin {"connectCall", "disconnect"}
    BY <2>1 DEF AttemptKinds
  <2> HIDE DEF e
  <2>3. ok => c = g
    <3>1. ~Fenced(strand, disconnectGen)
      BY <1>1, <2>1, <2>2, FencedPlaces DEF x
    <3> QED BY <1>3, <2>1, <3>1 DEF Abandoned
  <2>4. ok => state = "Connecting" /\ Trying
    BY <1>3, <2>1, <2>3 DEF Asked, Told, Off, On
  <2>5. Ready(strand', Down')
    <3>1. CASE ok
      BY <1>7, <2>1, <2>4, <3>1, ReadyAlready DEF Trying
    <3>2. CASE ~ok
      <4>1. Down' = TRUE
        BY <2>1, <3>2 DEF Down
      <4> QED BY <1>5, <2>1, <2>2, <4>1, ReadyAlready
    <3> QED BY <3>1, <3>2
  <2>6. Abandoned'
    BY <2>1 DEF Abandoned
  <2>7. /\ NoEvent(owner, g) /\ c # g => NoEvent(owner', g)
        /\ NoEvent(owner, g) /\ c = g => Outcome(owner', g, isConnected')
    BY <1>1, <2>1, EventPlaces
  <2>8. state = "Connecting" => Asked' \/ Told'
    <3>1. Asked => Asked'
      BY <1>2, <1>3, <1>6, <2>1, <2>2, <2>4, <2>7 DEF Asked, Trying
    <3>2. Trying => Told'
      BY <1>3, <1>7, <2>1, <2>7 DEF Trying, Told
    <3> QED BY <1>3, <2>1, <3>1, <3>2 DEF Told
  <2>9. state = "Disconnected" => Off'
    BY <1>2, <1>3, <1>4, <1>6, <2>1, <2>4 DEF Off
  <2>10. state \notin Playing
    BY <1>3, <2>1 DEF On
  <2> QED BY <1>3, <2>1, <2>5, <2>6, <2>8, <2>9, <2>10 DEF Structure
<1>15. CASE Closes
  <2>1. /\ x.h = "disconnect" /\ Down' /\ ~isConnected' /\ ~isConnecting' /\ c' = 0
        /\ strand' = rest /\ UNCHANGED <<disconnectRequested, g>>
    BY <1>15 DEF Closes, Down, x, rest
  <2>2. Ready(strand', Down')
    <3>1. Down' = TRUE
      BY <2>1 DEF Down
    <3> QED BY <1>5, <2>1, <3>1
  <2>3. ASSUME isConnecting
        PROVE  /\ NoEvent(owner, g) /\ c # g => NoEvent(owner', g)
               /\ NoEvent(owner, g) /\ c = g => Outcome(owner', g, FALSE)
    <3> DEFINE e == ConnectEvent(c, FALSE)
    <3>1. owner' = Append(owner, e) /\ e.what = "connect" /\ e.cb = c /\ e.ok = FALSE
      BY <1>15, <2>3 DEF Closes, ConnectEvent
    <3> HIDE DEF e
    <3> QED BY <1>1, <3>1, EventPlaces
  <2>4. ASSUME ~isConnecting
        PROVE  /\ NoEvent(owner, g) => NoEvent(owner', g)
               /\ Outcome(owner, g, isConnected) => Outcome(owner', g, FALSE)
               /\ (isConnected <=> ~Ends(owner)) => Ends(owner')
    <3> DEFINE e == DisconnectEvent
    <3>1. CASE isConnected
      <4>1. owner' = Append(owner, e) /\ e.what = "disconnect"
        BY <1>15, <2>4, <3>1 DEF Closes, DisconnectEvent
      <4> HIDE DEF e
      <4> QED BY <1>1, <1>2, <3>1, <4>1, EventPlaces DEF Moves
    <3>2. CASE ~isConnected
      <4>1. owner' = owner /\ isConnected = FALSE
        BY <1>2, <1>15, <2>4, <3>2 DEF Closes
      <4> QED BY <4>1
    <3> QED BY <1>2, <3>1, <3>2
  <2>5. isConnected' = FALSE
    <3>1. Core(FALSE)'
      BY CoreStrand
    <3> QED BY <2>1, <3>1 DEF Core, HandlersInv
  <2>6. state = "Connecting" => Asked' \/ Told'
    <3>1. Asked => Asked'
      BY <1>2, <1>6, <1>9, <2>1, <2>3, <2>4 DEF Asked
    <3>2. Trying => Told'
      BY <1>3, <1>7, <2>1, <2>3, <2>5 DEF Trying, Told
    <3>3. Told => Told'
      BY <1>3, <1>7, <2>1, <2>4, <2>5 DEF Told
    <3> QED BY <1>3, <3>1, <3>2, <3>3
  <2>7. state = "Disconnected" => Off'
    BY <1>3, <1>4, <1>6, <2>1 DEF Off
  <2>8. state \in Playing => On'
    BY <1>3, <1>7, <2>1, <2>4 DEF On
  <2> QED BY <1>3, <2>1, <2>2, <2>6, <2>7, <2>8 DEF Structure, Abandoned
<1> QED BY <1>1, <1>12, <1>13, <1>14, <1>15

\* So do the completions that the network posts.
LEMMA StructureNetwork ==
  ASSUME Core(FALSE), QueuesOK, Structure, NEW x, x.h \in Kinds, strand' = Append(strand, x),
         UNCHANGED <<isConnected, isConnecting, pendingCallback, disconnectRequested, disconnectGen,
                     owner, state, connectGen>>
  PROVE  Structure'
PROOF
<1>1. IsQueue(strand) /\ x.h \notin LambdaNames /\ x.h \notin {"connectCall", "disconnect"} /\ Down \in BOOLEAN
  BY DEF QueuesOK, Kinds, LambdaNames, Down
<1>2. Ready(strand, Down) => Ready(strand', Down)
  BY <1>1, ReadyPlaces
<1>3. /\ LastConnect(strand, connectGen) => LastConnect(strand', connectGen)
      /\ NoConnect(strand, connectGen) => NoConnect(strand', connectGen)
  BY <1>1, ConnectPlaces
<1>4. /\ Connects(strand') <=> Connects(strand)
      /\ DisconnectLast(strand) => DisconnectLast(strand')
  BY <1>1, StrandQueue
<1>5. Waits(strand, "disconnect") /\ Fenced(strand, disconnectGen) => Fenced(strand', disconnectGen)
  BY <1>1, FencedPlaces
<1>6. Waits(strand, "disconnect") => Waits(strand', "disconnect")
  BY <1>1, AppendPlaces DEF Waits
<1>7. (Abandoned => Abandoned') /\ (Ready(strand, Down) => Ready(strand', Down'))
  BY <1>2, <1>5, <1>6 DEF Abandoned, Down
<1>8. (Asked => Asked') /\ (Trying => Trying') /\ (Told => Told')
  BY <1>3, <1>4 DEF Asked, Trying, Told
<1>9. (Off => Off') /\ (On => On')
  BY <1>3, <1>4 DEF Off, On, TransportGoesDown
<1> QED BY <1>7, <1>8, <1>9 DEF Structure

\* So do the calls, which are posted to the controller.
LEMMA StructureCall ==
  ASSUME Core(FALSE), QueuesOK, Structure, NEW x, x.what \in Calls, owner' = Append(owner, x),
         UNCHANGED <<isConnected, isConnecting, pendingCallback, disconnectRequested, disconnectGen,
                     strand, state, connectGen>>
  PROVE  Structure'
PROOF
<1>1. IsQueue(owner) /\ x.what \notin {"connect", "disconnect"} /\ isConnected \in BOOLEAN
  BY DEF QueuesOK, Calls, Core, HandlersInv
<1>2. /\ Ends(owner') <=> Ends(owner)
      /\ NoEvent(owner, connectGen) => NoEvent(owner', connectGen)
      /\ Outcome(owner, connectGen, isConnected) => Outcome(owner', connectGen, isConnected)
  BY <1>1, EventPlaces DEF Moves
<1>3. (Asked => Asked') /\ (Trying => Trying') /\ (Told => Told')
  BY <1>2 DEF Asked, Trying, Told
<1>4. (Off => Off') /\ (On => On')
  BY <1>2 DEF Off, On, TransportGoesDown
<1> QED BY <1>3, <1>4 DEF Structure, Abandoned, Down

\* A handler of the controller that changes no state: the head of the queue was not
\* the outcome awaited, and not the end of a connection that counts.
LEMMA StructureIgnored ==
  ASSUME Core(FALSE), QueuesOK, Structure, owner # << >>, owner' = Tail(owner),
         UNCHANGED <<isConnected, isConnecting, pendingCallback, disconnectRequested, disconnectGen,
                     strand, connectGen>>,
         state' = state \/ (state \in Playing /\ state' \in Playing),
         state = "Connecting" => ~(Head(owner).what = "connect" /\ Head(owner).cb = connectGen),
         state \in Playing => Head(owner).what # "disconnect"
  PROVE  Structure'
PROOF
<1>1. IsQueue(owner) /\ isConnected \in BOOLEAN
  BY DEF QueuesOK, Core, HandlersInv
<1>2. /\ Ends(owner) <=> Head(owner).what = "disconnect" \/ Ends(owner')
      /\ NoEvent(owner, connectGen) => NoEvent(owner', connectGen)
  BY <1>1, EventPlaces
<1>3. state = "Connecting" /\ Outcome(owner, connectGen, isConnected) => Outcome(owner', connectGen, isConnected)
  BY <1>1, EventPlaces
<1>4. (Asked => Asked') /\ (Trying => Trying') /\ (state = "Connecting" /\ Told => Told')
  BY <1>2, <1>3 DEF Asked, Trying, Told
<1>5. (Off => Off') /\ (state \in Playing /\ On => On')
  BY <1>2 DEF Off, On, TransportGoesDown
<1>6. \A s \in Playing : s # "Connecting" /\ s # "Disconnected"
  BY DEF Playing
<1> QED BY <1>4, <1>5, <1>6 DEF Structure, Abandoned, Down

\* A higher generation of the controller: nothing belongs to it yet.
LEMMA NextGeneration ==
  ASSUME Numbers, NEW n \in Nat, n > connectGen
  PROVE  /\ pendingCallback # n /\ n # 0
         /\ NoConnect(strand, n) /\ NoEvent(owner, n)
  BY DEF Numbers, NumberedHandler, NumberedEvent, NoConnect, NoEvent

\* doStart(), and rejoin(), which posts a disconnect() before.
LEMMA StructureStart ==
  ASSUME Core(FALSE), QueuesOK, Numbers, Structure, owner # << >>, owner' = Tail(owner),
         UNCHANGED <<isConnected, isConnecting, pendingCallback, disconnectGen>>,
         state' = "Connecting", NEW n \in Nat, n > connectGen, connectGen' = n,
         \/ state = "Disconnected" /\ disconnectRequested' = disconnectRequested
              /\ strand' = Append(strand, ConnectCall(n))
         \/ disconnectRequested' /\ strand' = Append(Append(strand, DisconnectLambda), ConnectCall(n))
  PROVE  Structure'
PROOF
<1> DEFINE y == DisconnectLambda
           z == ConnectCall(n)
           mid == Append(strand, y)
<1>1. /\ y.h = "disconnect" /\ z.h = "connectCall" /\ z.arg = n
      /\ IsQueue(strand) /\ IsQueue(owner) /\ Down \in BOOLEAN
  BY DEF DisconnectLambda, ConnectCall, Lambda, QueuesOK, Down
<1> HIDE DEF y, z
<1>2. IsQueue(mid)
  BY <1>1, QueueStays
<1>3. pendingCallback # n /\ NoConnect(strand, n) /\ NoEvent(owner, n)
  BY NextGeneration
<1>4. NoEvent(owner', n)
  BY <1>1, <1>3, EventPlaces
<1>5. /\ NoConnect(mid, n) /\ DisconnectLast(mid) /\ Ready(mid, Down)
      /\ Waits(mid, "disconnect")
  <2>1. Ready(strand, Down)
    BY DEF Structure
  <2>2. NoConnect(mid, n)
    BY <1>1, <1>3, ConnectPlaces
  <2>3. Ready(mid, Down)
    BY <1>1, <2>1, ReadyPlaces
  <2>4. DisconnectLast(mid)
    BY <1>1, StrandQueue
  <2> QED BY <2>2, <2>3, <2>4, ReadyAlready
<1> HIDE DEF mid
<1>6. ASSUME NEW q, IsQueue(q), NoConnect(q, n), Ready(q, Down), DisconnectLast(q) \/ (~Connects(q) /\ Down),
             strand' = Append(q, z)
      PROVE  /\ LastConnect(strand', n) /\ Ready(strand', Down')
             /\ Fenced(q, disconnectGen) => Fenced(strand', disconnectGen)
             /\ Waits(q, "disconnect") => Waits(strand', "disconnect")
  <2>1. LastConnect(Append(q, z), n)
    BY <1>1, <1>6, ConnectPlaces
  <2>2. Ready(Append(q, z), Down)
    BY <1>1, <1>6, ReadyPlaces
  <2>3. Fenced(q, disconnectGen) => Fenced(Append(q, z), disconnectGen)
    BY <1>1, <1>6, FencedPlaces DEF AttemptKinds
  <2>4. Waits(q, "disconnect") => Waits(Append(q, z), "disconnect")
    BY <1>6, AppendPlaces DEF Waits
  <2> QED BY <1>6, <2>1, <2>2, <2>3, <2>4 DEF Down
<1>7. CASE state = "Disconnected" /\ disconnectRequested' = disconnectRequested /\ strand' = Append(strand, z)
  <2>1. Off /\ Ready(strand, Down) /\ Abandoned
    BY <1>7 DEF Structure
  <2>2. /\ LastConnect(strand', n) /\ Ready(strand', Down')
        /\ Fenced(strand, disconnectGen) => Fenced(strand', disconnectGen)
        /\ Waits(strand, "disconnect") => Waits(strand', "disconnect")
    BY <1>1, <1>3, <1>6, <1>7, <2>1 DEF Off, TransportGoesDown, Down
  <2>3. Asked'
    BY <1>3, <1>4, <1>7, <2>1, <2>2 DEF Asked, Off
  <2>4. Abandoned'
    BY <1>7, <2>1, <2>2 DEF Abandoned, Off
  <2> QED BY <2>2, <2>3, <2>4 DEF Structure, Playing
<1>8. CASE disconnectRequested' /\ strand' = Append(mid, z)
  <2>1. /\ LastConnect(strand', n) /\ Ready(strand', Down') /\ Waits(strand', "disconnect")
    BY <1>2, <1>5, <1>6, <1>8
  <2>2. Asked' /\ Abandoned'
    BY <1>3, <1>4, <1>8, <2>1 DEF Asked, Abandoned
  <2> QED BY <2>1, <2>2 DEF Structure, Playing
<1> QED BY <1>7, <1>8 DEF z, mid, y

\* doShutdown()
LEMMA StructureShutdown ==
  ASSUME Core(FALSE), QueuesOK, Numbers, Structure, DoShutdown,
         UNCHANGED <<isConnected, isConnecting, pendingCallback, disconnectGen>>
  PROVE  Structure'
PROOF
<1> DEFINE y == DisconnectLambda
           n == connectGen + 1
<1>1. /\ y.h = "disconnect" /\ IsQueue(strand) /\ Down \in BOOLEAN /\ n \in Nat /\ n > connectGen
      /\ Ready(strand, Down) /\ (pendingCallback # 0 <=> isConnecting)
  BY DEF DisconnectLambda, Lambda, QueuesOK, Down, Numbers, Structure
<1>2. strand' = Append(strand, y) /\ disconnectRequested' /\ connectGen' = n /\ state' = "Disconnected"
  BY DEF DoShutdown, DisconnectFrom
<1> HIDE DEF y, n
<1>3. pendingCallback # n /\ NoConnect(strand, n)
  BY <1>1, NextGeneration
<1>4. /\ NoConnect(strand', n) /\ DisconnectLast(strand')
      /\ Ready(strand', Down) /\ Waits(strand', "disconnect")
  BY <1>1, <1>2, <1>3, ConnectPlaces, StrandQueue, ReadyPlaces, ReadyAlready
<1>5. Abandoned' /\ Off' /\ Ready(strand', Down')
  BY <1>2, <1>3, <1>4 DEF Abandoned, Off, TransportGoesDown, Down
<1> QED BY <1>1, <1>2, <1>5 DEF Structure, Playing

\* Messages that answer a JOIN, and those of them that end the session.
IsAnswer(x) == x.what = "message" /\ x.msg \in {"Accept", "Reject", "GameEnd"}

IsFinal(x) == x.what = "message" /\ x.msg \in {"Reject", "GameEnd"}

Answered(o) == \E k \in DOMAIN o : IsAnswer(o[k])

LEMMA TwoPosts ==
  ASSUME NEW q, IsQueue(q), NEW a, NEW b
  PROVE  q \o <<a, b>> = Append(Append(q, a), b)
PROOF
<1>1. PICK S : q \in Seq(S)
  BY DEF IsQueue
<1> DEFINE T == S \cup {a, b}
<1>2. q \in Seq(T) /\ a \in T /\ b \in T
  BY <1>1
<1> HIDE DEF T
<1> QED BY <1>2

\* The handlers of the controller keep the structure, if no answer comes while it
\* is Connecting.
LEMMA StructureController ==
  ASSUME Core(FALSE), QueuesOK, Numbers, Structure, state = "Connecting" => ~Answered(owner), ControllerStep
  PROVE  Structure'
PROOF
<1> USE DEF Serving
<1>1. /\ owner # << >> /\ owner' = Tail(owner)
      /\ UNCHANGED <<isConnected, isConnecting, pendingCallback, disconnectGen>>
  BY DEF ControllerStep, StartHandler, ShutdownHandler, RejoinHandler, ShootHandler, ConnectCallback,
     MessageHandler, DisconnectCallback, HandlerFrame, connVars, genVars
<1>2. /\ IsQueue(strand) /\ IsQueue(owner) /\ isConnected \in BOOLEAN
      /\ connectGen \in Nat /\ connectGen + 1 > connectGen /\ connectGen + 2 > connectGen
      /\ connectGen + 1 \in Nat /\ connectGen + 2 \in Nat
  BY DEF QueuesOK, Core, HandlersInv, Numbers
<1>3. /\ state \in {"Disconnected", "Connecting"} \cup Playing
      /\ state = "Connecting" => Asked \/ Trying \/ Told
      /\ state \in Playing => On
      /\ Ready(strand, Down) /\ (pendingCallback # 0 <=> isConnecting) /\ Abandoned
  BY DEF Structure
<1>4. \A s \in Playing : s # "Connecting" /\ s # "Disconnected"
  BY DEF Playing
\* Handlers that change nothing.
<1>5. ASSUME Ignored,
             state = "Connecting" => ~(Head(owner).what = "connect" /\ Head(owner).cb = connectGen),
             state \in Playing => Head(owner).what # "disconnect"
      PROVE  Structure'
  BY <1>1, <1>5, StructureIgnored DEF Ignored, ctlVars
<1>6. CASE StartHandler
  <2>1. Head(owner).what = "start"
    BY <1>6 DEF StartHandler
  <2>2. CASE state # "Disconnected"
    BY <1>5, <1>6, <2>1, <2>2 DEF StartHandler
  <2>3. CASE state = "Disconnected"
    <3>1. /\ state' = "Connecting" /\ connectGen' = connectGen + 1 /\ strand' = Append(strand, ConnectCall(connectGen + 1))
          /\ disconnectRequested' = disconnectRequested
      BY <1>6, <2>3 DEF StartHandler
    <3> QED BY <1>1, <1>2, <2>3, <3>1, StructureStart
  <2> QED BY <2>2, <2>3
<1>7. CASE ShutdownHandler
  BY <1>1, <1>7, StructureShutdown DEF ShutdownHandler
<1>8. CASE RejoinHandler
  <2>1. /\ state' = "Connecting" /\ connectGen' = connectGen + 2 /\ disconnectRequested'
        /\ strand' = strand \o <<DisconnectLambda, ConnectCall(connectGen + 2)>>
    BY <1>8 DEF RejoinHandler
  <2>2. strand' = Append(Append(strand, DisconnectLambda), ConnectCall(connectGen + 2))
    BY <1>2, <2>1, TwoPosts
  <2> QED BY <1>1, <1>2, <2>1, <2>2, StructureStart
<1>9. CASE ShootHandler
  BY <1>5, <1>9 DEF ShootHandler
<1>10. CASE ConnectCallback
  <2> DEFINE e == Head(owner)
  <2>1. e.what = "connect"
    BY <1>10 DEF ConnectCallback
  <2>2. CASE e.cb # connectGen \/ state # "Connecting"
    BY <1>5, <1>10, <2>1, <2>2 DEF ConnectCallback
  <2>3. CASE e.cb = connectGen /\ state = "Connecting"
    <3>1. Told
      <4>1. ~NoEvent(owner, connectGen)
        BY <1>1, <1>2, <2>1, <2>3, EventPlaces
      <4> QED BY <1>3, <2>3, <4>1 DEF Asked, Trying
    <3>2. (e.ok => (isConnected <=> ~Ends(owner'))) /\ (~e.ok => ~isConnected)
      <4>1. Outcome(owner, connectGen, isConnected)
        BY <3>1 DEF Told
      <4>2. Outcome(owner, connectGen, TRUE) => e.ok /\ ~Ends(Tail(owner))
        BY <1>1, <1>2, <2>1, <2>3, EventPlaces
      <4>3. Outcome(owner, connectGen, FALSE) /\ e.ok => Ends(Tail(owner))
        BY <1>1, <1>2, <2>1, <2>3, EventPlaces
      <4>4. isConnected = TRUE \/ isConnected = FALSE
        BY <1>2
      <4> QED BY <1>1, <4>1, <4>2, <4>3, <4>4
    <3>3. CASE ~e.ok
      <4>1. state' = "Disconnected" /\ UNCHANGED <<connectGen, disconnectRequested, strand>>
        BY <1>10, <2>3, <3>3 DEF ConnectCallback, ConnectFailed
      <4>2. Off'
        BY <1>1, <3>1, <3>2, <3>3, <4>1, ReadyAlready DEF Told, Off, TransportGoesDown
      <4> QED BY <1>1, <1>3, <4>1, <4>2 DEF Structure, Abandoned, Down, Playing
    <3>4. CASE e.ok
      <4> DEFINE y == Lambda("sendCall", "JOIN")
      <4>1. /\ state' = "Joining" /\ UNCHANGED <<connectGen, disconnectRequested>>
            /\ strand' = Append(strand, y) /\ y.h = "sendCall"
        BY <1>10, <2>3, <3>4 DEF ConnectCallback, SendJoin, Lambda
      <4> HIDE DEF y
      <4>2. ~Connects(strand')
        BY <1>2, <3>1, <4>1, StrandQueue DEF Told
      <4>3. On'
        BY <1>1, <3>1, <3>2, <3>4, <4>2 DEF On, Told
      <4>4. Ready(strand', Down')
        BY <4>2, ReadyAlready
      <4> QED BY <1>1, <1>3, <3>1, <4>1, <4>3, <4>4 DEF Structure, Abandoned, Told, Playing
    <3> QED BY <3>3, <3>4
  <2> QED BY <2>2, <2>3
<1>11. CASE MessageHandler
  <2> DEFINE msg == Head(owner).msg
  <2>1. Head(owner).what = "message"
    BY <1>11 DEF MessageHandler
  <2>2. CASE state = "Disconnected" \/ msg = "Unknown"
    <3>1. Ignored
      BY <1>11, <2>2 DEF MessageHandler
    <3> QED BY <1>5, <2>1, <3>1
  <2>3. CASE state # "Disconnected" /\ msg \in {"Accept", "GameEnd"}
    <3>1. state \in Playing
      <4>1. IsAnswer(Head(owner))
        BY <2>1, <2>3 DEF IsAnswer
      <4>2. 1 \in DOMAIN owner /\ owner[1] = Head(owner)
        BY <1>1, <1>2, TailPlaces
      <4>3. Answered(owner)
        BY <4>1, <4>2 DEF Answered
      <4> QED BY <1>3, <2>3, <4>3
    <3>2. state' \in Playing /\ UNCHANGED <<connectGen, disconnectRequested, strand>>
      BY <1>11, <2>3 DEF MessageHandler, Playing
    <3> QED BY <1>1, <1>4, <2>1, <3>1, <3>2, StructureIgnored
  <2>4. CASE state # "Disconnected" /\ msg = "Reject"
    <3>1. DoShutdown
      BY <1>11, <2>4 DEF MessageHandler
    <3> QED BY <1>1, <3>1, StructureShutdown
  <2> QED BY <1>11, <2>2, <2>3, <2>4 DEF MessageHandler
<1>12. CASE DisconnectCallback
  <2>1. Head(owner).what = "disconnect"
    BY <1>12 DEF DisconnectCallback
  <2>2. CASE state \in {"Disconnected", "Connecting"}
    BY <1>4, <1>5, <1>12, <2>1, <2>2 DEF DisconnectCallback
  <2>3. CASE state \notin {"Disconnected", "Connecting"}
    <3>1. state' = "Disconnected" /\ UNCHANGED <<connectGen, disconnectRequested, strand>>
      BY <1>12, <2>3 DEF DisconnectCallback
    <3>2. Ends(owner) /\ On
      BY <1>1, <1>2, <1>3, <2>1, <2>3, EventPlaces
    <3>3. Off'
      BY <1>1, <3>1, <3>2, ReadyAlready DEF On, Off, TransportGoesDown
    <3> QED BY <1>1, <1>3, <3>1, <3>3 DEF Structure, Abandoned, Down, Playing
  <2> QED BY <2>2, <2>3
<1> QED BY <1>6, <1>7, <1>8, <1>9, <1>10, <1>11, <1>12 DEF ControllerStep

-----------------------------------------------------------------------------
(* The controller and the server: JOIN and its answers *)

Open == isConnected /\ ~disconnectRequested

AnswerMsgs == {"Accept", "Reject", "GameEnd"}

FinalMsgs == {"Reject", "GameEnd"}

\* TcpClient writes nothing but JOIN, and an attempt brings no message.
JoinHandler(x) ==
  /\ x.h = "sendCall" => x.arg = "JOIN"
  /\ x.h = "write" => x.op.arg = "JOIN"
  /\ x.h = "connect" => x.msg = "none"

Frames ==
  /\ \A k \in DOMAIN strand : JoinHandler(strand[k])
  /\ \A op \in ops : op.kind = "write" => op.arg = "JOIN"

\* A completion of generation g with success waits, which brings one of the messages M.
Has(q, g, h, M) == \E k \in DOMAIN q : q[k].h = h /\ q[k].op.gen = g /\ q[k].ok /\ q[k].msg \in M

Brings(q, g, M) == Has(q, g, "read", M)

\* Every send() was posted before every connect() that waits.
SendsFirst(q) ==
  \A j, k \in DOMAIN q : q[j].h = "sendCall" /\ q[k].h = "connectCall" => j < k

OneSend(q) == \A j, k \in DOMAIN q : q[j].h = "sendCall" /\ q[k].h = "sendCall" => j = k

\* One JOIN is sent on a connection, after the controller has been told of it, and
\* the server answers only that.
OpenInv ==
  /\ OneSend(strand) /\ (Waits(strand, "sendCall") => ~isWriting /\ server = "open")
  /\ writeQueue = IF isWriting THEN <<"JOIN">> ELSE << >>
  /\ server \in {"open", "joined", "ended"}
  /\ server # "open" => UnderWay(ops, disconnectGen, {"write"}) = {}
  /\ state = "Connecting" => server = "open" /\ ~Waits(strand, "sendCall") /\ ~isWriting
  /\ Brings(strand, disconnectGen, AnswerMsgs) => server # "open"
  /\ Brings(strand, disconnectGen, FinalMsgs) => server = "ended"

ServerInv ==
  /\ Has(strand, disconnectGen, "connect", {"none"}) => server = "open"
  /\ SendsFirst(strand)
  /\ isConnecting => ~Waits(strand, "sendCall")
  /\ Open => OpenInv

\* Nothing more is answered on the connection.
Done == Open => server = "ended" /\ ~Brings(strand, disconnectGen, AnswerMsgs)

HasFinal(o) == \E k \in DOMAIN o : IsFinal(o[k])

FinalLast(o) == \A j, k \in DOMAIN o : IsAnswer(o[j]) /\ IsFinal(o[k]) => j <= k

\* No answer reaches a Connecting controller or one whose game is over, and a final
\* answer is the last.
Answers ==
  /\ state = "Connecting" => ~Answered(owner)
  /\ state = "GameOver" => ~Answered(owner) /\ Done
  /\ state \in {"Joining", "InGame"} => FinalLast(owner) /\ (HasFinal(owner) => Done)

Pending(o, c) == \E k \in DOMAIN o : o[k].what = c

OneCall(o) == \A j, k \in DOMAIN o : o[j].what \in Calls /\ o[k].what \in Calls => j = k

AnswersFirst(o) ==
  \A j, k \in DOMAIN o : IsAnswer(o[j]) /\ o[k].what \in {"start", "rejoin"} => j < k

\* A polite start() or rejoin() waits behind all answers.
Restarting ==
  /\ OneCall(owner) /\ AnswersFirst(owner)
  /\ Pending(owner, "start") => state = "Disconnected"
  /\ Pending(owner, "rejoin") => state \in {"Disconnected", "GameOver"}

ControllerInv ==
  /\ Core(FALSE) /\ QueuesOK /\ Numbers /\ Structure
  /\ Frames /\ ServerInv /\ Answers /\ Restarting
  /\ JoinBeforeGame

\* The labels of the handlers and of the events, when something is posted or taken.
LEMMA LabelPlaces ==
  ASSUME NEW q, IsQueue(q), NEW g
  PROVE  /\ \A x : /\ (\A k \in DOMAIN q : NumberedHandler(q[k], g)) /\ NumberedHandler(x, g)
                        => \A k \in DOMAIN Append(q, x) : NumberedHandler(Append(q, x)[k], g)
                   /\ (\A k \in DOMAIN q : JoinHandler(q[k])) /\ JoinHandler(x)
                        => \A k \in DOMAIN Append(q, x) : JoinHandler(Append(q, x)[k])
                   /\ (\A k \in DOMAIN q : NumberedEvent(q[k], g)) /\ NumberedEvent(x, g)
                        => \A k \in DOMAIN Append(q, x) : NumberedEvent(Append(q, x)[k], g)
         /\ q # << >> =>
              /\ (\A k \in DOMAIN q : NumberedHandler(q[k], g))
                   => NumberedHandler(Head(q), g) /\ \A k \in DOMAIN Tail(q) : NumberedHandler(Tail(q)[k], g)
              /\ (\A k \in DOMAIN q : JoinHandler(q[k]))
                   => JoinHandler(Head(q)) /\ \A k \in DOMAIN Tail(q) : JoinHandler(Tail(q)[k])
              /\ (\A k \in DOMAIN q : NumberedEvent(q[k], g))
                   => \A k \in DOMAIN Tail(q) : NumberedEvent(Tail(q)[k], g)
PROOF
<1> DEFINE Fits(p) == \A k \in DOMAIN p : NumberedHandler(p[k], g)
           Joins(p) == \A k \in DOMAIN p : JoinHandler(p[k])
           Tells(p) == \A k \in DOMAIN p : NumberedEvent(p[k], g)
<1>1. ASSUME NEW x
      PROVE  /\ Fits(q) /\ NumberedHandler(x, g) => Fits(Append(q, x))
             /\ Joins(q) /\ JoinHandler(x) => Joins(Append(q, x))
             /\ Tells(q) /\ NumberedEvent(x, g) => Tells(Append(q, x))
  <2> DEFINE p == Append(q, x)
  <2>1. /\ DOMAIN p = DOMAIN q \cup {Len(q) + 1} /\ p[Len(q) + 1] = x
        /\ \A k \in DOMAIN q : p[k] = q[k]
    BY AppendPlaces
  <2> HIDE DEF p
  <2>2. /\ Fits(q) /\ NumberedHandler(x, g) => Fits(p)
        /\ Joins(q) /\ JoinHandler(x) => Joins(p)
        /\ Tells(q) /\ NumberedEvent(x, g) => Tells(p)
    BY <2>1, Zenon
  <2> QED BY <2>2 DEF p
<1>2. ASSUME q # << >>
      PROVE  /\ Fits(q) => NumberedHandler(Head(q), g) /\ Fits(Tail(q))
             /\ Joins(q) => JoinHandler(Head(q)) /\ Joins(Tail(q))
             /\ Tells(q) => Tells(Tail(q))
  <2> DEFINE p == Tail(q)
  <2>1. /\ \A k \in DOMAIN p : k + 1 \in DOMAIN q /\ p[k] = q[k + 1]
        /\ 1 \in DOMAIN q /\ q[1] = Head(q)
    BY <1>2, TailPlaces
  <2> HIDE DEF p
  <2>2. /\ Fits(q) => NumberedHandler(Head(q), g) /\ Fits(p)
        /\ Joins(q) => JoinHandler(Head(q)) /\ Joins(p)
        /\ Tells(q) => Tells(p)
    BY <2>1, Zenon
  <2> QED BY <2>2 DEF p
<1> QED BY <1>1, <1>2

\* The completions that wait.
LEMMA CompletionPlaces ==
  ASSUME NEW q, IsQueue(q), NEW g, NEW h, NEW M
  PROVE  /\ \A x : Has(Append(q, x), g, h, M) <=>
              Has(q, g, h, M) \/ (x.h = h /\ x.op.gen = g /\ x.ok /\ x.msg \in M)
         /\ q # << >> =>
              (Has(q, g, h, M) <=>
                Has(Tail(q), g, h, M)
                  \/ (Head(q).h = h /\ Head(q).op.gen = g /\ Head(q).ok /\ Head(q).msg \in M))
         /\ \A K : h \in K /\ Completed(q, g, K) = {} => ~Has(q, g, h, M)
PROOF
<1>1. ASSUME NEW x
      PROVE  Has(Append(q, x), g, h, M) <=>
               Has(q, g, h, M) \/ (x.h = h /\ x.op.gen = g /\ x.ok /\ x.msg \in M)
  <2> DEFINE p == Append(q, x)
  <2>1. /\ DOMAIN p = DOMAIN q \cup {Len(q) + 1} /\ p[Len(q) + 1] = x
        /\ \A k \in DOMAIN q : p[k] = q[k]
    BY AppendPlaces
  <2> HIDE DEF p
  <2>2. Has(p, g, h, M) <=> Has(q, g, h, M) \/ (x.h = h /\ x.op.gen = g /\ x.ok /\ x.msg \in M)
    BY <2>1, Zenon DEF Has
  <2> QED BY <2>2 DEF p
<1>2. ASSUME q # << >>
      PROVE  Has(q, g, h, M) <=>
               Has(Tail(q), g, h, M)
                 \/ (Head(q).h = h /\ Head(q).op.gen = g /\ Head(q).ok /\ Head(q).msg \in M)
  <2> DEFINE p == Tail(q)
  <2>1. /\ \A k \in DOMAIN p : k + 1 \in DOMAIN q /\ p[k] = q[k + 1]
        /\ \A k \in DOMAIN q : k = 1 \/ (k - 1 \in DOMAIN p /\ p[k - 1] = q[k])
        /\ 1 \in DOMAIN q /\ q[1] = Head(q)
    BY <1>2, TailPlaces
  <2> HIDE DEF p
  <2>2. Has(q, g, h, M) <=>
          Has(p, g, h, M) \/ (Head(q).h = h /\ Head(q).op.gen = g /\ Head(q).ok /\ Head(q).msg \in M)
    BY <2>1, Zenon DEF Has
  <2> QED BY <2>2 DEF p
<1>3. \A K : h \in K /\ Completed(q, g, K) = {} => ~Has(q, g, h, M)
  BY DEF Completed, Has
<1> QED BY <1>1, <1>2, <1>3

\* The calls of send().
LEMMA SendPlaces ==
  ASSUME NEW q, IsQueue(q)
  PROVE  /\ \A x : /\ Waits(Append(q, x), "sendCall") <=> Waits(q, "sendCall") \/ x.h = "sendCall"
                   /\ SendsFirst(q) /\ (x.h = "sendCall" => ~Connects(q)) => SendsFirst(Append(q, x))
                   /\ OneSend(q) /\ (x.h = "sendCall" => ~Waits(q, "sendCall")) => OneSend(Append(q, x))
         /\ q # << >> =>
              /\ Waits(q, "sendCall") <=> Waits(Tail(q), "sendCall") \/ Head(q).h = "sendCall"
              /\ SendsFirst(q) => /\ SendsFirst(Tail(q))
                                  /\ Head(q).h = "connectCall" => ~Waits(Tail(q), "sendCall")
              /\ OneSend(q) => /\ OneSend(Tail(q))
                               /\ Head(q).h = "sendCall" => ~Waits(Tail(q), "sendCall")
PROOF
<1>1. ASSUME NEW x
      PROVE  /\ Waits(Append(q, x), "sendCall") <=> Waits(q, "sendCall") \/ x.h = "sendCall"
             /\ SendsFirst(q) /\ (x.h = "sendCall" => ~Connects(q)) => SendsFirst(Append(q, x))
             /\ OneSend(q) /\ (x.h = "sendCall" => ~Waits(q, "sendCall")) => OneSend(Append(q, x))
  <2> DEFINE p == Append(q, x)
             n == Len(q) + 1
  <2>1. /\ DOMAIN p = DOMAIN q \cup {n} /\ p[n] = x
        /\ \A k \in DOMAIN q : p[k] = q[k] /\ k \in Nat /\ k < n
    BY AppendPlaces
  <2> HIDE DEF p, n
  <2>2. Waits(p, "sendCall") <=> Waits(q, "sendCall") \/ x.h = "sendCall"
    BY <2>1 DEF Waits
  <2>3. SendsFirst(q) /\ (x.h = "sendCall" => ~Connects(q)) => SendsFirst(p)
    BY <2>1 DEF SendsFirst, Connects
  <2>4. OneSend(q) /\ (x.h = "sendCall" => ~Waits(q, "sendCall")) => OneSend(p)
    BY <2>1 DEF OneSend, Waits
  <2> QED BY <2>2, <2>3, <2>4 DEF p
<1>2. ASSUME q # << >>
      PROVE  /\ Waits(q, "sendCall") <=> Waits(Tail(q), "sendCall") \/ Head(q).h = "sendCall"
             /\ SendsFirst(q) => /\ SendsFirst(Tail(q))
                                 /\ Head(q).h = "connectCall" => ~Waits(Tail(q), "sendCall")
             /\ OneSend(q) => /\ OneSend(Tail(q))
                              /\ Head(q).h = "sendCall" => ~Waits(Tail(q), "sendCall")
  <2> DEFINE p == Tail(q)
  <2>1. /\ \A k \in DOMAIN p : k \in Nat /\ k >= 1 /\ k + 1 \in DOMAIN q /\ p[k] = q[k + 1]
        /\ \A k \in DOMAIN q : k \in Nat /\ (k = 1 \/ (k - 1 \in DOMAIN p /\ p[k - 1] = q[k]))
        /\ 1 \in DOMAIN q /\ q[1] = Head(q)
    BY <1>2, TailPlaces
  <2> HIDE DEF p
  <2>2. Waits(q, "sendCall") <=> Waits(p, "sendCall") \/ Head(q).h = "sendCall"
    BY <2>1, Zenon DEF Waits
  <2>3. ASSUME SendsFirst(q)
        PROVE  SendsFirst(p) /\ (Head(q).h = "connectCall" => ~Waits(p, "sendCall"))
    <3>1. ASSUME NEW j \in DOMAIN p, NEW k \in DOMAIN p, p[j].h = "sendCall", p[k].h = "connectCall"
          PROVE  j < k
      <4>1. j + 1 < k + 1 /\ j \in Nat /\ k \in Nat
        BY <2>1, <2>3, <3>1 DEF SendsFirst
      <4> QED BY <4>1
    <3>2. ASSUME Head(q).h = "connectCall", NEW j \in DOMAIN p, p[j].h = "sendCall"
          PROVE  FALSE
      <4>1. j + 1 < 1 /\ j \in Nat
        BY <2>1, <2>3, <3>2 DEF SendsFirst
      <4> QED BY <4>1
    <3> QED BY <3>1, <3>2 DEF SendsFirst, Waits
  <2>4. ASSUME OneSend(q)
        PROVE  OneSend(p) /\ (Head(q).h = "sendCall" => ~Waits(p, "sendCall"))
    <3>1. ASSUME NEW j \in DOMAIN p, NEW k \in DOMAIN p, p[j].h = "sendCall", p[k].h = "sendCall"
          PROVE  j = k
      <4>1. j + 1 = k + 1 /\ j \in Nat /\ k \in Nat
        BY <2>1, <2>4, <3>1 DEF OneSend
      <4> QED BY <4>1
    <3>2. ASSUME Head(q).h = "sendCall", NEW j \in DOMAIN p, p[j].h = "sendCall"
          PROVE  FALSE
      <4>1. j + 1 = 1 /\ j \in Nat /\ j >= 1
        BY <2>1, <2>4, <3>2 DEF OneSend
      <4> QED BY <4>1
    <3> QED BY <3>1, <3>2 DEF OneSend, Waits
  <2> QED BY <2>2, <2>3, <2>4 DEF p
<1> QED BY <1>1, <1>2

\* The owner's queue: answers and calls.
LEMMA AnswerPlaces ==
  ASSUME NEW o, IsQueue(o)
  PROVE  /\ \A x : /\ Answered(Append(o, x)) <=> Answered(o) \/ IsAnswer(x)
                   /\ HasFinal(Append(o, x)) <=> HasFinal(o) \/ IsFinal(x)
                   /\ \A c : Pending(Append(o, x), c) <=> Pending(o, c) \/ x.what = c
                   /\ FinalLast(o) /\ (IsAnswer(x) => ~HasFinal(o)) => FinalLast(Append(o, x))
                   /\ AnswersFirst(o) /\ (IsAnswer(x) => ~Pending(o, "start") /\ ~Pending(o, "rejoin"))
                        => AnswersFirst(Append(o, x))
                   /\ OneCall(o) /\ (x.what \in Calls => \A c \in Calls : ~Pending(o, c)) => OneCall(Append(o, x))
         /\ o # << >> =>
              /\ Answered(o) <=> Answered(Tail(o)) \/ IsAnswer(Head(o))
              /\ HasFinal(o) <=> HasFinal(Tail(o)) \/ IsFinal(Head(o))
              /\ \A c : Pending(o, c) <=> Pending(Tail(o), c) \/ Head(o).what = c
              /\ FinalLast(o) => FinalLast(Tail(o)) /\ (IsFinal(Head(o)) => ~Answered(Tail(o)))
              /\ AnswersFirst(o) =>
                   AnswersFirst(Tail(o)) /\ (Head(o).what \in {"start", "rejoin"} => ~Answered(Tail(o)))
              /\ OneCall(o) =>
                   OneCall(Tail(o)) /\ (Head(o).what \in Calls => \A c \in Calls : ~Pending(Tail(o), c))
         /\ ~Answered(o) => FinalLast(o) /\ ~HasFinal(o)
PROOF
<1>1. ASSUME NEW x
      PROVE  /\ Answered(Append(o, x)) <=> Answered(o) \/ IsAnswer(x)
             /\ HasFinal(Append(o, x)) <=> HasFinal(o) \/ IsFinal(x)
             /\ \A c : Pending(Append(o, x), c) <=> Pending(o, c) \/ x.what = c
             /\ FinalLast(o) /\ (IsAnswer(x) => ~HasFinal(o)) => FinalLast(Append(o, x))
             /\ AnswersFirst(o) /\ (IsAnswer(x) => ~Pending(o, "start") /\ ~Pending(o, "rejoin"))
                  => AnswersFirst(Append(o, x))
             /\ OneCall(o) /\ (x.what \in Calls => \A c \in Calls : ~Pending(o, c)) => OneCall(Append(o, x))
  <2> DEFINE p == Append(o, x)
             n == Len(o) + 1
  <2>1. /\ DOMAIN p = DOMAIN o \cup {n} /\ p[n] = x
        /\ \A k \in DOMAIN o : p[k] = o[k] /\ k \in Nat /\ k < n /\ k <= n
        /\ n \in Nat /\ n <= n
    BY AppendPlaces DEF IsQueue
  <2> HIDE DEF p, n
  <2>2. Answered(p) <=> Answered(o) \/ IsAnswer(x)
    BY <2>1, Zenon DEF Answered
  <2>3. HasFinal(p) <=> HasFinal(o) \/ IsFinal(x)
    BY <2>1, Zenon DEF HasFinal
  <2>4. \A c : Pending(p, c) <=> Pending(o, c) \/ x.what = c
    BY <2>1, Zenon DEF Pending
  <2>5. FinalLast(o) /\ (IsAnswer(x) => ~HasFinal(o)) => FinalLast(p)
    BY <2>1 DEF FinalLast, HasFinal
  <2>6. AnswersFirst(o) /\ (IsAnswer(x) => ~Pending(o, "start") /\ ~Pending(o, "rejoin")) => AnswersFirst(p)
    <3>1. IsAnswer(x) => x.what = "message"
      BY DEF IsAnswer
    <3> QED BY <2>1, <3>1 DEF AnswersFirst, Pending
  <2>7. OneCall(o) /\ (x.what \in Calls => \A c \in Calls : ~Pending(o, c)) => OneCall(p)
    BY <2>1 DEF OneCall, Pending
  <2> QED BY <2>2, <2>3, <2>4, <2>5, <2>6, <2>7 DEF p
<1>2. ASSUME o # << >>
      PROVE  /\ Answered(o) <=> Answered(Tail(o)) \/ IsAnswer(Head(o))
             /\ HasFinal(o) <=> HasFinal(Tail(o)) \/ IsFinal(Head(o))
             /\ \A c : Pending(o, c) <=> Pending(Tail(o), c) \/ Head(o).what = c
             /\ FinalLast(o) => FinalLast(Tail(o)) /\ (IsFinal(Head(o)) => ~Answered(Tail(o)))
             /\ AnswersFirst(o) =>
                  AnswersFirst(Tail(o)) /\ (Head(o).what \in {"start", "rejoin"} => ~Answered(Tail(o)))
             /\ OneCall(o) =>
                  OneCall(Tail(o)) /\ (Head(o).what \in Calls => \A c \in Calls : ~Pending(Tail(o), c))
  <2> DEFINE p == Tail(o)
  <2>1. /\ \A k \in DOMAIN p : k \in Nat /\ k >= 1 /\ k + 1 \in DOMAIN o /\ p[k] = o[k + 1]
        /\ \A k \in DOMAIN o : k \in Nat /\ (k = 1 \/ (k - 1 \in DOMAIN p /\ p[k - 1] = o[k]))
        /\ 1 \in DOMAIN o /\ o[1] = Head(o)
    BY <1>2, TailPlaces
  <2> HIDE DEF p
  <2>2. Answered(o) <=> Answered(p) \/ IsAnswer(Head(o))
    BY <2>1, Zenon DEF Answered
  <2>3. HasFinal(o) <=> HasFinal(p) \/ IsFinal(Head(o))
    BY <2>1, Zenon DEF HasFinal
  <2>4. \A c : Pending(o, c) <=> Pending(p, c) \/ Head(o).what = c
    BY <2>1, Zenon DEF Pending
  <2>5. ASSUME FinalLast(o)
        PROVE  FinalLast(p) /\ (IsFinal(Head(o)) => ~Answered(p))
    <3>1. ASSUME NEW j \in DOMAIN p, NEW k \in DOMAIN p, IsAnswer(p[j]), IsFinal(p[k])
          PROVE  j <= k
      <4>1. j + 1 <= k + 1 /\ j \in Nat /\ k \in Nat
        BY <2>1, <2>5, <3>1 DEF FinalLast
      <4> QED BY <4>1
    <3>2. ASSUME IsFinal(Head(o)), NEW j \in DOMAIN p, IsAnswer(p[j])
          PROVE  FALSE
      <4>1. j + 1 <= 1 /\ j \in Nat /\ j >= 1
        BY <2>1, <2>5, <3>2 DEF FinalLast
      <4> QED BY <4>1
    <3> QED BY <3>1, <3>2 DEF FinalLast, Answered
  <2>6. ASSUME AnswersFirst(o)
        PROVE  AnswersFirst(p) /\ (Head(o).what \in {"start", "rejoin"} => ~Answered(p))
    <3>1. ASSUME NEW j \in DOMAIN p, NEW k \in DOMAIN p, IsAnswer(p[j]), p[k].what \in {"start", "rejoin"}
          PROVE  j < k
      <4>1. j + 1 < k + 1 /\ j \in Nat /\ k \in Nat
        BY <2>1, <2>6, <3>1 DEF AnswersFirst
      <4> QED BY <4>1
    <3>2. ASSUME Head(o).what \in {"start", "rejoin"}, NEW j \in DOMAIN p, IsAnswer(p[j])
          PROVE  FALSE
      <4>1. j + 1 < 1 /\ j \in Nat
        BY <2>1, <2>6, <3>2 DEF AnswersFirst
      <4> QED BY <4>1
    <3> QED BY <3>1, <3>2 DEF AnswersFirst, Answered
  <2>7. ASSUME OneCall(o)
        PROVE  OneCall(p) /\ (Head(o).what \in Calls => \A c \in Calls : ~Pending(p, c))
    <3>1. ASSUME NEW j \in DOMAIN p, NEW k \in DOMAIN p, p[j].what \in Calls, p[k].what \in Calls
          PROVE  j = k
      <4>1. j + 1 = k + 1 /\ j \in Nat /\ k \in Nat
        BY <2>1, <2>7, <3>1 DEF OneCall
      <4> QED BY <4>1
    <3>2. ASSUME Head(o).what \in Calls, NEW j \in DOMAIN p, p[j].what \in Calls
          PROVE  FALSE
      <4>1. j + 1 = 1 /\ j \in Nat /\ j >= 1
        BY <2>1, <2>7, <3>2 DEF OneCall
      <4> QED BY <4>1
    <3> QED BY <3>1, <3>2 DEF OneCall, Pending
  <2> QED BY <2>2, <2>3, <2>4, <2>5, <2>6, <2>7 DEF p
<1>3. ~Answered(o) => FinalLast(o) /\ ~HasFinal(o)
  BY DEF Answered, FinalLast, HasFinal, IsAnswer, IsFinal
<1> QED BY <1>1, <1>2, <1>3

\* The handlers of TcpClient keep the numbers of the callbacks and the frames.
LEMMA NumbersStrand ==
  ASSUME Core(FALSE), QueuesOK, Numbers, Structure, StrandStep, UNCHANGED connectGen
  PROVE  Numbers'
PROOF
<1> DEFINE rest == Tail(strand)
           g    == connectGen
<1>1. /\ strand # << >> /\ IsQueue(strand) /\ IsQueue(owner) /\ IsQueue(rest)
      /\ Begins \/ GoesOn \/ Settles(TRUE) \/ Settles(FALSE) \/ Closes
      /\ pendingCallback # 0 <=> isConnecting
  BY StrandEffect, QueueStays DEF QueuesOK, Structure
<1>2. /\ NumberedHandler(Head(strand), g) /\ \A k \in DOMAIN rest : NumberedHandler(rest[k], g)
      /\ NumberedHandler(DisconnectLambda, g)
  BY <1>1, LabelPlaces DEF Numbers, DisconnectLambda, Lambda, NumberedHandler
<1>3. \A k \in DOMAIN strand' : NumberedHandler(strand'[k], g)
  <2>1. \A k \in DOMAIN Append(rest, DisconnectLambda) : NumberedHandler(Append(rest, DisconnectLambda)[k], g)
    BY <1>1, <1>2, LabelPlaces
  <2>2. strand' = rest \/ strand' = Append(rest, DisconnectLambda)
    BY <1>1 DEF Begins, GoesOn, Settles, Closes
  <2> QED BY <1>2, <2>1, <2>2
<1>4. connectGen \in Nat /\ pendingCallback \in 0 .. g
  BY DEF Numbers
<1>5. pendingCallback' \in 0 .. g
  <2>1. \/ pendingCallback' = pendingCallback \/ pendingCallback' = 0
        \/ Head(strand).h = "connectCall" /\ pendingCallback' = Head(strand).arg
    BY <1>1 DEF Begins, GoesOn, Settles, Closes
  <2> QED BY <1>2, <1>4, <2>1 DEF NumberedHandler
<1>6. \A k \in DOMAIN owner' : NumberedEvent(owner'[k], g)
  <2>1. ASSUME NEW x, NumberedEvent(x, g), owner' = Append(owner, x)
        PROVE  \A k \in DOMAIN owner' : NumberedEvent(owner'[k], g)
    BY <1>1, <2>1, LabelPlaces DEF Numbers
  <2>2. NumberedEvent(DisconnectEvent, g) /\ \A msg : NumberedEvent(MessageEvent(msg), g)
    BY DEF NumberedEvent, DisconnectEvent, MessageEvent
  <2>3. isConnecting => \A ok : NumberedEvent(ConnectEvent(pendingCallback, ok), g)
    BY <1>1, <1>4 DEF NumberedEvent, ConnectEvent
  <2>4. CASE owner' = owner
    BY <2>4 DEF Numbers
  <2>5. CASE owner' # owner
    <3>1. \/ owner' = Append(owner, DisconnectEvent)
          \/ \E msg : owner' = Append(owner, MessageEvent(msg))
          \/ isConnecting /\ \E ok : owner' = Append(owner, ConnectEvent(pendingCallback, ok))
      BY <1>1, <2>5 DEF Begins, GoesOn, Settles, Closes
    <3> QED BY <2>1, <2>2, <2>3, <3>1
  <2> QED BY <2>4, <2>5
<1> QED BY <1>3, <1>4, <1>5, <1>6 DEF Numbers

\* What a handler does to an open connection: it was open before, and the handler
\* ran without a disconnect(), or it has just been opened.
LEMMA OpenBefore ==
  ASSUME Core(FALSE), QueuesOK, Structure, StrandStep, Open'
  PROVE  /\ strand # << >> /\ strand' = Tail(strand) /\ disconnectGen' = disconnectGen
         /\ \/ Open /\ GoesOn
            \/ Settles(TRUE) /\ ~isConnected
PROOF
<1>1. /\ strand # << >>
      /\ Begins \/ GoesOn \/ Settles(TRUE) \/ Settles(FALSE) \/ Closes
      /\ ~(isConnected /\ isConnecting)
  BY StrandEffect DEF Core, FlagInv
<1>2. ~Begins /\ ~Closes /\ ~Settles(FALSE)
  BY DEF Begins, Closes, Settles, Open, Down
<1>3. CASE GoesOn
  <2>1. isConnected' = isConnected /\ disconnectGen' = disconnectGen
    BY <1>3 DEF GoesOn
  <2>2. strand' = Tail(strand) /\ disconnectRequested' = disconnectRequested
    BY <1>3 DEF GoesOn, Open
  <2> QED BY <1>1, <1>3, <2>1, <2>2 DEF Open
<1>4. CASE Settles(TRUE)
  BY <1>1, <1>4 DEF Settles
<1> QED BY <1>1, <1>2, <1>3, <1>4

LEMMA FramesStrand ==
  ASSUME Core(FALSE), QueuesOK, Structure, Frames, ServerInv, StrandStep
  PROVE  Frames'
PROOF
<1> DEFINE rest == Tail(strand)
<1>1. /\ strand # << >> /\ IsQueue(strand) /\ IsQueue(rest)
      /\ Begins \/ GoesOn \/ Settles(TRUE) \/ Settles(FALSE) \/ Closes
  BY StrandEffect, QueueStays DEF QueuesOK
<1>2. /\ JoinHandler(Head(strand)) /\ \A k \in DOMAIN rest : JoinHandler(rest[k])
      /\ JoinHandler(DisconnectLambda)
  BY <1>1, LabelPlaces DEF Frames, DisconnectLambda, Lambda, JoinHandler
<1>3. \A k \in DOMAIN strand' : JoinHandler(strand'[k])
  <2>1. \A k \in DOMAIN Append(rest, DisconnectLambda) : JoinHandler(Append(rest, DisconnectLambda)[k])
    BY <1>1, <1>2, LabelPlaces
  <2>2. strand' = rest \/ strand' = Append(rest, DisconnectLambda)
    BY <1>1 DEF Begins, GoesOn, Settles, Closes
  <2> QED BY <1>2, <2>1, <2>2
<1>4. \A op \in ops : op.kind = "write" => op.arg = "JOIN"
  BY DEF Frames
<1>5. ASSUME NEW new, ops' = ops \cup {new}, new.kind = "write" => new.arg = "JOIN"
      PROVE  \A op \in ops' : op.kind = "write" => op.arg = "JOIN"
  BY <1>4, <1>5
<1>6. \A op \in ops' : op.kind = "write" => op.arg = "JOIN"
  <2>1. CASE ops' = ops
    BY <1>4, <2>1
  <2>2. CASE ConnectHandler /\ ops' # ops
    <3>1. ops' = ops \cup {Op("resolve", Generation, 0)}
      BY <2>2 DEF ConnectHandler, BeginAttempt
    <3> QED BY <1>5, <3>1 DEF Op
  <2>3. CASE ResolveHandler /\ ops' # ops
    <3>1. ops' = ops \cup {Op("connect", Head(strand).op.gen, 0)}
      BY <2>3 DEF ResolveHandler
    <3> QED BY <1>5, <3>1 DEF Op
  <2>4. CASE ConnectionHandler /\ ops' # ops
    <3>1. ops' = ops \cup {Op("read", Head(strand).op.gen, 0)}
      BY <2>4 DEF ConnectionHandler, Connected
    <3> QED BY <1>5, <3>1 DEF Op
  <2>5. CASE ReadHandler /\ ops' # ops
    <3>1. ops' = ops \cup {Op("read", activeGen, 0)}
      BY <2>5 DEF ReadHandler
    <3> QED BY <1>5, <3>1 DEF Op
  <2>6. CASE SendHandler /\ ops' # ops
    <3>1. /\ Open /\ Head(strand).h = "sendCall"
          /\ writeQueue' = Append(writeQueue, Head(strand).arg)
          /\ ops' = ops \cup {Op("write", activeGen, Head(writeQueue'))}
          /\ ~isWriting
      BY <2>6 DEF SendHandler, IsStopped, Open, WriteOf, Running, MayWrite
    <3>2. writeQueue = << >> /\ Head(strand).arg = "JOIN"
      BY <1>2, <3>1 DEF ServerInv, OpenInv, JoinHandler
    <3>3. Head(writeQueue') = "JOIN"
      BY <3>1, <3>2
    <3> QED BY <1>5, <3>1, <3>3 DEF Op
  <2>7. CASE WriteHandler /\ ops' # ops
    <3>1. /\ Open /\ Head(strand).h = "write"
          /\ writeQueue' = Written(Head(strand).op.arg) /\ writeQueue' # << >>
      BY <2>7 DEF WriteHandler, Open, Running
    <3>2. Head(strand).op.arg = "JOIN" /\ (writeQueue = << >> \/ writeQueue = <<"JOIN">>)
      BY <1>2, <3>1 DEF ServerInv, OpenInv, JoinHandler
    <3>3. Head(<<"JOIN">>) = "JOIN" /\ Tail(<<"JOIN">>) = << >>
      OBVIOUS
    <3> QED BY <3>1, <3>2, <3>3 DEF Written
  <2>8. CASE DisconnectHandler
    BY <2>1, <2>8 DEF DisconnectHandler
  <2> QED BY <2>1, <2>2, <2>3, <2>4, <2>5, <2>6, <2>7, <2>8 DEF StrandStep
<1> QED BY <1>3, <1>6 DEF Frames

LEMMA ServerStrand ==
  ASSUME Core(FALSE), QueuesOK, Structure, Frames, ServerInv, StrandStep, UNCHANGED <<state, server>>
  PROVE  ServerInv'
PROOF
<1> DEFINE rest == Tail(strand)
           x    == Head(strand)
           y    == DisconnectLambda
           d    == disconnectGen
<1>1. /\ strand # << >> /\ IsQueue(strand) /\ IsQueue(rest)
      /\ Begins \/ GoesOn \/ Settles(TRUE) \/ Settles(FALSE) \/ Closes
      /\ isConnected \in BOOLEAN /\ d \in Nat /\ QueueOK(strand, d) /\ QueueOK(rest, d)
  BY StrandEffect, QueueStays, QueueTail DEF QueuesOK, Core, HandlersInv
<1>2. y.h = "disconnect"
  BY DEF DisconnectLambda, Lambda
<1> HIDE DEF y
<1>3. strand' = rest \/ strand' = Append(rest, y)
  BY <1>1 DEF Begins, GoesOn, Settles, Closes, y
<1>4. /\ SendsFirst(strand')
      /\ Waits(strand', "sendCall") => Waits(rest, "sendCall")
      /\ Waits(rest, "sendCall") => Waits(strand, "sendCall") /\ x.h # "connectCall"
  BY <1>1, <1>2, <1>3, SendPlaces DEF ServerInv
<1>5. isConnecting' => ~Waits(strand', "sendCall")
  <2>1. isConnecting' => isConnecting \/ x.h = "connectCall"
    BY <1>1 DEF Begins, GoesOn, Settles, Closes, Down
  <2> QED BY <1>4, <2>1 DEF ServerInv
<1>6. ASSUME NEW h \in Kinds, NEW M
      PROVE  (Has(strand', d, h, M) => Has(strand, d, h, M)) /\ ~Has(strand', d + 1, h, M)
  <2>1. y.h # h
    BY <1>2 DEF Kinds
  <2>2. ASSUME NEW g
        PROVE  Has(strand', g, h, M) => Has(strand, g, h, M)
    <3>1. Has(Append(rest, y), g, h, M) <=> Has(rest, g, h, M)
      BY <1>1, <2>1, CompletionPlaces
    <3>2. Has(rest, g, h, M) => Has(strand, g, h, M)
      BY <1>1, CompletionPlaces
    <3> QED BY <1>3, <3>1, <3>2
  <2>3. ~Has(strand, d + 1, h, M)
    BY <1>1, <1>6 DEF Has, QueueOK, HandlerOK
  <2> QED BY <2>2, <2>3
<1>7. Has(strand', disconnectGen', "connect", {"none"}) => server = "open"
  <2>1. d' = d \/ d' = d + 1
    BY <1>1 DEF Begins, GoesOn, Settles, Closes
  <2> QED BY <1>6, <2>1 DEF Kinds, ServerInv
<1>8. ASSUME Open', Settles(TRUE), ~isConnected
      PROVE  OpenInv'
  <2>1. strand' = rest /\ d' = d
    BY <1>8 DEF Settles
  <2>2. x.h = "connect" /\ x.op.gen = d /\ x.ok /\ isConnecting /\ ~isConnecting' /\ isConnected'
    BY <1>8 DEF Settles
  <2>3. ConnectionHandler
    BY <2>2 DEF StrandStep, ConnectHandler, SendHandler, DisconnectHandler, ResolveHandler, ReadHandler,
       WriteHandler, Running
  <2>4. UNCHANGED <<writeQueue, isWriting>> /\ ops' = ops \cup {Op("read", x.op.gen, 0)}
    BY <2>2, <2>3 DEF ConnectionHandler, Connected, FailConnect, writeVars, connVars
  <2>5. ~isWriting /\ writeQueue = << >>
    BY <1>8 DEF Core, FlagInv
  <2>6. server = "open"
    <3>1. JoinHandler(x)
      BY <1>1, LabelPlaces DEF Frames
    <3>2. Has(strand, d, "connect", {"none"})
      BY <1>1, <2>2, <3>1, CompletionPlaces DEF JoinHandler
    <3> QED BY <3>2 DEF ServerInv
  <2>7. ~Waits(strand', "sendCall") /\ OneSend(strand')
    <3>1. ~Waits(strand', "sendCall")
      BY <1>4, <2>2 DEF ServerInv
    <3> QED BY <3>1 DEF Waits, OneSend
  <2>8. \A M : ~Has(strand', d, "read", M)
    <3>1. Completed(strand, d, {"read"}) = {}
      BY <1>8 DEF Core, LiveInv, Idle, None
    <3>2. \A M : ~Has(strand, d, "read", M)
      BY <1>1, <3>1, CompletionPlaces
    <3> QED BY <1>6, <3>2 DEF Kinds
  <2> QED BY <2>1, <2>4, <2>5, <2>6, <2>7, <2>8 DEF OpenInv, Brings
<1>9. ASSUME Open', Open, GoesOn, strand' = rest, d' = d
      PROVE  OpenInv'
  <2>1. OpenInv
    BY <1>9 DEF ServerInv
  <2>2. /\ OneSend(rest) /\ (Waits(rest, "sendCall") => Waits(strand, "sendCall"))
        /\ x.h = "sendCall" => ~Waits(rest, "sendCall") /\ Waits(strand, "sendCall")
    BY <1>1, <2>1, SendPlaces DEF OpenInv
  <2>3. \A M : Brings(strand', d, M) => Brings(strand, d, M)
    BY <1>6 DEF Brings, Kinds
  <2>4. ASSUME UNCHANGED <<writeQueue, isWriting>>, UnderWay(ops', d, {"write"}) = UnderWay(ops, d, {"write"})
        PROVE  OpenInv'
    BY <1>9, <2>1, <2>2, <2>3, <2>4 DEF OpenInv
  <2>5. ASSUME NEW op, op.kind # "write", ops' = ops \cup {op}
        PROVE  UnderWay(ops', d, {"write"}) = UnderWay(ops, d, {"write"})
    BY <2>5 DEF UnderWay
  <2>6. CASE ResolveHandler
    <3>1. UNCHANGED <<writeQueue, isWriting>> /\ (ops' = ops \/ ops' = ops \cup {Op("connect", x.op.gen, 0)})
      BY <2>6 DEF ResolveHandler, writeVars
    <3> QED BY <2>4, <2>5, <3>1 DEF Op
  <2>7. CASE ConnectionHandler
    <3>1. UNCHANGED <<writeQueue, isWriting>> /\ (ops' = ops \/ ops' = ops \cup {Op("read", x.op.gen, 0)})
      BY <2>7 DEF ConnectionHandler, Connected, writeVars
    <3> QED BY <2>4, <2>5, <3>1 DEF Op
  <2>8. CASE ReadHandler
    <3>1. UNCHANGED <<writeQueue, isWriting>> /\ (ops' = ops \/ ops' = ops \cup {Op("read", activeGen, 0)})
      BY <2>8 DEF ReadHandler, writeVars
    <3> QED BY <2>4, <2>5, <3>1 DEF Op
  <2>9. CASE SendHandler
    <3>1. x.h = "sendCall" /\ ~isWriting /\ server = "open" /\ writeQueue = << >> /\ state # "Connecting"
      BY <2>1, <2>2, <2>9 DEF SendHandler, Running, OpenInv
    <3>2. writeQueue' = Append(writeQueue, x.arg) /\ isWriting' = TRUE
      BY <1>9, <2>9 DEF SendHandler, IsStopped, Open
    <3>3. JoinHandler(x)
      BY <1>1, LabelPlaces DEF Frames
    <3>4. writeQueue' = <<"JOIN">>
      BY <3>1, <3>2, <3>3 DEF JoinHandler
    <3> QED BY <1>9, <2>1, <2>2, <2>3, <3>1, <3>2, <3>4 DEF OpenInv
  <2>10. CASE WriteHandler
    <3>1. CASE UNCHANGED <<writeQueue, isWriting>> /\ ops' = ops
      BY <2>4, <3>1
    <3>2. CASE ~(UNCHANGED <<writeQueue, isWriting>> /\ ops' = ops)
      <4>1. /\ x.h = "write" /\ writeQueue' = Written(x.op.arg)
            /\ isWriting' = (writeQueue' # << >> /\ ~disconnectRequested)
            /\ isWriting' = FALSE => ops' = ops
        BY <2>10, <3>2 DEF WriteHandler, Running, writeVars
      <4>2. JoinHandler(x)
        BY <1>1, LabelPlaces DEF Frames
      <4>3. Head(<<"JOIN">>) = "JOIN" /\ Tail(<<"JOIN">>) = << >>
        OBVIOUS
      <4>4. writeQueue' = << >>
        BY <2>1, <4>1, <4>2, <4>3 DEF OpenInv, Written, JoinHandler
      <4>5. isWriting' = FALSE
        BY <4>1, <4>4
      <4> QED BY <1>9, <2>1, <2>2, <2>3, <4>1, <4>4, <4>5 DEF OpenInv
    <3> QED BY <3>1, <3>2
  <2>11. ~ConnectHandler /\ ~DisconnectHandler
    BY <1>9 DEF GoesOn, ConnectHandler, DisconnectHandler, Running
  <2> QED BY <2>6, <2>7, <2>8, <2>9, <2>10, <2>11 DEF StrandStep
<1>10. Open' => OpenInv'
  BY <1>8, <1>9, OpenBefore
<1> QED BY <1>4, <1>5, <1>7, <1>10 DEF ServerInv

\* An answer reaches the controller only from an open connection, and then it was
\* the first handler of the strand.
LEMMA Delivered ==
  ASSUME Core(FALSE), QueuesOK, Structure, StrandStep, owner' # owner
  PROVE  \E x : /\ owner' = Append(owner, x) /\ x.what \notin Calls
                /\ IsAnswer(x) => /\ Open /\ Head(strand).h = "read" /\ Head(strand).op.gen = disconnectGen
                                  /\ Head(strand).ok /\ Head(strand).msg = x.msg
PROOF
<1>1. Begins \/ GoesOn \/ Settles(TRUE) \/ Settles(FALSE) \/ Closes
  BY StrandEffect
<1> DEFINE m == MessageEvent(Head(strand).msg)
           e == DisconnectEvent
           c(ok) == ConnectEvent(pendingCallback, ok)
<1>2. /\ m.what = "message" /\ m.msg = Head(strand).msg /\ m.what \notin Calls
      /\ e.what \notin Calls /\ ~IsAnswer(e)
      /\ \A ok : c(ok).what \notin Calls /\ ~IsAnswer(c(ok))
  BY DEF MessageEvent, DisconnectEvent, ConnectEvent, Calls, IsAnswer
<1>3. CASE GoesOn
  <2>1. ~ConnectHandler /\ ~DisconnectHandler
    BY <1>3 DEF GoesOn, ConnectHandler, DisconnectHandler, Running
  <2>2. /\ ~SendHandler /\ ~WriteHandler
    BY DEF SendHandler, WriteHandler
  <2>3. ~ResolveHandler /\ ~ConnectionHandler
    <3>1. isConnecting' = isConnecting
      BY <1>3 DEF GoesOn
    <3> QED BY <3>1 DEF ResolveHandler, ConnectionHandler, FailConnect, Connected, AttemptIsStale
  <2>4. ReadHandler
    BY <2>1, <2>2, <2>3 DEF StrandStep
  <2>5. /\ owner' = Append(owner, m) /\ Open /\ Head(strand).h = "read" /\ Head(strand).ok
        /\ Head(strand).op.gen = disconnectGen
    BY <2>4 DEF ReadHandler, Running, IsStopped, Open, IsValidGeneration
  <2> QED BY <1>2, <2>5
<1>4. CASE Begins
  BY <1>4 DEF Begins
<1>5. CASE Settles(TRUE) \/ Settles(FALSE)
  <2>1. \E ok : owner' = Append(owner, c(ok))
    BY <1>5 DEF Settles
  <2> QED BY <1>2, <2>1
<1>6. CASE Closes
  <2>1. owner' = Append(owner, c(FALSE)) \/ owner' = Append(owner, e)
    BY <1>6 DEF Closes
  <2> QED BY <1>2, <2>1
<1> QED BY <1>1, <1>3, <1>4, <1>5, <1>6

LEMMA AnswersStrand ==
  ASSUME Core(FALSE), QueuesOK, Structure, ServerInv, Answers, Restarting, StrandStep,
         UNCHANGED <<state, server>>
  PROVE  Answers' /\ Restarting'
PROOF
<1> DEFINE d == disconnectGen
           Answering == /\ Open /\ Head(strand).h = "read" /\ Head(strand).op.gen = d
                        /\ Head(strand).ok /\ Head(strand).msg \in AnswerMsgs
<1>1. /\ strand # << >> /\ IsQueue(strand) /\ IsQueue(owner)
      /\ \A s \in Playing : s # "Connecting" /\ s # "Disconnected"
      /\ {"Joining", "InGame"} \subseteq Playing /\ "GameOver" \in Playing
  BY StrandEffect DEF QueuesOK, Playing
\* Nothing more is answered on a connection that is done.
<1>2. ASSUME state \in Playing, Done
      PROVE  Done'
  <2>1. ~isConnecting
    BY <1>2 DEF Structure, On
  <2>2. ASSUME Open'
        PROVE  server = "ended" /\ ~Brings(strand', d', AnswerMsgs)
    <3>1. Open /\ strand' = Tail(strand) /\ d' = d
      BY <2>1, <2>2, OpenBefore DEF Settles
    <3>2. Has(Tail(strand), d, "read", AnswerMsgs) => Has(strand, d, "read", AnswerMsgs)
      BY <1>1, CompletionPlaces
    <3> QED BY <1>2, <3>1, <3>2 DEF Done, Brings
  <2> QED BY <2>2 DEF Done
<1>3. CASE owner' = owner
  BY <1>1, <1>2, <1>3 DEF Answers, Restarting
<1>4. CASE owner' # owner
  <2>1. PICK x : /\ owner' = Append(owner, x) /\ x.what \notin Calls
                 /\ IsAnswer(x) => /\ Open /\ Head(strand).h = "read" /\ Head(strand).op.gen = d
                                   /\ Head(strand).ok /\ Head(strand).msg = x.msg
    BY <1>4, Delivered
  <2>2. IsAnswer(x) => Answering
    BY <2>1 DEF IsAnswer, AnswerMsgs
  <2>3. Answering => /\ Brings(strand, d, AnswerMsgs) /\ Open /\ OpenInv
                     /\ state # "Connecting" /\ state # "GameOver" /\ state # "Disconnected"
                     /\ ~HasFinal(owner) /\ ~Pending(owner, "start") /\ ~Pending(owner, "rejoin")
    <3> SUFFICES ASSUME Answering
                 PROVE  /\ Brings(strand, d, AnswerMsgs) /\ Open /\ OpenInv
                        /\ state # "Connecting" /\ state # "GameOver" /\ state # "Disconnected"
                        /\ ~HasFinal(owner) /\ ~Pending(owner, "start") /\ ~Pending(owner, "rejoin")
      OBVIOUS
    <3>1. Brings(strand, d, AnswerMsgs)
      BY <1>1, CompletionPlaces DEF Brings
    <3>2. OpenInv /\ ~Done /\ isConnected /\ ~disconnectRequested
      BY <3>1 DEF ServerInv, Done, Open
    <3>3. state # "Connecting" /\ state # "GameOver" /\ state # "Disconnected"
      BY <3>1, <3>2 DEF OpenInv, Answers, Structure, Off
    <3>4. state \in {"Joining", "InGame"}
      BY <3>3 DEF Structure, Playing
    <3> QED BY <3>1, <3>2, <3>3, <3>4 DEF Answers, Restarting
  <2>4. /\ Answered(owner') <=> Answered(owner) \/ IsAnswer(x)
        /\ HasFinal(owner') <=> HasFinal(owner) \/ IsFinal(x)
        /\ FinalLast(owner) => FinalLast(owner')
        /\ AnswersFirst(owner) => AnswersFirst(owner')
        /\ OneCall(owner) => OneCall(owner')
        /\ Pending(owner', "start") => Pending(owner, "start")
        /\ Pending(owner', "rejoin") => Pending(owner, "rejoin")
    BY <1>1, <2>1, <2>2, <2>3, AnswerPlaces DEF Calls
  <2>5. Restarting'
    BY <2>4 DEF Restarting
  \* The final answer is the last: there was only one read.
  <2>6. IsFinal(x) => Done'
    <3> SUFFICES ASSUME IsFinal(x), Open'
                 PROVE  server = "ended" /\ ~Brings(strand', d', AnswerMsgs)
      BY DEF Done
    <3>1. IsAnswer(x) /\ x.msg \in FinalMsgs
      BY DEF IsFinal, IsAnswer, FinalMsgs
    <3>2. Brings(strand, d, FinalMsgs) /\ OpenInv
      BY <1>1, <2>1, <2>2, <2>3, <3>1, CompletionPlaces DEF Brings
    <3>3. strand' = Tail(strand) /\ d' = d
      BY OpenBefore
    <3>4. None(ops, Tail(strand), d, {"read"})
      BY <1>1, <2>1, <3>1, Take DEF Core, LiveInv, KindSets, Single
    <3>5. IsQueue(Tail(strand))
      BY <1>1, QueueStays
    <3>6. ~Has(Tail(strand), d, "read", AnswerMsgs)
      BY <3>4, <3>5, CompletionPlaces DEF None
    <3> QED BY <3>2, <3>3, <3>6 DEF OpenInv, Brings
  <2>7. state = "Connecting" => ~Answered(owner')
    BY <2>2, <2>3, <2>4 DEF Answers
  <2>8. state = "GameOver" => ~Answered(owner') /\ Done'
    BY <1>1, <1>2, <2>2, <2>3, <2>4 DEF Answers
  <2>9. state \in {"Joining", "InGame"} => FinalLast(owner') /\ (HasFinal(owner') => Done')
    BY <1>1, <1>2, <2>4, <2>6 DEF Answers
  <2> QED BY <2>5, <2>7, <2>8, <2>9 DEF Answers
<1> QED BY <1>3, <1>4

\* The end of an operation: what the network posts keeps the invariant.  The server's
\* end of the connection moves on only when the connection or the JOIN gets through.
LEMMA InvCompletes ==
  ASSUME ControllerInv, NEW op \in ops, NEW ok \in BOOLEAN, Completes(op, ok)
  PROVE  ControllerInv'
PROOF
<1> DEFINE x == Completion(op, ok, "none")
           d == disconnectGen
<1>1. /\ Core(FALSE) /\ QueuesOK /\ Numbers /\ Structure /\ Frames /\ ServerInv /\ Answers /\ Restarting
      /\ IsQueue(strand) /\ op.kind \in Kinds
  BY DEF ControllerInv, QueuesOK
<1>2. /\ strand' = Append(strand, x) /\ ops' = ops \ {op}
      /\ x.h = op.kind /\ x.op = op /\ x.msg = "none" /\ (x.ok <=> ok)
      /\ ok => op.kind # "read" /\ op.gen = d
  BY DEF Completes, OpCompletes, Completion
<1>3. UNCHANGED <<isConnected, isConnecting, pendingCallback, disconnectRequested, disconnectGen, activeGen,
                  writeQueue, isWriting, owner, state, connectGen, joined>>
  BY DEF Completes, OpCompletes, connVars, genVars, writeVars, ctlVars
<1>4. /\ ok /\ op.kind = "connect" => server' = "open"
      /\ ok /\ op.kind = "write" => server' = "joined"
      /\ ~ok \/ op.kind \notin {"connect", "write"} => server' = server
  BY DEF Completes
<1> HIDE DEF x
<1>5. Core(FALSE)'
  BY <1>1, <1>2, <1>3, CoreNetwork
<1>6. QueuesOK'
  BY <1>1, <1>2, <1>3, QueueStays DEF QueuesOK
<1>7. Structure'
  BY <1>1, <1>2, <1>3, StructureNetwork
<1>8. Numbers'
  <2>1. NumberedHandler(x, connectGen)
    BY <1>1, <1>2 DEF NumberedHandler, Kinds
  <2> QED BY <1>1, <1>2, <1>3, <2>1, LabelPlaces DEF Numbers
<1>9. Frames'
  <2>1. JoinHandler(x)
    BY <1>1, <1>2 DEF JoinHandler, Kinds, Frames
  <2> QED BY <1>1, <1>2, <2>1, LabelPlaces DEF Frames
<1>10. /\ \A M : Brings(strand', d, M) => Brings(strand, d, M) \/ "none" \in M
       /\ Has(strand', d, "connect", {"none"})
            => Has(strand, d, "connect", {"none"}) \/ (ok /\ op.kind = "connect")
  BY <1>1, <1>2, CompletionPlaces DEF Brings
<1>11. SendsFirst(strand') /\ (Waits(strand', "sendCall") <=> Waits(strand, "sendCall"))
       /\ (OneSend(strand) => OneSend(strand'))
  <2>1. x.h # "sendCall"
    BY <1>1, <1>2 DEF Kinds
  <2> QED BY <1>1, <1>2, <2>1, SendPlaces DEF ServerInv
\* A write that gets through belongs to the present connection.
<1>12. ok /\ op.kind = "write" => /\ isWriting /\ op \in UnderWay(ops, d, {"write"})
                                  /\ UnderWay(ops', d, {"write"}) = {} /\ isConnected
  <2>1. ok /\ op.kind = "write" => op \in UnderWay(ops, d, {"write"})
    BY <1>2 DEF UnderWay
  <2>2. ok /\ op.kind = "write" => isWriting /\ isConnected
    BY <1>1, <2>1 DEF Core, LiveInv, Idle, None, FlagInv
  <2>3. \A a, b \in UnderWay(ops, d, {"write"}) : a = b
    BY <1>1 DEF Core, LiveInv, KindSets, Single, AtMostOne
  <2>4. UnderWay(ops', d, {"write"}) = UnderWay(ops, d, {"write"}) \ {op}
    BY <1>2 DEF UnderWay
  <2> QED BY <2>1, <2>2, <2>3, <2>4
\* So does an attempt, and then the connection is not open.
<1>13. /\ ok /\ op.kind = "connect" => ~Open
       /\ Has(strand, d, "connect", {"none"}) => ~isConnected
  <2>1. ok /\ op.kind = "connect" => op \in UnderWay(ops, d, AttemptKinds)
    BY <1>2 DEF UnderWay, AttemptKinds
  <2>2. Has(strand, d, "connect", {"none"}) => Completed(strand, d, AttemptKinds) # {}
    BY <1>1, CompletionPlaces DEF AttemptKinds
  <2>3. (ok /\ op.kind = "connect") \/ Has(strand, d, "connect", {"none"}) => isConnecting
    BY <1>1, <2>1, <2>2 DEF Core, LiveInv, Idle, None
  <2> QED BY <1>1, <2>3 DEF Core, FlagInv, Open
<1>14. UnderWay(ops, d, {"write"}) = {} => UnderWay(ops', d, {"write"}) = {}
  BY <1>2 DEF UnderWay
<1>15. Open => (OpenInv' /\ (server = "ended" => server' = "ended"))
  <2> SUFFICES ASSUME Open
               PROVE  OpenInv' /\ (server = "ended" => server' = "ended")
    OBVIOUS
  <2>1. OpenInv
    BY <1>1 DEF ServerInv
  <2>2. /\ Brings(strand', d, AnswerMsgs) => Brings(strand, d, AnswerMsgs)
        /\ Brings(strand', d, FinalMsgs) => Brings(strand, d, FinalMsgs)
    BY <1>10 DEF AnswerMsgs, FinalMsgs
  <2>3. CASE ok /\ op.kind = "write"
    BY <1>3, <1>4, <1>11, <1>12, <2>1, <2>2, <2>3 DEF OpenInv
  <2>4. CASE ~(ok /\ op.kind = "write")
    <3>1. server' = server
      BY <1>4, <1>13, <2>4
    <3> QED BY <1>3, <1>11, <1>14, <2>1, <2>2, <3>1 DEF OpenInv
  <2> QED BY <2>3, <2>4
<1>16. ServerInv'
  <2>1. Has(strand', d, "connect", {"none"}) => server' = "open"
    BY <1>1, <1>4, <1>10, <1>12, <1>13 DEF ServerInv
  <2> QED BY <1>1, <1>3, <1>11, <1>15, <2>1 DEF ServerInv, Open
<1>17. Done => Done'
  <2>1. Brings(strand', d, AnswerMsgs) => Brings(strand, d, AnswerMsgs)
    BY <1>10 DEF AnswerMsgs
  <2> QED BY <1>3, <1>15, <2>1 DEF Done, Open
<1>18. Answers' /\ Restarting'
  BY <1>1, <1>3, <1>17 DEF Answers, Restarting
<1>19. JoinBeforeGame'
  BY <1>3 DEF ControllerInv, JoinBeforeGame
<1> QED BY <1>5, <1>6, <1>7, <1>8, <1>9, <1>16, <1>18, <1>19 DEF ControllerInv

\* A message of the server.
LEMMA InvSends ==
  ASSUME ControllerInv, NEW msg \in ServerMsgs, ServerSends(msg)
  PROVE  ControllerInv'
PROOF
<1>0. PICK op \in ops : ReadBrings(op, msg)
  BY DEF ServerSends
<1> DEFINE x == Completion(op, TRUE, msg)
           d == disconnectGen
<1>1. /\ Core(FALSE) /\ QueuesOK /\ Numbers /\ Structure /\ Frames /\ ServerInv /\ Answers /\ Restarting
      /\ IsQueue(strand)
  BY DEF ControllerInv, QueuesOK
<1>2. /\ strand' = Append(strand, x) /\ ops' = ops \ {op} /\ op.kind = "read" /\ op.gen = d
      /\ x.h = "read" /\ x.op = op /\ x.msg = msg /\ x.ok
  BY <1>0 DEF ReadBrings, Completion
<1>3. UNCHANGED <<isConnected, isConnecting, pendingCallback, disconnectRequested, disconnectGen, activeGen,
                  writeQueue, isWriting, owner, state, connectGen, joined>>
  BY <1>0 DEF ServerSends, ReadBrings, connVars, genVars, writeVars, ctlVars
<1>4. /\ msg \in AnswerMsgs => server = "joined"
      /\ server' = IF msg \in FinalMsgs THEN "ended" ELSE server
      /\ msg \in FinalMsgs => msg \in AnswerMsgs
  BY DEF ServerSends, AnswerMsgs, FinalMsgs
<1> HIDE DEF x
<1>5. Core(FALSE)'
  BY <1>1, <1>2, <1>3, CoreNetwork
<1>6. QueuesOK'
  BY <1>1, <1>2, <1>3, QueueStays DEF QueuesOK
<1>7. Structure'
  BY <1>1, <1>2, <1>3, StructureNetwork DEF Kinds
<1>8. Numbers'
  <2>1. NumberedHandler(x, connectGen)
    BY <1>2 DEF NumberedHandler
  <2> QED BY <1>1, <1>2, <1>3, <2>1, LabelPlaces DEF Numbers
<1>9. Frames'
  <2>1. JoinHandler(x)
    BY <1>2 DEF JoinHandler
  <2> QED BY <1>1, <1>2, <2>1, LabelPlaces DEF Frames
<1>10. /\ \A M : Brings(strand', d, M) <=> Brings(strand, d, M) \/ msg \in M
       /\ Has(strand', d, "connect", {"none"}) => Has(strand, d, "connect", {"none"})
  BY <1>1, <1>2, CompletionPlaces DEF Brings
<1>11. /\ SendsFirst(strand') /\ (Waits(strand', "sendCall") <=> Waits(strand, "sendCall"))
       /\ OneSend(strand) => OneSend(strand')
  BY <1>1, <1>2, SendPlaces DEF ServerInv
\* Only an open connection is read from.
<1>12. ~Has(strand, d, "connect", {"none"})
  <2>1. op \in UnderWay(ops, d, {"read"})
    BY <1>2 DEF UnderWay
  <2>2. isConnected /\ ~isConnecting
    BY <1>1, <2>1 DEF Core, LiveInv, Idle, None, FlagInv
  <2>3. Completed(strand, d, AttemptKinds) = {}
    BY <1>1, <2>2 DEF Core, LiveInv, Idle, None
  <2> QED BY <1>1, <2>3, CompletionPlaces DEF AttemptKinds
<1>13. UnderWay(ops, d, {"write"}) = {} => UnderWay(ops', d, {"write"}) = {}
  BY <1>2 DEF UnderWay
<1>14. Open => OpenInv'
  <2> SUFFICES ASSUME Open
               PROVE  OpenInv'
    OBVIOUS
  <2>1. OpenInv
    BY <1>1 DEF ServerInv
  <2>2. server = "open" => server' = "open"
    BY <1>4
  <2> QED BY <1>3, <1>4, <1>10, <1>11, <1>13, <2>1, <2>2 DEF OpenInv
<1>15. ServerInv'
  BY <1>1, <1>3, <1>10, <1>11, <1>12, <1>14 DEF ServerInv, Open
<1>16. Done => Done'
  BY <1>3, <1>4, <1>10 DEF Done, Open
<1>17. Answers' /\ Restarting'
  BY <1>1, <1>3, <1>16 DEF Answers, Restarting
<1>18. JoinBeforeGame'
  BY <1>3 DEF ControllerInv, JoinBeforeGame
<1> QED BY <1>5, <1>6, <1>7, <1>8, <1>9, <1>15, <1>17, <1>18 DEF ControllerInv

\* A call of a polite application.
LEMMA InvCall ==
  ASSUME Polite, ControllerInv, NEW c \in Calls, Call(c)
  PROVE  ControllerInv'
PROOF
<1> DEFINE x == [what |-> c]
<1>1. /\ Core(FALSE) /\ QueuesOK /\ Numbers /\ Structure /\ Frames /\ ServerInv /\ Answers /\ Restarting
      /\ IsQueue(strand) /\ IsQueue(owner)
  BY DEF ControllerInv, QueuesOK
<1>2. /\ owner' = Append(owner, x) /\ x.what = c /\ ~CallPending
      /\ c = "start" => state = "Disconnected"
      /\ c = "rejoin" => state = "GameOver"
  BY DEF Call
<1>3. UNCHANGED <<isConnected, isConnecting, pendingCallback, disconnectRequested, disconnectGen, activeGen,
                  writeQueue, isWriting, strand, ops, state, connectGen, joined, server>>
  BY DEF Call, connVars, genVars, writeVars, ctlVars
<1> HIDE DEF x
<1>4. Core(FALSE)'
  BY <1>1, <1>3, CorePost, LambdaPosted DEF Core, HandlersInv
<1>5. QueuesOK'
  BY <1>1, <1>2, <1>3, QueueStays DEF QueuesOK
<1>6. Structure'
  BY <1>1, <1>2, <1>3, StructureCall
<1>7. Numbers'
  <2>1. NumberedEvent(x, connectGen)
    BY <1>2 DEF NumberedEvent, Calls
  <2> QED BY <1>1, <1>2, <1>3, <2>1, LabelPlaces DEF Numbers
<1>8. Frames' /\ ServerInv' /\ (Done => Done')
  BY <1>1, <1>3 DEF Frames, ServerInv, OpenInv, Open, Done
<1>9. /\ ~IsAnswer(x) /\ ~IsFinal(x) /\ \A e \in Calls : ~Pending(owner, e)
  BY <1>2 DEF IsAnswer, IsFinal, Calls, CallPending, Pending
<1>10. /\ Answered(owner') <=> Answered(owner)
       /\ HasFinal(owner') <=> HasFinal(owner)
       /\ FinalLast(owner) => FinalLast(owner')
       /\ AnswersFirst(owner) => AnswersFirst(owner')
       /\ OneCall(owner) => OneCall(owner')
       /\ \A e : Pending(owner', e) <=> Pending(owner, e) \/ c = e
  BY <1>1, <1>2, <1>9, AnswerPlaces
<1>11. Answers' /\ Restarting'
  BY <1>1, <1>2, <1>3, <1>8, <1>10 DEF Answers, Restarting
<1>12. JoinBeforeGame'
  BY <1>3 DEF ControllerInv, JoinBeforeGame
<1> QED BY <1>4, <1>5, <1>6, <1>7, <1>8, <1>11, <1>12 DEF ControllerInv

LEMMA PostedTwice ==
  ASSUME NEW q, NEW p, NEW r, Posted(q, p), Posted(p, r)
  PROVE  Posted(q, r)
  BY Zenon DEF Posted

\* What posting lambdas leaves alone.
LEMMA PostedLeaves ==
  ASSUME NEW q, NEW p, Posted(q, p), NEW g, NEW h \in Kinds, NEW M
  PROVE  Has(p, g, h, M) <=> Has(q, g, h, M)
PROOF
<1>1. h \notin LambdaNames
  BY DEF Kinds, LambdaNames
<1> QED BY <1>1, Zenon DEF Posted, Has

\* The handlers of the controller.
LEMMA InvController ==
  ASSUME ControllerInv, ControllerStep
  PROVE  ControllerInv'
PROOF
<1> USE DEF Serving
<1> DEFINE o == Tail(owner)
           x == Head(owner)
<1>1. /\ Core(FALSE) /\ QueuesOK /\ Numbers /\ Structure /\ Frames /\ ServerInv /\ Answers /\ Restarting
      /\ IsQueue(strand) /\ IsQueue(owner) /\ JoinBeforeGame
      /\ connectGen \in Nat
  BY DEF ControllerInv, QueuesOK, Numbers
<1>2. /\ owner # << >> /\ owner' = o
      /\ UNCHANGED <<isConnected, isConnecting, pendingCallback, disconnectGen, activeGen, writeQueue,
                     isWriting, ops, server>>
  BY DEF ControllerStep, StartHandler, ShutdownHandler, RejoinHandler, ShootHandler, ConnectCallback,
     MessageHandler, DisconnectCallback, HandlerFrame, connVars, genVars, writeVars
<1>3. /\ Answered(owner) <=> Answered(o) \/ IsAnswer(x)
      /\ HasFinal(owner) <=> HasFinal(o) \/ IsFinal(x)
      /\ \A c : Pending(owner, c) <=> Pending(o, c) \/ x.what = c
      /\ FinalLast(owner) => FinalLast(o) /\ (IsFinal(x) => ~Answered(o))
      /\ AnswersFirst(o) /\ (x.what \in {"start", "rejoin"} => ~Answered(o))
      /\ OneCall(o) /\ (x.what \in Calls => \A c \in Calls : ~Pending(o, c))
      /\ ~Answered(o) => FinalLast(o) /\ ~HasFinal(o)
      /\ IsQueue(o)
  <2>1. OneCall(owner) /\ AnswersFirst(owner) /\ IsQueue(o)
    BY <1>1, <1>2, QueueStays DEF Restarting
  <2> QED BY <1>1, <1>2, <2>1, AnswerPlaces
<1>4. state = "Connecting" => ~Answered(owner)
  BY <1>1 DEF Answers
<1>5. Structure'
  BY <1>1, <1>4, StructureController
<1> DEFINE DL == DisconnectLambda
           CC(n) == ConnectCall(n)
           SJ == Lambda("sendCall", "JOIN")
<1>6. /\ DL.h = "disconnect" /\ SJ.h = "sendCall" /\ SJ.arg = "JOIN"
      /\ \A n : CC(n).h = "connectCall" /\ CC(n).arg = n
  BY DEF DisconnectLambda, ConnectCall, Lambda
<1> HIDE DEF DL, CC, SJ
\* What a step does to the two strands: it leaves the transport alone, or posts a
\* disconnect(), a connect() or both, or a JOIN.
<1> DEFINE Rests == UNCHANGED <<strand, disconnectRequested, connectGen, joined>>
           Shuts == /\ strand' = Append(strand, DL) /\ disconnectRequested' = TRUE
                    /\ connectGen' = connectGen + 1 /\ state' = "Disconnected" /\ joined' = joined
           Starts == /\ strand' = Append(strand, CC(connectGen + 1)) /\ disconnectRequested' = disconnectRequested
                     /\ connectGen' = connectGen + 1 /\ state = "Disconnected" /\ state' = "Connecting"
                     /\ joined' = joined /\ x.what = "start"
           Rejoins == /\ strand' = Append(Append(strand, DL), CC(connectGen + 2)) /\ disconnectRequested' = TRUE
                      /\ connectGen' = connectGen + 2 /\ state' = "Connecting" /\ joined' = joined
                      /\ x.what = "rejoin"
           Joins == /\ strand' = Append(strand, SJ) /\ disconnectRequested' = disconnectRequested
                    /\ connectGen' = connectGen /\ state = "Connecting" /\ state' = "Joining"
                    /\ joined' = joined \cup {connectGen} /\ x.what = "connect" /\ ~isConnecting /\ ~Connects(strand)
           Stays == \/ state' = state /\ (state = "GameOver" => ~IsAnswer(x))
                    \/ state' = "Disconnected"
                    \/ state \in {"Joining", "InGame"} /\ state' = "InGame" /\ x.what = "message"
                    \/ state \in {"Joining", "InGame"} /\ state' = "GameOver" /\ x.what = "message" /\ IsFinal(x)
<1>7. \/ Rests /\ Stays
      \/ Shuts \/ Starts \/ Rejoins \/ Joins
  <2>1. ~(IsAnswer(x) /\ state \in {"Connecting", "GameOver"})
    BY <1>1, <1>3 DEF Answers
  <2>2. Ignored => Rests /\ Stays
    BY <2>1 DEF Ignored, ctlVars
  <2>3. DoShutdown => Shuts
    BY DEF DoShutdown, DisconnectFrom, DL
  <2>4. CASE StartHandler
    BY <2>2, <2>4 DEF StartHandler, CC
  <2>5. CASE ShutdownHandler
    BY <2>3, <2>5 DEF ShutdownHandler
  <2>6. CASE RejoinHandler
    <3>1. strand' = strand \o <<DL, CC(connectGen + 2)>>
      BY <2>6 DEF RejoinHandler, DL, CC
    <3>2. strand' = Append(Append(strand, DL), CC(connectGen + 2))
      BY <1>1, <3>1, TwoPosts
    <3> QED BY <2>6, <3>2 DEF RejoinHandler
  <2>7. CASE ShootHandler
    BY <2>2, <2>7 DEF ShootHandler
  <2>8. CASE ConnectCallback
    <3>1. CASE x.cb # connectGen \/ state # "Connecting" \/ ~x.ok
      <4>1. Ignored \/ (Rests /\ state' = "Disconnected")
        BY <2>8, <3>1 DEF ConnectCallback, ConnectFailed
      <4> QED BY <2>2, <4>1
    <3>2. CASE x.cb = connectGen /\ state = "Connecting" /\ x.ok
      <4>1. x.what = "connect" /\ SendJoin /\ UNCHANGED <<connectGen, disconnectRequested>>
        BY <2>8, <3>2 DEF ConnectCallback
      <4>2. ~NoEvent(owner, connectGen)
        BY <1>1, <1>2, <3>2, <4>1, EventPlaces
      <4>3. Told
        BY <1>1, <3>2, <4>2 DEF Structure, Asked, Trying
      <4> QED BY <3>2, <4>1, <4>3 DEF SendJoin, Told, SJ
    <3> QED BY <3>1, <3>2
  <2>9. CASE MessageHandler
    <3>1. CASE state = "Disconnected" \/ x.msg = "Unknown"
      BY <2>2, <2>9, <3>1 DEF MessageHandler
    <3>2. CASE state # "Disconnected" /\ x.msg \in {"Accept", "GameEnd"}
      <4>1. x.what = "message" /\ IsAnswer(x)
        BY <2>9, <3>2 DEF MessageHandler, IsAnswer
      <4>2. state \in {"Joining", "InGame"}
        BY <1>1, <2>1, <3>2, <4>1 DEF Structure, Playing
      <4>3. Rests /\ state' = IF x.msg = "Accept" THEN "InGame" ELSE "GameOver"
        BY <2>9, <3>2 DEF MessageHandler
      <4> QED BY <3>2, <4>1, <4>2, <4>3 DEF IsFinal
    <3>3. CASE state # "Disconnected" /\ x.msg = "Reject"
      BY <2>3, <2>9, <3>3 DEF MessageHandler
    <3> QED BY <2>9, <3>1, <3>2, <3>3 DEF MessageHandler
  <2>10. CASE DisconnectCallback
    <3>1. Ignored \/ (Rests /\ state' = "Disconnected")
      BY <2>10 DEF DisconnectCallback
    <3> QED BY <2>2, <3>1
  <2> QED BY <2>4, <2>5, <2>6, <2>7, <2>8, <2>9, <2>10 DEF ControllerStep
<1>8. Posted(strand, strand')
  <2>1. \A n : DL.h \in LambdaNames /\ SJ.h \in LambdaNames /\ CC(n).h \in LambdaNames
    BY <1>6 DEF LambdaNames
  <2>2. /\ Posted(strand, strand) /\ Posted(strand, Append(strand, DL)) /\ Posted(strand, Append(strand, SJ))
        /\ \A n : Posted(strand, Append(strand, CC(n)))
    BY <1>1, <2>1, LambdaPosted
  <2>3. ASSUME NEW n
        PROVE  Posted(strand, Append(Append(strand, DL), CC(n)))
    <3>1. IsQueue(Append(strand, DL))
      BY <1>1, QueueStays
    <3>2. Posted(Append(strand, DL), Append(Append(strand, DL), CC(n)))
      BY <2>1, <3>1, LambdaPosted
    <3> QED BY <2>2, <3>2, PostedTwice
  <2> QED BY <1>7, <2>2, <2>3
<1>9. disconnectRequested' = disconnectRequested \/ (disconnectRequested' = TRUE /\ Waits(strand', "disconnect"))
  <2>1. Waits(Append(strand, DL), "disconnect")
    BY <1>1, <1>6, StrandQueue, ReadyAlready
  <2>2. \A n : Waits(Append(Append(strand, DL), CC(n)), "disconnect")
    <3>1. IsQueue(Append(strand, DL))
      BY <1>1, QueueStays
    <3> QED BY <2>1, <3>1, AppendPlaces DEF Waits
  <2> QED BY <1>7, <2>1, <2>2
<1>10. Core(FALSE)'
  <2>1. disconnectRequested \in BOOLEAN
    BY <1>1 DEF Core, HandlersInv
  <2> QED BY <1>1, <1>2, <1>8, <1>9, <2>1, CorePost
<1>11. QueuesOK'
  BY <1>1, <1>2, <1>3, <1>8 DEF QueuesOK, Posted
<1>12. Numbers' /\ Frames'
  <2>1. connectGen' \in Nat /\ connectGen' >= connectGen
    BY <1>1, <1>7
  <2>2. ASSUME NEW k \in DOMAIN strand', k \notin DOMAIN strand
        PROVE  NumberedHandler(strand'[k], connectGen') /\ JoinHandler(strand'[k])
    <3>1. /\ \A n : NumberedHandler(DL, n) /\ JoinHandler(DL) /\ NumberedHandler(SJ, n) /\ JoinHandler(SJ)
          /\ \A n : n \in Nat /\ n # 0 => NumberedHandler(CC(n), n) /\ JoinHandler(CC(n))
      BY <1>6 DEF NumberedHandler, JoinHandler
    <3>2. ASSUME NEW q, IsQueue(q), NEW y, strand' = Append(q, y), k \notin DOMAIN q
          PROVE  strand'[k] = y
      BY <2>2, <3>2, AppendPlaces
    <3>3. strand' # strand
      BY <2>2
    <3>4. CASE Rejoins
      <4>1. IsQueue(Append(strand, DL))
        BY <1>1, QueueStays
      <4>2. k \in DOMAIN Append(strand, DL) => Append(strand, DL)[k] = DL
        BY <1>1, <2>2, AppendPlaces
      <4>3. k \in DOMAIN Append(strand, DL) => strand'[k] = Append(strand, DL)[k]
        BY <3>4, <4>1, AppendPlaces
      <4>4. strand'[k] = DL \/ strand'[k] = CC(connectGen + 2)
        BY <3>2, <3>4, <4>1, <4>2, <4>3
      <4> QED BY <1>1, <3>1, <3>4, <4>4
    <3>5. CASE ~Rejoins
      <4>1. \/ strand'[k] = DL \/ strand'[k] = SJ
            \/ strand'[k] = CC(connectGen + 1) /\ connectGen' = connectGen + 1
        BY <1>1, <1>7, <2>2, <3>2, <3>3, <3>5
      <4> QED BY <1>1, <3>1, <4>1
    <3> QED BY <3>4, <3>5
  <2>3. \A k \in DOMAIN strand : strand'[k] = strand[k]
    BY <1>8 DEF Posted
  <2>4. \A k \in DOMAIN strand' : NumberedHandler(strand'[k], connectGen') /\ JoinHandler(strand'[k])
    <3>1. \A k \in DOMAIN strand : NumberedHandler(strand[k], connectGen') /\ JoinHandler(strand[k])
      BY <1>1, <2>1 DEF Numbers, Frames, NumberedHandler
    <3> QED BY <2>2, <2>3, <3>1
  <2>5. \A k \in DOMAIN o : NumberedEvent(o[k], connectGen')
    <3>1. \A k \in DOMAIN o : NumberedEvent(o[k], connectGen)
      BY <1>1, <1>2, LabelPlaces DEF Numbers
    <3> QED BY <1>1, <2>1, <3>1 DEF NumberedEvent
  <2>6. pendingCallback \in 0 .. connectGen'
    BY <1>1, <2>1 DEF Numbers
  <2> QED BY <1>1, <1>2, <2>1, <2>4, <2>5, <2>6 DEF Numbers, Frames
<1>13. \A h \in Kinds : \A g, M : Has(strand', g, h, M) <=> Has(strand, g, h, M)
  BY <1>8, PostedLeaves
<1>14. SendsFirst(strand') /\ (isConnecting => ~Waits(strand', "sendCall"))
  <2>1. ASSUME NEW q, IsQueue(q), SendsFirst(q), isConnecting => ~Waits(q, "sendCall"), NEW y, y.h # "sendCall"
        PROVE  SendsFirst(Append(q, y)) /\ (isConnecting => ~Waits(Append(q, y), "sendCall"))
    BY <2>1, SendPlaces
  <2>2. SendsFirst(strand) /\ (isConnecting => ~Waits(strand, "sendCall"))
    BY <1>1 DEF ServerInv
  <2>3. IsQueue(Append(strand, DL))
    BY <1>1, QueueStays
  <2>4. /\ SendsFirst(Append(strand, DL)) /\ (isConnecting => ~Waits(Append(strand, DL), "sendCall"))
        /\ \A n : SendsFirst(Append(strand, CC(n))) /\ (isConnecting => ~Waits(Append(strand, CC(n)), "sendCall"))
    BY <1>1, <1>6, <2>1, <2>2
  <2>5. \A n : /\ SendsFirst(Append(Append(strand, DL), CC(n)))
               /\ isConnecting => ~Waits(Append(Append(strand, DL), CC(n)), "sendCall")
    BY <1>6, <2>1, <2>3, <2>4
  <2>6. Joins => SendsFirst(strand')
    BY <1>1, <2>2, SendPlaces
  <2> QED BY <1>7, <2>2, <2>4, <2>5, <2>6
<1>15. Open' => Open /\ (Rests \/ Joins)
  <2>1. state = "Disconnected" => ~Open
    BY <1>1 DEF Structure, Off, Open
  <2> QED BY <1>2, <1>7, <2>1 DEF Open
<1>16. Open' => OpenInv'
  <2> SUFFICES ASSUME Open'
               PROVE  OpenInv'
    OBVIOUS
  <2>1. OpenInv
    BY <1>1, <1>15 DEF ServerInv
  <2>2. \A M : Brings(strand', disconnectGen', M) <=> Brings(strand, disconnectGen, M)
    BY <1>2, <1>13 DEF Brings, Kinds
  <2>3. CASE Rests
    <3>1. state' = "Connecting" => state = "Connecting"
      BY <1>7, <1>15, <2>3
    <3> QED BY <1>2, <2>1, <2>2, <2>3, <3>1 DEF OpenInv
  <2>4. CASE Joins
    <3>1. OneSend(strand')
      BY <1>1, <2>1, <2>4, SendPlaces DEF OpenInv
    <3> QED BY <1>2, <2>1, <2>2, <2>4, <3>1 DEF OpenInv
  <2> QED BY <1>15, <2>3, <2>4
<1>17. ServerInv'
  <2>1. Has(strand', disconnectGen', "connect", {"none"}) => server' = "open"
    BY <1>1, <1>2, <1>13 DEF ServerInv, Kinds
  <2> QED BY <1>2, <1>14, <1>16, <2>1 DEF ServerInv
<1>18. Done => Done'
  BY <1>2, <1>13, <1>15 DEF Done, Brings, Kinds
<1> HIDE DEF o
<1>19. Answers'
  <2>1. CASE Rests /\ Stays
    BY <1>1, <1>2, <1>3, <1>18, <2>1 DEF Answers
  <2>2. CASE Shuts
    BY <2>2 DEF Answers
  <2>3. CASE Starts \/ Rejoins
    BY <1>2, <1>3, <2>3 DEF Answers
  <2>4. CASE Joins
    BY <1>2, <1>3, <1>4, <2>4 DEF Answers
  <2> QED BY <1>7, <2>1, <2>2, <2>3, <2>4
<1>20. Restarting'
  <2>1. Pending(o, "start") => state = "Disconnected" /\ x.what \notin Calls
    BY <1>1, <1>3 DEF Restarting, Calls
  <2>2. Pending(o, "rejoin") => state \in {"Disconnected", "GameOver"} /\ x.what \notin Calls
    BY <1>1, <1>3 DEF Restarting, Calls
  <2>3. state \in {"Disconnected", "GameOver"} /\ x.what \notin Calls => state' \in {state, "Disconnected"}
    BY <1>7 DEF Calls
  <2> QED BY <1>2, <1>3, <2>1, <2>2, <2>3 DEF Restarting
<1>21. JoinBeforeGame'
  BY <1>1, <1>7 DEF JoinBeforeGame
<1> QED BY <1>5, <1>10, <1>11, <1>12, <1>17, <1>19, <1>20, <1>21 DEF ControllerInv

LEMMA ControllerInit == Init => ControllerInv
PROOF
<1> SUFFICES ASSUME Init
             PROVE  ControllerInv
  OBVIOUS
<1>1. /\ strand = << >> /\ owner = << >> /\ ops = {} /\ DOMAIN strand = {} /\ DOMAIN owner = {}
      /\ isConnected = FALSE /\ isConnecting = FALSE /\ disconnectRequested = FALSE
      /\ disconnectGen = 0 /\ pendingCallback = 0 /\ writeQueue = << >> /\ isWriting = FALSE
      /\ state = "Disconnected" /\ connectGen = 0
  BY DEF Init, TcpInit
<1>2. << >> \in Seq({})
  OBVIOUS
<1>3. IsQueue(strand) /\ IsQueue(owner)
  BY <1>1, <1>2 DEF IsQueue
<1>4. \A K : Idle(K) /\ Single(K)
  BY <1>1 DEF Idle, Single, None, AtMostOne, UnderWay, Completed
<1>5. Core(FALSE)
  <2>1. HandlersInv
    BY <1>1, <1>3 DEF HandlersInv, QueueOK
  <2> QED BY <1>1, <1>4, <2>1 DEF Core, FlagInv, LiveInv, ServedInv
<1>6. QueuesOK
  BY <1>1, <1>3 DEF QueuesOK
<1>7. Numbers
  BY <1>1 DEF Numbers
<1>8. Structure
  <2>1. ~Connects(strand) /\ Ready(strand, Down) /\ NoConnect(strand, connectGen)
    BY <1>1 DEF Connects, Ready, NoConnect
  <2> QED BY <1>1, <2>1 DEF Structure, Abandoned, Off, TransportGoesDown, Playing
<1>9. Frames
  BY <1>1 DEF Frames
<1>10. ServerInv
  BY <1>1 DEF ServerInv, Has, SendsFirst, Open
<1>11. Answers
  BY <1>1 DEF Answers
<1>12. Restarting
  BY <1>1 DEF Restarting, OneCall, AnswersFirst, Pending
<1>13. JoinBeforeGame
  BY <1>1 DEF JoinBeforeGame
<1> QED BY <1>5, <1>6, <1>7, <1>8, <1>9, <1>10, <1>11, <1>12, <1>13 DEF ControllerInv

LEMMA ControllerNext == ASSUME Polite PROVE ControllerInv /\ [Next]_clientVars => ControllerInv'
PROOF
<1> SUFFICES ASSUME ControllerInv, [Next]_clientVars
             PROVE  ControllerInv'
  OBVIOUS
<1>1. /\ Core(FALSE) /\ QueuesOK /\ Numbers /\ Structure
      /\ Frames /\ ServerInv /\ Answers /\ Restarting
      /\ JoinBeforeGame
  BY DEF ControllerInv
<1>2. CASE TcpStep
  <2>1. StrandStep /\ UNCHANGED <<state, connectGen, joined, server>>
    BY <1>2 DEF TcpStep, ctlVars
  <2>2. Core(FALSE)'
    BY <1>1, <2>1, CoreStrand
  <2>3. QueuesOK'
    BY <1>1, <2>1, TcpHandler
  <2>4. Numbers'
    BY <1>1, <2>1, NumbersStrand
  <2>5. Structure'
    BY <1>1, <2>1, StructureStrand
  <2>6. Frames'
    BY <1>1, <2>1, FramesStrand
  <2>7. ServerInv'
    BY <1>1, <2>1, ServerStrand
  <2>8. Answers' /\ Restarting'
    BY <1>1, <2>1, AnswersStrand
  <2>9. JoinBeforeGame'
    BY <1>1, <2>1 DEF JoinBeforeGame
  <2> QED BY <2>2, <2>3, <2>4, <2>5, <2>6, <2>7, <2>8, <2>9 DEF ControllerInv
<1>3. CASE UNCHANGED clientVars
  <2>1. UNCHANGED <<isConnected, isConnecting, pendingCallback, disconnectGen, activeGen, disconnectRequested,
                    writeQueue, isWriting, strand, ops, owner, state, connectGen, joined, server>>
    BY <1>3 DEF clientVars, tcpVars, connVars, genVars, writeVars, ctlVars
  <2>2. Core(FALSE)'
    BY <1>1, <2>1 DEF Core, HandlersInv, FlagInv, LiveInv, ServedInv, DisconnectPending, Idle, Single
  <2>3. QueuesOK' /\ Numbers' /\ Frames' /\ JoinBeforeGame'
    BY <1>1, <2>1 DEF QueuesOK, Numbers, Frames, JoinBeforeGame
  <2>4. Structure'
    BY <1>1, <2>1 DEF Structure, Down, Abandoned, Asked, Trying, Told, Off, On, TransportGoesDown
  <2>5. ServerInv'
    BY <1>1, <2>1 DEF ServerInv, OpenInv, Open
  <2>6. Answers' /\ Restarting'
    BY <1>1, <2>1 DEF Answers, Restarting, Done, Open
  <2> QED BY <2>2, <2>3, <2>4, <2>5, <2>6 DEF ControllerInv
<1>4. CASE \E c \in Calls : Call(c)
  BY <1>4, InvCall
<1>5. CASE ControllerStep
  BY <1>5, InvController
<1>6. CASE \E op \in ops, ok \in BOOLEAN : Completes(op, ok)
  BY <1>6, InvCompletes
<1>7. CASE \E msg \in ServerMsgs : ServerSends(msg)
  BY <1>7, InvSends
<1> QED BY <1>2, <1>3, <1>4, <1>5, <1>6, <1>7, Zenon DEF Next

\* The invariant of the controller and its transport, for any number of polite calls.
THEOREM ControllerCorrect == ASSUME Polite PROVE Spec => []ControllerInv
  BY ControllerInit, ControllerNext, PTL DEF Spec

\* A client that counts as joining, playing or done has sent a JOIN in its present
\* generation, however its calls, the callbacks of earlier attempts and the answers
\* of earlier connections interleave.
THEOREM JoinCorrect == ASSUME Polite PROVE Spec => []JoinBeforeGame
PROOF
<1>1. ControllerInv => JoinBeforeGame
  BY DEF ControllerInv
<1> QED BY <1>1, ControllerCorrect, PTL

\* Whenever the two strands have run dry the controller agrees with its transport:
\* it is not Connecting, and it is Disconnected just when there is no connection.
THEOREM AgreesCorrect == ASSUME Polite PROVE Spec => []AgreesAtRest
PROOF
<1>1. ControllerInv => AgreesAtRest
  <2> SUFFICES ASSUME ControllerInv, AtRest
               PROVE  state # "Connecting" /\ (state = "Disconnected" <=> ~isConnected)
    BY DEF AgreesAtRest
  <2>1. strand = << >> /\ owner = << >> /\ Attempts = {} /\ DOMAIN strand = {} /\ DOMAIN owner = {}
    BY DEF AtRest
  <2>2. ~isConnecting
    <3>1. UnderWay(ops, disconnectGen, AttemptKinds) = {}
      BY <2>1 DEF UnderWay, Attempts, AttemptKinds
    <3>2. Completed(strand, disconnectGen, AttemptKinds) = {}
      BY <2>1 DEF Completed
    <3> QED BY <3>1, <3>2 DEF ControllerInv, Core, LiveInv, Idle, None
  <2>3. Structure
    BY DEF ControllerInv
  <2>4. state # "Connecting"
    BY <2>1, <2>2, <2>3 DEF Structure, Asked, Trying, Told, LastConnect, Outcome
  <2>5. state = "Disconnected" => ~isConnected
    BY <2>1, <2>3 DEF Structure, Off, TransportGoesDown, DisconnectLast
  <2>6. state # "Disconnected" => isConnected
    BY <2>1, <2>3, <2>4 DEF Structure, On, Ends
  <2> QED BY <2>4, <2>5, <2>6
<1> QED BY <1>1, ControllerCorrect, PTL

=============================================================================
