----------------------------- MODULE TcpClient -----------------------------
(***************************************************************************)
(* The client's connection, TcpClient (src/src/client/tcp_client.cpp):     *)
(* connect(), send() and disconnect() post lambdas to strand_, and the     *)
(* asynchronous operations on the resolver and the socket complete there.  *)
(* The strand runs one handler at a time, in the order they were posted,   *)
(* so a handler is one action.  disconnect_requested_ is an atomic that    *)
(* disconnect() sets on the calling thread, before it posts.               *)
(*                                                                         *)
(* The connect, message and disconnect callbacks post to the strand of the *)
(* object that owns the TcpClient (GameController), the queue `owner`.     *)
(* An operation carries the generation it was started with.  Who calls is  *)
(* left to the modules that extend this one: TcpClientUser, whose callers  *)
(* do as they please, and GameController.                                  *)
(***************************************************************************)
EXTENDS Naturals, Sequences, FiniteSets

CONSTANTS MaxConnects,  \* bound: connect callbacks
          MaxMessages,  \* bound: messages the server sends
          MaxCalls      \* bound: calls of those who use the client

ASSUME TcpClientAssumption ==
  MaxConnects \in Nat /\ MaxMessages \in Nat /\ MaxCalls \in Nat

VARIABLES isConnected,         \* is_connected_
          isConnecting,        \* is_connecting_
          disconnectRequested, \* disconnect_requested_
          disconnectGen,       \* disconnect_generation_
          activeGen,           \* active_connect_generation_
          pendingCallback,     \* pending_connect_callback_: its number, 0 if empty
          writeQueue,          \* write_queue_
          isWriting,           \* is_writing_
          strand,              \* handlers queued on strand_
          ops,                 \* asynchronous operations under way
          owner,               \* what waits on the owner's strand
          answers,             \* how often each connect callback was called
          messages,            \* messages received so far
          calls                \* calls made so far

connVars  == <<isConnected, isConnecting, pendingCallback>>
genVars   == <<disconnectGen, activeGen>>
writeVars == <<writeQueue, isWriting>>
tcpVars   == <<connVars, genVars, disconnectRequested, writeVars, strand, ops, owner,
               answers, messages>>

\* A lambda posted to strand_, or the completion of an operation.
Lambda(h, arg) == [h |-> h, arg |-> arg]
Completion(op, ok, msg) == [h |-> op.kind, op |-> op, ok |-> ok, msg |-> msg]

\* arg is the frame of a write.
Op(kind, gen, arg) == [kind |-> kind, gen |-> gen, arg |-> arg]

\* What the callbacks post to the owner's strand.
ConnectEvent(cb, ok) == [what |-> "connect", cb |-> cb, ok |-> ok]
MessageEvent(msg)    == [what |-> "message", msg |-> msg]
DisconnectEvent      == [what |-> "disconnect"]

TcpInit ==
  /\ isConnected = FALSE /\ isConnecting = FALSE /\ disconnectRequested = FALSE
  /\ disconnectGen = 0 /\ activeGen = 0 /\ pendingCallback = 0
  /\ writeQueue = << >> /\ isWriting = FALSE
  /\ strand = << >> /\ ops = {} /\ owner = << >>
  /\ answers = [cb \in 1 .. MaxConnects |-> 0] /\ messages = 0

-----------------------------------------------------------------------------
(* Helpers of the handlers *)

Running(h) == strand # << >> /\ Head(strand).h = h

\* isValidGeneration()
IsValidGeneration(gen) == gen = activeGen /\ gen = disconnectGen

\* isStopped(), and the same test written out in the handlers
IsStopped == ~isConnected \/ disconnectRequested

\* Mutant: only a success is reported.
InvokeOnlySuccess(cb, ok) ==
  IF cb = 0 \/ ~ok THEN UNCHANGED <<owner, answers>>
  ELSE /\ owner' = Append(owner, ConnectEvent(cb, ok))
       /\ answers' = [answers EXCEPT ![cb] = @ + 1]

\* invokeConnectCallback(): the callback, if there is one, posts to its owner.
InvokeConnectCallback(cb, ok) ==
  IF cb = 0 THEN UNCHANGED <<owner, answers>>
  ELSE /\ owner' = Append(owner, ConnectEvent(cb, ok))
       /\ answers' = [answers EXCEPT ![cb] = @ + 1]

\* What disconnect() posts.
DisconnectLambda == Lambda("disconnect", 0)

\* disconnect() called from a handler on the strand, whose queue becomes q.
DisconnectFrom(q) ==
  /\ disconnectRequested' = TRUE
  /\ strand' = Append(q, DisconnectLambda)

\* The write that doWrite() starts for the first frame of q.
WriteOf(q) == {Op("write", activeGen, Head(q))}

-----------------------------------------------------------------------------
(* Handlers on the strand *)

\* The generation a new attempt belongs to
Generation == disconnectGen

\* The lambda of connect(), not refused: a request to disconnect is forgotten
\* and the name is resolved.
BeginAttempt(cb) ==
  /\ disconnectRequested' = FALSE
  /\ isConnecting' = TRUE
  /\ activeGen' = Generation
  /\ pendingCallback' = cb
  /\ ops' = ops \cup {Op("resolve", Generation, 0)}
  /\ UNCHANGED <<isConnected, disconnectGen>>

\* The lambda of connect(): refused when connected or connecting.
ConnectHandler ==
  /\ Running("connectCall")
  /\ LET cb == Head(strand).arg IN
       IF isConnected \/ isConnecting
       THEN /\ InvokeConnectCallback(cb, FALSE)
            /\ UNCHANGED <<connVars, genVars, disconnectRequested, ops>>
       ELSE BeginAttempt(cb) /\ UNCHANGED <<owner, answers>>
  /\ strand' = Tail(strand)
  /\ UNCHANGED <<writeVars, messages>>

\* A completion of resolve or connect that belongs to an attempt given up.
AttemptIsStale(gen) == ~IsValidGeneration(gen) \/ ~isConnecting

\* An attempt ends without a connection: the pending callback is told (the error
\* paths of the resolve handler, failConnect() and the connect completion).
FailConnect ==
  /\ isConnecting' = FALSE
  /\ isConnected' = FALSE
  /\ pendingCallback' = 0
  /\ InvokeConnectCallback(pendingCallback, FALSE)

\* The handler of async_resolve
ResolveHandler ==
  /\ Running("resolve")
  /\ LET h == Head(strand) IN
       \/ /\ AttemptIsStale(h.op.gen)
          /\ UNCHANGED <<connVars, ops, owner, answers>>
       \/ /\ ~AttemptIsStale(h.op.gen) /\ (disconnectRequested \/ ~h.ok)
          /\ FailConnect
          /\ UNCHANGED ops
       \/ /\ ~AttemptIsStale(h.op.gen) /\ ~disconnectRequested /\ h.ok
          /\ ops' = ops \cup {Op("connect", h.op.gen, 0)}
          /\ UNCHANGED <<connVars, owner, answers>>
  /\ strand' = Tail(strand)
  /\ UNCHANGED <<genVars, disconnectRequested, writeVars, messages>>

\* Mutant: the connection is not read from.
ConnectedNoRead(gen) ==
  /\ isConnecting' = FALSE
  /\ isConnected' = TRUE
  /\ pendingCallback' = 0
  /\ InvokeConnectCallback(pendingCallback, TRUE)
  /\ UNCHANGED ops

\* The end of the connect completion: the callback is told, then doRead().
Connected(gen) ==
  /\ isConnecting' = FALSE
  /\ isConnected' = TRUE
  /\ pendingCallback' = 0
  /\ InvokeConnectCallback(pendingCallback, TRUE)
  /\ ops' = ops \cup {Op("read", gen, 0)}

\* The handler of async_connect
ConnectionHandler ==
  /\ Running("connect")
  /\ LET h == Head(strand) IN
       \/ /\ AttemptIsStale(h.op.gen)
          /\ UNCHANGED <<connVars, ops, owner, answers>>
       \/ /\ ~AttemptIsStale(h.op.gen) /\ (disconnectRequested \/ ~h.ok)
          /\ FailConnect
          /\ UNCHANGED ops
       \/ /\ ~AttemptIsStale(h.op.gen) /\ ~disconnectRequested /\ h.ok
          /\ Connected(h.op.gen)
  /\ strand' = Tail(strand)
  /\ UNCHANGED <<genVars, disconnectRequested, writeVars, messages>>

\* Mutant: is_writing_ is not looked at.
WritesAlways == TRUE

\* send() starts a write only when none is under way.
MayWrite == ~isWriting

\* The lambda of send(): the frame is queued, and written if no write is under
\* way; without a connection it is dropped.
SendHandler ==
  /\ Running("sendCall")
  /\ IF IsStopped
     THEN UNCHANGED <<writeVars, ops>>
     ELSE /\ writeQueue' = Append(writeQueue, Head(strand).arg)
          /\ isWriting' = TRUE
          /\ ops' = IF MayWrite THEN ops \cup WriteOf(writeQueue') ELSE ops
  /\ strand' = Tail(strand)
  /\ UNCHANGED <<connVars, genVars, disconnectRequested, owner, answers, messages>>

\* The lambda of disconnect(): a new generation, and unless there was nothing to
\* do (then the assignments change nothing) everything is closed and emptied, the
\* pending callback is told FALSE and the end of a connection is announced.  The
\* operations under way are cancelled: OpCompletes lets them only fail.
DisconnectHandler ==
  /\ Running("disconnect")
  /\ disconnectGen' = disconnectGen + 1
  /\ IF isConnected \/ isConnecting \/ writeQueue # << >> \/ disconnectRequested
     THEN /\ isConnected' = FALSE /\ isConnecting' = FALSE /\ pendingCallback' = 0
          /\ writeQueue' = << >> /\ isWriting' = FALSE
          /\ IF isConnecting THEN InvokeConnectCallback(pendingCallback, FALSE)
             ELSE /\ owner' = IF isConnected THEN Append(owner, DisconnectEvent) ELSE owner
                  /\ UNCHANGED answers
     ELSE UNCHANGED <<connVars, writeVars, owner, answers>>
  /\ strand' = Tail(strand)
  /\ UNCHANGED <<activeGen, disconnectRequested, ops, messages>>

\* The handler of async_read_some: an error disconnects, a message goes to the
\* owner and the next read is started.
ReadHandler ==
  /\ Running("read")
  /\ LET h == Head(strand) IN
       \/ /\ ~IsValidGeneration(h.op.gen) \/ IsStopped
          /\ strand' = Tail(strand)
          /\ UNCHANGED <<disconnectRequested, ops, owner>>
       \/ /\ IsValidGeneration(h.op.gen) /\ ~IsStopped /\ ~h.ok
          /\ DisconnectFrom(Tail(strand))
          /\ UNCHANGED <<ops, owner>>
       \/ /\ IsValidGeneration(h.op.gen) /\ ~IsStopped /\ h.ok
          /\ strand' = Tail(strand)
          /\ owner' = Append(owner, MessageEvent(h.msg))
          /\ ops' = ops \cup {Op("read", activeGen, 0)}
          /\ UNCHANGED disconnectRequested
  /\ UNCHANGED <<connVars, genVars, writeVars, answers, messages>>

\* The frames left when the write of `frame` is done.
Written(frame) ==
  IF writeQueue # << >> /\ Head(writeQueue) = frame THEN Tail(writeQueue) ELSE writeQueue

\* The handler of async_write, with doWrite(): it looks at the generation and at
\* is_connected_ but not at disconnect_requested_, except before the next write.
WriteHandler ==
  /\ Running("write")
  /\ LET h    == Head(strand)
         next == writeQueue' # << >> /\ ~disconnectRequested IN
       \/ /\ ~IsValidGeneration(h.op.gen) \/ ~isConnected
          /\ strand' = Tail(strand)
          /\ UNCHANGED <<disconnectRequested, writeVars, ops>>
       \/ /\ IsValidGeneration(h.op.gen) /\ isConnected /\ ~h.ok
          /\ DisconnectFrom(Tail(strand))
          /\ UNCHANGED <<writeVars, ops>>
       \/ /\ IsValidGeneration(h.op.gen) /\ isConnected /\ h.ok
          /\ strand' = Tail(strand)
          /\ writeQueue' = Written(h.op.arg)
          /\ isWriting' = next
          /\ ops' = IF next THEN ops \cup WriteOf(writeQueue') ELSE ops
          /\ UNCHANGED disconnectRequested
  /\ UNCHANGED <<connVars, genVars, owner, answers, messages>>

StrandStep ==
  \/ ConnectHandler \/ SendHandler \/ DisconnectHandler
  \/ ResolveHandler \/ ConnectionHandler \/ ReadHandler \/ WriteHandler

-----------------------------------------------------------------------------
(* The network *)

\* An operation other than a read that brings a message completes.  One that a
\* disconnect has cancelled fails; a read ends only with an error.
OpCompletes(op, ok) ==
  /\ op \in ops
  /\ ok => op.kind # "read" /\ op.gen = disconnectGen
  /\ ops' = ops \ {op}
  /\ strand' = Append(strand, Completion(op, ok, "none"))
  /\ UNCHANGED <<connVars, genVars, disconnectRequested, writeVars, owner, answers, messages>>

\* A read brings the frame of a message.
ReadBrings(op, msg) ==
  /\ op \in ops /\ op.kind = "read" /\ op.gen = disconnectGen
  /\ messages < MaxMessages
  /\ messages' = messages + 1
  /\ ops' = ops \ {op}
  /\ strand' = Append(strand, Completion(op, TRUE, msg))
  /\ UNCHANGED <<connVars, genVars, disconnectRequested, writeVars, owner, answers>>

\* Operations that end by themselves; a read waits for the server.
Attempts == {op \in ops : op.kind # "read"}

-----------------------------------------------------------------------------
(* Properties of every use *)

\* How many operations of a kind the present connection has: under way, or
\* completed with a handler that has not run.
Live(kind) ==
  Cardinality({op \in ops : op.kind = kind /\ op.gen = disconnectGen})
    + Cardinality({k \in DOMAIN strand : strand[k].h = kind /\ strand[k].op.gen = disconnectGen})

\* On the open socket at most one async_read_some, one async_write and one attempt
\* to connect are under way, whatever calls raced: frames are never torn and never
\* dispatched out of order (is_writing_, is_connecting_, the generations).
OneOperationAtATime ==
  Live("read") <= 1 /\ Live("write") <= 1 /\ Live("resolve") + Live("connect") <= 1

=============================================================================
