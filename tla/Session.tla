------------------------------ MODULE Session ------------------------------
(***************************************************************************)
(* The connections of the server: TcpServer (src/src/server/tcp_server.cpp)*)
(* accepts them, Session (session.cpp) reads and writes, SessionRegistry   *)
(* (session_registry.cpp) routes packets to them and NetworkResponseRouter *)
(* (network_response_router.cpp) turns frames into actions of the world.   *)
(*                                                                         *)
(* Three kinds of threads meet here.  The accept handler is on no strand   *)
(* and its statements interleave with everything.  Each session has a      *)
(* strand that runs one handler at a time, in posting order; closed_,      *)
(* write_queue_ and is_writing_ are written there only, so a handler is    *)
(* one action.  The world's thread broadcasts.  EventBus::publish() calls  *)
(* the subscribers in place.                                               *)
(***************************************************************************)
EXTENDS Naturals, Sequences, FiniteSets

CONSTANTS MaxSessions,  \* bound: connections accepted
          MaxSends,     \* bound: packets sent in all
          MaxReads,     \* bound: reads that bring data, per session
          Reads,        \* the sequences of frames one read may bring
          EncodeFails   \* TRUE: FrameCodec::encode() may throw

SessionIds == 1 .. MaxSessions

\* JOIN and SHOOT stand for themselves, MOVE for one with a number, "junk" for
\* a MOVE that std::stod() rejects and for everything the router does not know.
Frames == {"JOIN", "SHOOT", "MOVE", "junk"}

ASSUME SessionAssumption ==
  /\ MaxSessions \in Nat /\ MaxSends \in Nat /\ MaxReads \in Nat
  /\ Reads \subseteq Seq(Frames)
  /\ EncodeFails \in BOOLEAN

VARIABLES acceptor,      \* whether acceptor_ is open
          acceptAt,      \* where async_accept and its handler are
          nextSessionId, \* next_session_id_
          registry,      \* the keys of sessions_
          closed,        \* closed_
          socket,        \* whether socket_ is open
          peer,          \* whether the client's end of the connection is up
          strand,        \* handlers queued on each session's strand_
          reading,       \* an async_read_some is pending
          reads,         \* reads that brought data
          writeQueue,    \* write_queue_
          isWriting,     \* is_writing_
          inFlight,      \* the async_write operations under way
          packet,        \* number of the last packet sent
          sending,       \* the packet the world sends, and to whom it still must
          posted,        \* packets handed to each session's send()
          delivered,     \* packets written to each socket
          inbox          \* actions the world was given for each session

acceptVars == <<acceptor, acceptAt, nextSessionId>>
readVars   == <<reading, reads>>
writeVars  == <<writeQueue, isWriting, inFlight, delivered>>
sendVars   == <<packet, sending, posted>>
vars == <<acceptVars, registry, closed, socket, peer, strand, readVars, writeVars,
          sendVars, inbox>>

\* A handler on a strand: a posted lambda or a completion.
Handler(h)  == [h |-> h, packet |-> 0, frames |-> << >>]
SendOf(p)   == [h |-> "send", packet |-> p, frames |-> << >>]
ReadOf(fs)  == [h |-> "readOk", packet |-> 0, frames |-> fs]

HandlerNames == {"doRead", "send", "closing", "readOk", "readErr", "writeOk", "writeErr"}

Handlers == [h : HandlerNames, packet : Nat, frames : Seq(Frames)]

Init ==
  /\ acceptor = "open" /\ acceptAt = "none" /\ nextSessionId = 1
  /\ registry = {}
  /\ closed = [s \in SessionIds |-> FALSE]
  /\ socket = [s \in SessionIds |-> "none"]
  /\ peer = [s \in SessionIds |-> "up"]
  /\ strand = [s \in SessionIds |-> << >>]
  /\ reading = [s \in SessionIds |-> FALSE] /\ reads = [s \in SessionIds |-> 0]
  /\ writeQueue = [s \in SessionIds |-> << >>]
  /\ isWriting = [s \in SessionIds |-> FALSE]
  /\ inFlight = [s \in SessionIds |-> << >>]
  /\ packet = 0 /\ sending = [packet |-> 0, to |-> {}]
  /\ posted = [s \in SessionIds |-> << >>] /\ delivered = [s \in SessionIds |-> << >>]
  /\ inbox = [s \in SessionIds |-> << >>]

-----------------------------------------------------------------------------
(* TcpServer *)

\* The session the accept handler is working on.
Accepted == nextSessionId - 1

AcceptStep(from, to) ==
  /\ acceptAt = from /\ acceptAt' = to
  /\ UNCHANGED <<readVars, writeVars, sendVars, peer>>

\* async_accept(): on a closed acceptor it completes with an error.
Accepting == IF acceptor = "open" THEN "waiting" ELSE "failed"

\* TcpServer::start()
ServerStart ==
  /\ AcceptStep("none", Accepting)
  /\ UNCHANGED <<acceptor, nextSessionId, registry, closed, socket, strand, inbox>>

\* TcpServer::stop(): a pending async_accept is aborted.
ServerStop ==
  /\ acceptor = "open" /\ acceptor' = "closed"
  /\ acceptAt' = IF acceptAt = "waiting" THEN "aborted" ELSE acceptAt
  /\ UNCHANGED <<nextSessionId, registry, closed, socket, peer, strand, readVars,
                 writeVars, sendVars, inbox>>

\* async_accept completes, with a socket or with an error.
ClientConnects ==
  /\ nextSessionId <= MaxSessions
  /\ AcceptStep("waiting", "accepted")
  /\ UNCHANGED <<acceptor, nextSessionId, registry, closed, socket, strand, inbox>>

AcceptFails ==
  /\ AcceptStep("waiting", "failed")
  /\ UNCHANGED <<acceptor, nextSessionId, registry, closed, socket, strand, inbox>>

\* The handler, operation_aborted: return.
AcceptAborted ==
  /\ AcceptStep("aborted", "off")
  /\ UNCHANGED <<acceptor, nextSessionId, registry, closed, socket, strand, inbox>>

\* The end of the handler, and its branch for other errors: is_open() ...
AcceptAgain ==
  /\ \E at \in {"failed", "again"} :
       AcceptStep(at, IF acceptor = "open" THEN "rearm" ELSE "off")
  /\ UNCHANGED <<acceptor, nextSessionId, registry, closed, socket, strand, inbox>>

\* ... then doAccept().
DoAccept ==
  /\ AcceptStep("rearm", Accepting)
  /\ UNCHANGED <<acceptor, nextSessionId, registry, closed, socket, strand, inbox>>

\* The handler, success: a new id and a Session that owns the socket.
CreateSession ==
  /\ AcceptStep("accepted", "add")
  /\ nextSessionId' = nextSessionId + 1
  /\ socket' = [socket EXCEPT ![nextSessionId] = "open"]
  /\ UNCHANGED <<acceptor, registry, closed, strand, inbox>>

\* registry.addSession(session)
AddSession ==
  /\ AcceptStep("add", "start")
  /\ registry' = registry \cup {Accepted}
  /\ UNCHANGED <<acceptor, nextSessionId, closed, socket, strand, inbox>>

\* Session::start(): post doRead() unless the session is closed.
StartSession ==
  /\ AcceptStep("start", "publish")
  /\ strand' = IF closed[Accepted] THEN strand
               ELSE [strand EXCEPT ![Accepted] = Append(@, Handler("doRead"))]
  /\ UNCHANGED <<acceptor, nextSessionId, registry, closed, socket, inbox>>

\* publish(ClientConnectedEvent): the router logs it, the world does not listen.
PublishConnected ==
  /\ AcceptStep("publish", "again")
  /\ UNCHANGED <<acceptor, nextSessionId, registry, closed, socket, strand, inbox>>

-----------------------------------------------------------------------------
(* SessionRegistry: packets from the world's thread *)

\* SendPacketEvent: the sessions it is for are looked up under the lock.
SendPacket(targets) ==
  /\ sending.to = {} /\ targets # {} /\ packet < MaxSends
  /\ packet' = packet + 1
  /\ sending' = [packet |-> packet + 1, to |-> targets]
  /\ UNCHANGED <<acceptVars, registry, closed, socket, peer, strand, readVars, writeVars,
                 posted, inbox>>

\* The broadcast id: all sessions.
Broadcast == SendPacket(registry)

\* Any other id: that session, if it is there.
SendTo == \E s \in registry : SendPacket({s})

\* session->send(data), outside the lock: the lambda is posted.
PostSend(s) ==
  /\ s \in sending.to
  /\ strand' = [strand EXCEPT ![s] = Append(@, SendOf(sending.packet))]
  /\ posted' = [posted EXCEPT ![s] = Append(@, sending.packet)]
  /\ sending' = [sending EXCEPT !.to = @ \ {s}]
  /\ UNCHANGED <<acceptVars, registry, closed, socket, peer, readVars, writeVars, packet, inbox>>

-----------------------------------------------------------------------------
(* The network *)

\* The client goes away, or the connection breaks.
PeerBreaks(s) ==
  /\ socket[s] = "open" /\ peer[s] = "up"
  /\ peer' = [peer EXCEPT ![s] = "down"]
  /\ UNCHANGED <<acceptVars, registry, closed, socket, strand, readVars, writeVars, sendVars, inbox>>

\* async_read_some completes with data, or, on a broken connection, an error.
ReadCompletes(s) ==
  /\ reading[s] /\ reads[s] < MaxReads
  /\ reads' = [reads EXCEPT ![s] = @ + 1]
  /\ reading' = [reading EXCEPT ![s] = FALSE]
  /\ \E fs \in Reads : strand' = [strand EXCEPT ![s] = Append(@, ReadOf(fs))]
  /\ UNCHANGED <<acceptVars, registry, closed, socket, peer, writeVars, sendVars, inbox>>

ReadFails(s) ==
  /\ reading[s] /\ peer[s] = "down"
  /\ reading' = [reading EXCEPT ![s] = FALSE]
  /\ strand' = [strand EXCEPT ![s] = Append(@, Handler("readErr"))]
  /\ UNCHANGED <<acceptVars, registry, closed, socket, peer, reads, writeVars, sendVars, inbox>>

\* async_write completes: the frame is in the socket.
WriteCompletes(s) ==
  /\ inFlight[s] # << >>
  /\ delivered' = [delivered EXCEPT ![s] = Append(@, Head(inFlight[s]))]
  /\ inFlight' = [inFlight EXCEPT ![s] = Tail(@)]
  /\ strand' = [strand EXCEPT ![s] = Append(@, Handler("writeOk"))]
  /\ UNCHANGED <<acceptVars, registry, closed, socket, peer, readVars, writeQueue,
                 isWriting, sendVars, inbox>>

WriteFails(s) ==
  /\ inFlight[s] # << >> /\ peer[s] = "down"
  /\ inFlight' = [inFlight EXCEPT ![s] = Tail(@)]
  /\ strand' = [strand EXCEPT ![s] = Append(@, Handler("writeErr"))]
  /\ UNCHANGED <<acceptVars, registry, closed, socket, peer, readVars, writeQueue,
                 isWriting, delivered, sendVars, inbox>>

-----------------------------------------------------------------------------
(* Handlers on a session's strand *)

Serve(s, h) == strand[s] # << >> /\ Head(strand[s]).h = h

Rest(s) == Tail(strand[s])

\* Mutant: close() does not notice that it was called before.
CloseIntoAgain(s, q) ==
  /\ closed' = [closed EXCEPT ![s] = TRUE]
  /\ strand' = [strand EXCEPT ![s] = Append(q, Handler("closing"))]

\* close(), called by a handler of s when q is what is left of the strand.
CloseInto(s, q) ==
  /\ closed' = [closed EXCEPT ![s] = TRUE]
  /\ strand' = [strand EXCEPT ![s] = IF closed[s] THEN q ELSE Append(q, Handler("closing"))]

\* The lambda of Session::start().
DoRead(s) ==
  /\ Serve(s, "doRead")
  /\ reading' = [reading EXCEPT ![s] = ~closed[s]]
  /\ strand' = [strand EXCEPT ![s] = Rest(s)]
  /\ UNCHANGED <<acceptVars, registry, closed, socket, peer, reads, writeVars, sendVars, inbox>>

\* The frames of a read that are JOINs, and those the router makes actions of.
JoinsIn(frames) == {k \in DOMAIN frames : frames[k] = "JOIN"}

ActionsIn(frames) == {k \in DOMAIN frames : frames[k] # "junk"}

\* What the router does with the frames of a read, in their order: the world gets
\* an action for each frame of ActionsIn().
Route(s, frames) ==
  \E kept \in [1 .. Cardinality(ActionsIn(frames)) -> ActionsIn(frames)] :
    /\ \A j, k \in DOMAIN kept : j < k => kept[j] < kept[k]
    /\ inbox' = [inbox EXCEPT ![s] = @ \o [k \in DOMAIN kept |-> frames[kept[k]]]]

\* The read handler, success.  Every frame is published and routed in place: the
\* world gets an action, and JOIN is answered by an ACCEPT, which goes through
\* the registry to this session's own send().  Then doRead().
OnRead(s) ==
  /\ Serve(s, "readOk")
  /\ LET frames  == Head(strand[s]).frames
         joins   == Cardinality(JoinsIn(frames))
         accepts == IF s \in registry THEN [k \in 1 .. joins |-> packet + k] ELSE << >>
     IN  /\ Route(s, frames)
         /\ packet' = packet + joins
         /\ posted' = [posted EXCEPT ![s] = @ \o accepts]
         /\ strand' = [strand EXCEPT ![s] =
                         Rest(s) \o [k \in DOMAIN accepts |-> SendOf(accepts[k])]]
  /\ reading' = [reading EXCEPT ![s] = ~closed[s]]
  /\ UNCHANGED <<acceptVars, registry, closed, socket, peer, reads, writeVars, sending>>

\* Mutant: a read error ends the reading but not the session.
OnReadErrorIgnored(s) ==
  /\ Serve(s, "readErr")
  /\ strand' = [strand EXCEPT ![s] = Rest(s)]
  /\ UNCHANGED <<acceptVars, registry, closed, socket, peer, readVars, writeVars, sendVars, inbox>>

\* The read handler, error: close().
OnReadError(s) ==
  /\ Serve(s, "readErr")
  /\ CloseInto(s, Rest(s))
  /\ UNCHANGED <<acceptVars, registry, socket, peer, readVars, writeVars, sendVars, inbox>>

\* doWrite() with write queue q and strand rest.
DoWrite(s, q, rest) ==
  \/ /\ closed[s] \/ q = << >>
     /\ isWriting' = [isWriting EXCEPT ![s] = FALSE]
     /\ writeQueue' = [writeQueue EXCEPT ![s] = q]
     /\ strand' = [strand EXCEPT ![s] = rest]
     /\ UNCHANGED <<closed, inFlight>>
  \/ /\ ~closed[s] /\ q # << >>
     /\ isWriting' = [isWriting EXCEPT ![s] = TRUE]
     /\ writeQueue' = [writeQueue EXCEPT ![s] = Tail(q)]
     /\ inFlight' = [inFlight EXCEPT ![s] = Append(@, Head(q))]
     /\ strand' = [strand EXCEPT ![s] = rest]
     /\ UNCHANGED closed
  \/ /\ ~closed[s] /\ q # << >> /\ EncodeFails
     /\ isWriting' = [isWriting EXCEPT ![s] = FALSE]
     /\ writeQueue' = [writeQueue EXCEPT ![s] = Tail(q)]
     /\ CloseInto(s, rest)
     /\ UNCHANGED inFlight

\* The lambda of send() on a closed session: the packet is dropped.
OnSendClosed(s) ==
  /\ Serve(s, "send") /\ closed[s]
  /\ strand' = [strand EXCEPT ![s] = Rest(s)]
  /\ UNCHANGED <<acceptVars, registry, closed, socket, peer, readVars, writeVars, sendVars, inbox>>

\* Mutant: every send() starts a write.
OnSendAlwaysWrites(s) ==
  /\ Serve(s, "send") /\ ~closed[s]
  /\ DoWrite(s, Append(writeQueue[s], Head(strand[s]).packet), Rest(s))
  /\ UNCHANGED <<acceptVars, registry, socket, peer, readVars, delivered, sendVars, inbox>>

\* Mutant: a packet is dropped while another one is being written.
OnSendDropsWhenBusy(s) ==
  /\ Serve(s, "send") /\ ~closed[s]
  /\ IF isWriting[s]
       THEN /\ strand' = [strand EXCEPT ![s] = Rest(s)]
            /\ UNCHANGED <<closed, writeQueue, isWriting, inFlight>>
       ELSE DoWrite(s, Append(writeQueue[s], Head(strand[s]).packet), Rest(s))
  /\ UNCHANGED <<acceptVars, registry, socket, peer, readVars, delivered, sendVars, inbox>>

\* The lambda of send(): queue the packet, and write if no write is going on.
OnSend(s) ==
  /\ Serve(s, "send") /\ ~closed[s]
  /\ LET q == Append(writeQueue[s], Head(strand[s]).packet)
     IN  IF isWriting[s]
           THEN /\ writeQueue' = [writeQueue EXCEPT ![s] = q]
                /\ strand' = [strand EXCEPT ![s] = Rest(s)]
                /\ UNCHANGED <<closed, isWriting, inFlight>>
           ELSE DoWrite(s, q, Rest(s))
  /\ UNCHANGED <<acceptVars, registry, socket, peer, readVars, delivered, sendVars, inbox>>

\* The write handler, success.
OnWritten(s) ==
  /\ Serve(s, "writeOk")
  /\ DoWrite(s, writeQueue[s], Rest(s))
  /\ UNCHANGED <<acceptVars, registry, socket, peer, readVars, delivered, sendVars, inbox>>

\* The write handler, error.
OnWriteError(s) ==
  /\ Serve(s, "writeErr")
  /\ isWriting' = [isWriting EXCEPT ![s] = FALSE]
  /\ CloseInto(s, Rest(s))
  /\ UNCHANGED <<acceptVars, registry, socket, peer, readVars, writeQueue, inFlight,
                 delivered, sendVars, inbox>>

\* What closing the socket adds to the strand: pending operations are aborted.
AbortedOps(s) ==
  (IF reading[s] THEN <<Handler("readErr")>> ELSE << >>)
    \o [k \in DOMAIN inFlight[s] |-> Handler("writeErr")]

\* Mutant: the socket is left open, its operations pending.
OnClosingSocketLeftOpen(s) ==
  /\ Serve(s, "closing")
  /\ strand' = [strand EXCEPT ![s] = Rest(s)]
  /\ registry' = registry \ {s}
  /\ inbox' = [inbox EXCEPT ![s] = Append(@, "QUIT")]
  /\ UNCHANGED <<acceptVars, closed, socket, peer, readVars, writeVars, sendVars>>

\* The lambda of close(): close the socket and publish ClientDisconnectedEvent,
\* on which the registry drops the session (its own close() is then a no-op) and
\* the world enqueues a PlayerQuit.
OnClosing(s) ==
  /\ Serve(s, "closing")
  /\ socket' = [socket EXCEPT ![s] = "closed"]
  /\ strand' = [strand EXCEPT ![s] = Rest(s) \o AbortedOps(s)]
  /\ reading' = [reading EXCEPT ![s] = FALSE]
  /\ inFlight' = [inFlight EXCEPT ![s] = << >>]
  /\ registry' = registry \ {s}
  /\ inbox' = [inbox EXCEPT ![s] = Append(@, "QUIT")]
  /\ UNCHANGED <<acceptVars, closed, peer, reads, writeQueue, isWriting, delivered, sendVars>>

StrandStep(s) ==
  \/ DoRead(s) \/ OnRead(s) \/ OnReadError(s)
  \/ OnSendClosed(s) \/ OnSend(s) \/ OnWritten(s) \/ OnWriteError(s)
  \/ OnClosing(s)

AcceptHandler ==
  \/ AcceptAborted \/ AcceptAgain \/ DoAccept
  \/ CreateSession \/ AddSession \/ StartSession \/ PublishConnected

Next ==
  \/ ServerStart \/ ServerStop \/ ClientConnects \/ AcceptFails
  \/ AcceptHandler
  \/ Broadcast \/ SendTo
  \/ \E s \in SessionIds :
       \/ PostSend(s)
       \/ PeerBreaks(s) \/ ReadCompletes(s) \/ ReadFails(s)
       \/ WriteCompletes(s) \/ WriteFails(s)
       \/ StrandStep(s)

Spec == Init /\ [][Next]_vars

\* Worker threads serve the strands and the accept handler, a send() that has
\* begun ends, and operations on a broken connection fail.  Clients owe nothing.
Fairness ==
  /\ WF_vars(AcceptHandler)
  /\ \A s \in SessionIds :
       /\ WF_vars(StrandStep(s))
       /\ WF_vars(PostSend(s))
       /\ WF_vars(ReadFails(s))
       /\ WF_vars(WriteFails(s))

FairSpec == Spec /\ Fairness

-----------------------------------------------------------------------------
(* Properties *)

\* Type invariant of the connections.
TypeOK ==
  /\ acceptor \in {"open", "closed"}
  /\ acceptAt \in {"none", "waiting", "aborted", "failed", "accepted", "add", "start",
                   "publish", "again", "rearm", "off"}
  /\ nextSessionId \in 1 .. (MaxSessions + 1)
  /\ registry \subseteq SessionIds
  /\ closed \in [SessionIds -> BOOLEAN]
  /\ socket \in [SessionIds -> {"none", "open", "closed"}]
  /\ peer \in [SessionIds -> {"up", "down"}]
  /\ strand \in [SessionIds -> Seq(Handlers)]
  /\ reading \in [SessionIds -> BOOLEAN]
  /\ reads \in [SessionIds -> 0 .. MaxReads]
  /\ writeQueue \in [SessionIds -> Seq(Nat)]
  /\ isWriting \in [SessionIds -> BOOLEAN]
  /\ inFlight \in [SessionIds -> Seq(Nat)]
  /\ packet \in Nat
  /\ sending \in [packet : Nat, to : SUBSET SessionIds]
  /\ posted \in [SessionIds -> Seq(Nat)] /\ delivered \in [SessionIds -> Seq(Nat)]
  /\ inbox \in [SessionIds -> Seq(Frames \cup {"QUIT"})]

Queued(s, h) == {k \in DOMAIN strand[s] : strand[s][k].h = h}

\* At most one async_write and one read per socket, counting a completion that is
\* still queued (session.h: the queue excludes parallel async_writes), and
\* is_writing_ is set exactly while there is a write, so that no packet waits for
\* one that never comes.
OneOperationAtATime ==
  \A s \in SessionIds :
    LET writes == Len(inFlight[s]) + Cardinality(Queued(s, "writeOk") \cup Queued(s, "writeErr"))
        pending == Cardinality(Queued(s, "readOk") \cup Queued(s, "readErr") \cup Queued(s, "doRead"))
    IN  /\ writes = (IF isWriting[s] THEN 1 ELSE 0)
        /\ pending + (IF reading[s] THEN 1 ELSE 0) <= 1

\* Packets reach a client in the order of the send() calls, without gaps and
\* without repetition, up to the point where the connection is lost.
DeliveredInOrder ==
  \A s \in SessionIds :
    /\ Len(delivered[s]) <= Len(posted[s])
    /\ \A k \in DOMAIN delivered[s] : delivered[s][k] = posted[s][k]

Quits(s) == {k \in DOMAIN inbox[s] : inbox[s][k] = "QUIT"}

\* A session tells the bus once that it is gone, however many of its operations
\* fail, and from then on it is neither in the registry nor added to it.
GoneOnce ==
  \A s \in SessionIds :
    /\ Cardinality(Quits(s)) <= 1
    /\ Quits(s) # {} => s \notin registry

\* A session that is gone and whose strand has drained has nothing pending that
\* would keep it alive.
GoneLeavesNothingPending ==
  \A s \in SessionIds :
    Quits(s) # {} /\ strand[s] = << >> => ~reading[s] /\ inFlight[s] = << >>

\* A broken connection is noticed: the registry drops the session.
BrokenConnectionReaped ==
  \A s \in SessionIds : peer[s] = "down" ~> s \notin registry /\ Quits(s) # {}

=============================================================================
