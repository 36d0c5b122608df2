--------------------------- MODULE GameController --------------------------
(***************************************************************************)
(* The client: GameController (src/src/client/game_controller.cpp) over    *)
(* TcpClient.  The application's calls are posted to the controller's      *)
(* strand, where TcpClient's callbacks post too: the queue `owner`.  The   *)
(* client runs its io_context on one thread (src/src/client/main.cpp), so  *)
(* handlers of the two strands interleave but each is one action; a call   *)
(* of tcp_->disconnect() sets the flag and posts in that same step.        *)
(***************************************************************************)
EXTENDS TcpClient

CONSTANT Polite  \* TRUE: the application calls start() only when it sees
                 \* Disconnected and rejoin() only when it sees GameOver,
                 \* and waits until an earlier call has been served

\* A rejoin takes two generations, any other call and a REJECT at most one.
ASSUME ControllerAssumption ==
  /\ Polite \in BOOLEAN
  /\ MaxConnects >= 2 * MaxCalls + MaxMessages

VARIABLES state,       \* state_
          connectGen,  \* connectGen_
          lastCall,    \* the last of start(), rejoin() and shutdown()
          joined,      \* the generations in which sendJoin() has run
          server       \* what the server's end of the connection is doing

ctlVars    == <<state, connectGen, joined>>
callVars   == <<calls, lastCall>>
clientVars == <<tcpVars, ctlVars, callVars, server>>

ClientStates == {"Disconnected", "Connecting", "Connected", "Joining", "InGame", "GameOver"}
Calls        == {"start", "rejoin", "shutdown", "shoot"}
ServerMsgs   == {"Accept", "Reject", "GameEnd", "Unknown"}

Init ==
  /\ TcpInit
  /\ state = "Disconnected" /\ connectGen = 0
  /\ calls = 0 /\ lastCall = "none"
  /\ joined = {} /\ server = "none"

-----------------------------------------------------------------------------
(* The application *)

CallPending == \E k \in DOMAIN owner : owner[k].what \in Calls

\* start(), rejoin(), shutdown() and shoot() with a valid name: post.  (With an
\* invalid one they return before that.)
Call(c) ==
  /\ calls < MaxCalls
  /\ Polite => /\ ~CallPending
               /\ c = "start" => state = "Disconnected"
               /\ c = "rejoin" => state = "GameOver"
  /\ calls' = calls + 1
  /\ lastCall' = IF c = "shoot" THEN lastCall ELSE c
  /\ owner' = Append(owner, [what |-> c])
  /\ UNCHANGED <<connVars, genVars, disconnectRequested, writeVars, strand, ops, answers,
                 messages, ctlVars, server>>

-----------------------------------------------------------------------------
(* Handlers on the controller's strand *)

Serving(what) == owner # << >> /\ Head(owner).what = what

\* What a handler of the controller leaves alone.
HandlerFrame ==
  /\ owner' = Tail(owner)
  /\ UNCHANGED <<connVars, genVars, writeVars, ops, answers, messages, callVars, server>>

\* A handler that changes nothing.
Ignored == UNCHANGED <<ctlVars, disconnectRequested, strand>>

\* tcp_->connect() with a callback that keeps the generation
ConnectCall(gen) == Lambda("connectCall", gen)

\* doStart()
StartHandler ==
  /\ Serving("start")
  /\ IF state # "Disconnected" THEN Ignored
     ELSE /\ state' = "Connecting"
          /\ connectGen' = connectGen + 1
          /\ strand' = Append(strand, ConnectCall(connectGen'))
          /\ UNCHANGED <<joined, disconnectRequested>>
  /\ HandlerFrame

\* Mutant: the transport is left connected.
DoShutdownStateOnly ==
  /\ connectGen' = connectGen + 1
  /\ state' = "Disconnected"
  /\ UNCHANGED <<joined, disconnectRequested, strand>>

\* doShutdown()
DoShutdown ==
  /\ connectGen' = connectGen + 1
  /\ DisconnectFrom(strand)
  /\ state' = "Disconnected"
  /\ UNCHANGED joined

ShutdownHandler == Serving("shutdown") /\ DoShutdown /\ HandlerFrame

\* rejoin(): doShutdown(), then doStart().
RejoinHandler ==
  /\ Serving("rejoin")
  /\ state' = "Connecting"
  /\ connectGen' = connectGen + 2
  /\ disconnectRequested' = TRUE
  /\ strand' = strand \o <<DisconnectLambda, ConnectCall(connectGen')>>
  /\ UNCHANGED joined
  /\ HandlerFrame

\* doShoot(): nobody updates world_, so that its isMyPlayerAlive() is always
\* false and the handler returns.
ShootHandler == Serving("shoot") /\ Ignored /\ HandlerFrame

\* The connect callback, not ok
ConnectFailed == state' = "Disconnected"

\* Mutant: JOIN is left to the application.
SendJoinLater ==
  /\ state' = "Joining"
  /\ UNCHANGED <<strand, joined>>

\* The connect callback, ok, with sendJoin()
SendJoin ==
  /\ state' = "Joining"
  /\ strand' = Append(strand, Lambda("sendCall", "JOIN"))
  /\ joined' = joined \cup {connectGen}

\* The connect callback
ConnectCallback ==
  /\ Serving("connect")
  /\ LET e == Head(owner) IN
       \/ /\ e.cb # connectGen \/ state # "Connecting"
          /\ Ignored
       \/ /\ e.cb = connectGen /\ state = "Connecting" /\ ~e.ok
          /\ ConnectFailed
          /\ UNCHANGED <<connectGen, joined, disconnectRequested, strand>>
       \/ /\ e.cb = connectGen /\ state = "Connecting" /\ e.ok
          /\ SendJoin
          /\ UNCHANGED <<connectGen, disconnectRequested>>
  /\ HandlerFrame

\* onMessageOnStrand(): decode() yields the type; nothing is taken while
\* Disconnected, and everything else is taken in every other state.
MessageHandler ==
  /\ Serving("message")
  /\ LET msg == Head(owner).msg IN
       \/ /\ state = "Disconnected" \/ msg = "Unknown"
          /\ Ignored
       \/ /\ state # "Disconnected" /\ msg \in {"Accept", "GameEnd"}
          /\ state' = IF msg = "Accept" THEN "InGame" ELSE "GameOver"
          /\ UNCHANGED <<connectGen, joined, disconnectRequested, strand>>
       \/ /\ state # "Disconnected" /\ msg = "Reject"
          /\ DoShutdown
  /\ HandlerFrame

\* Mutant: the end of the connection is not noticed.
DisconnectCallbackIgnored == Serving("disconnect") /\ Ignored /\ HandlerFrame

\* The disconnect callback
DisconnectCallback ==
  /\ Serving("disconnect")
  /\ IF state \in {"Disconnected", "Connecting"} THEN Ignored
     ELSE /\ state' = "Disconnected"
          /\ UNCHANGED <<connectGen, joined, disconnectRequested, strand>>
  /\ HandlerFrame

ControllerStep ==
  \/ StartHandler \/ ShutdownHandler \/ RejoinHandler \/ ShootHandler
  \/ ConnectCallback \/ MessageHandler \/ DisconnectCallback

-----------------------------------------------------------------------------
(* The server and the network: the server answers a JOIN, in the end with one
   REJECT or GAME_END, and may send what the client does not know.  *)

TcpStep == StrandStep /\ UNCHANGED <<ctlVars, callVars, server>>

Completes(op, ok) ==
  /\ OpCompletes(op, ok)
  /\ server' = CASE ok /\ op.kind = "connect" -> "open"
                 [] ok /\ op.kind = "write"   -> "joined"
                 [] OTHER                     -> server
  /\ UNCHANGED <<ctlVars, callVars>>

ServerSends(msg) ==
  /\ msg # "Unknown" => server = "joined"
  /\ \E op \in ops : ReadBrings(op, msg)
  /\ server' = IF msg \in {"Reject", "GameEnd"} THEN "ended" ELSE server
  /\ UNCHANGED <<ctlVars, callVars>>

Next ==
  \/ \E c \in Calls : Call(c)
  \/ ControllerStep
  \/ TcpStep
  \/ \E op \in ops, ok \in BOOLEAN : Completes(op, ok)
  \/ \E msg \in ServerMsgs : ServerSends(msg)

Spec == Init /\ [][Next]_clientVars

-----------------------------------------------------------------------------
(* Properties *)

\* A client that counts as joining, playing or done has sent a JOIN in the present
\* session: "every rejoin is a fresh TCP session + fresh JOIN" (rejoin() and
\* wireCallbacks() in game_controller.h).
JoinBeforeGame == state \in {"Joining", "InGame", "GameOver"} => connectGen \in joined

\* Both strands have run dry and only a read may be pending.
AtRest == strand = << >> /\ owner = << >> /\ Attempts = {}

\* At rest the controller and the transport agree: it counts as Disconnected just
\* when there is no connection (rejoin() in game_controller.h: "either the new
\* connect succeeds and JOIN is sent, or it fails and the client is Disconnected").
AgreesAtRest ==
  AtRest => /\ state # "Connecting"
            /\ state = "Disconnected" <=> ~isConnected

\* When the last request was a shutdown() the client comes to rest disconnected,
\* whatever was under way or queued before it (shutdown() and main()).
ShutdownSticks == AtRest /\ lastCall = "shutdown" => state = "Disconnected" /\ ~isConnected

=============================================================================
