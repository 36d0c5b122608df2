--------------------------- MODULE TcpClientUser ---------------------------
(***************************************************************************)
(* TcpClient used by callers that connect, send and disconnect in any      *)
(* order, from any thread, as its public interface (tcp_client.h) allows.  *)
(***************************************************************************)
EXTENDS TcpClient

VARIABLES connects,      \* calls of connect() so far: the callbacks' numbers
          disconnecting  \* a caller is between the two steps of disconnect()

userVars == <<calls, connects, disconnecting>>
vars     == <<tcpVars, userVars>>

-----------------------------------------------------------------------------
(* Callers *)

UserInit == TcpInit /\ calls = 0 /\ connects = 0 /\ disconnecting = FALSE

\* connect(): post the lambda with its callback.
Connect ==
  /\ connects < MaxConnects /\ calls < MaxCalls
  /\ calls' = calls + 1
  /\ connects' = connects + 1
  /\ strand' = Append(strand, Lambda("connectCall", connects'))
  /\ UNCHANGED <<connVars, genVars, disconnectRequested, writeVars, ops, owner, answers,
                 messages, disconnecting>>

\* send(): post the frame, here the number of the call.
Send ==
  /\ calls < MaxCalls
  /\ calls' = calls + 1
  /\ strand' = Append(strand, Lambda("sendCall", calls'))
  /\ UNCHANGED <<connVars, genVars, disconnectRequested, writeVars, ops, owner, answers,
                 messages, connects, disconnecting>>

\* disconnect(), first step: the flag is set on the calling thread.
DisconnectStore ==
  /\ ~disconnecting /\ calls < MaxCalls
  /\ calls' = calls + 1
  /\ disconnecting' = TRUE
  /\ disconnectRequested' = TRUE
  /\ UNCHANGED <<connVars, genVars, writeVars, strand, ops, owner, answers, messages, connects>>

\* disconnect(), second step: the lambda is posted.
DisconnectPost ==
  /\ disconnecting
  /\ disconnecting' = FALSE
  /\ strand' = Append(strand, DisconnectLambda)
  /\ UNCHANGED <<connVars, genVars, disconnectRequested, writeVars, ops, owner, answers,
                 messages, calls, connects>>

\* The owner's strand takes an event.
TakeEvent ==
  /\ owner # << >>
  /\ owner' = Tail(owner)
  /\ UNCHANGED <<connVars, genVars, disconnectRequested, writeVars, strand, ops, answers,
                 messages, userVars>>

NetworkStep ==
  \/ \E op \in ops, ok \in BOOLEAN : OpCompletes(op, ok)
  \/ \E op \in ops : ReadBrings(op, "message")

UserNext ==
  \/ Connect \/ Send \/ DisconnectStore \/ DisconnectPost \/ TakeEvent
  \/ (StrandStep \/ NetworkStep) /\ UNCHANGED userVars

UserSpec == UserInit /\ [][UserNext]_vars

\* The thread of io_context::run() serves the strand, a name lookup, a connection
\* attempt and a write end sooner or later, and a disconnect() that has begun
\* returns.  A server that keeps silent owes nothing: reads need not complete.
Fairness ==
  /\ WF_vars(StrandStep /\ UNCHANGED userVars)
  /\ WF_vars((\E op \in Attempts, ok \in BOOLEAN : OpCompletes(op, ok)) /\ UNCHANGED userVars)
  /\ WF_vars(DisconnectPost)

FairSpec == UserSpec /\ Fairness

-----------------------------------------------------------------------------
(* Properties *)

\* Type invariant of the connection's state.
TypeOK ==
  /\ {isConnected, isConnecting, disconnectRequested, isWriting, disconnecting} \subseteq BOOLEAN
  /\ disconnectGen \in Nat /\ activeGen \in 0 .. disconnectGen
  /\ pendingCallback \in 0 .. MaxConnects
  /\ writeQueue \in Seq(1 .. MaxCalls)
  /\ \A k \in DOMAIN strand : strand[k].h \in
       {"connectCall", "sendCall", "disconnect", "resolve", "connect", "read", "write"}
  /\ \A op \in ops : op.kind \in {"resolve", "connect", "read", "write"} /\ op.gen <= disconnectGen
  /\ answers \in [1 .. MaxConnects -> Nat]
  /\ messages \in 0 .. MaxMessages /\ calls \in 0 .. MaxCalls /\ connects \in 0 .. MaxConnects

Quiet == strand = << >> /\ ~disconnecting

\* When the strand has run dry a connection is being read from, and frames that
\* wait on it are being written: no early return of doRead(), doWrite() or the
\* completion handlers leaves it deaf or dumb.
ConnectionIsServed ==
  Quiet /\ isConnected =>
    /\ Live("read") = 1
    /\ isWriting <=> Live("write") = 1
    /\ writeQueue # << >> => isWriting

\* Every connect() is answered in the end - refused, failed, given up or connected -
\* and only once (the test DisconnectDuringConnectCompletesCallbackOnce).
EveryConnectAnsweredOnce ==
  \A cb \in 1 .. MaxConnects : connects >= cb ~> [](answers[cb] = 1)

=============================================================================
