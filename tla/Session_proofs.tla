--------------------------- MODULE Session_proofs ---------------------------
(***************************************************************************)
(* Proofs about Session, for any number of connections, packets and reads, *)
(* whatever a read brings, and about the FrameCodec whose decode() its     *)
(* reads call, for any size of bytes, magic, lengths and streams.          *)
(***************************************************************************)
EXTENDS Session, FrameCodec, SequenceTheorems, FiniteSetTheorems, WellFoundedInduction, TLAPS

-----------------------------------------------------------------------------
(* The inductive invariant *)

\* Completions of reads (with the doRead() of start(), which stands for one) and
\* of writes.
ReadNames == {"doRead", "readOk", "readErr"}

WriteNames == {"writeOk", "writeErr"}

\* How many handlers with a name in N a strand has.
NoneOf(q, N) == \A k \in DOMAIN q : q[k].h \notin N

AtMostOneOf(q, N) == \A j, k \in DOMAIN q : q[j].h \in N /\ q[k].h \in N => j = k

\* One write at a time, from async_write to the end of its handler, and
\* is_writing_ says so.
WriteInv(s) ==
  /\ AtMostOneOf(strand[s], WriteNames)
  /\ inFlight[s] # << >> => Len(inFlight[s]) = 1 /\ NoneOf(strand[s], WriteNames)
  /\ isWriting[s] <=> inFlight[s] # << >> \/ ~NoneOf(strand[s], WriteNames)

\* One read at a time.
ReadInv(s) ==
  /\ AtMostOneOf(strand[s], ReadNames)
  /\ reading[s] => NoneOf(strand[s], ReadNames)

\* closed_ comes first, then one closing handler, then one QUIT; after it the
\* session is out of the registry and has no operation.
CloseInv(s) ==
  /\ AtMostOneOf(strand[s], {"closing"})
  /\ ~NoneOf(strand[s], {"closing"}) => closed[s] /\ Quits(s) = {}
  /\ Quits(s) # {} => closed[s] /\ s \notin registry /\ ~reading[s] /\ inFlight[s] = << >>
  /\ \A j, k \in Quits(s) : j = k

\* The accept handler has not yet handed session s to anybody.
Unshared(s) == s >= nextSessionId \/ (acceptAt = "add" /\ s = Accepted)

\* A session that nobody knows is untouched, and before start() it reads nothing.
AcceptInv(s) ==
  /\ Unshared(s) => s \notin registry /\ s \notin sending.to /\ strand[s] = << >>
                    /\ ~reading[s] /\ inFlight[s] = << >> /\ Quits(s) = {}
  /\ acceptAt = "start" /\ s = Accepted => ~reading[s] /\ NoneOf(strand[s], ReadNames)

\* The accept handler works on a session of its own.
AcceptedKnown ==
  /\ acceptAt = "accepted" => nextSessionId \in SessionIds
  /\ acceptAt \in {"add", "start"} => Accepted \in SessionIds

SessionInv(s) == WriteInv(s) /\ ReadInv(s) /\ CloseInv(s) /\ AcceptInv(s)

OpsInv == TypeOK /\ AcceptedKnown /\ \A s \in SessionIds : SessionInv(s)

\* Packets that left write_queue_, and those that were ever put into it.
Started(s) == Len(delivered[s]) + Len(inFlight[s])

Taken(s) == Started(s) + Len(writeQueue[s])

\* What was or is being written is what was sent first.
PrefixInv(s) ==
  /\ Started(s) <= Len(posted[s])
  /\ \A k \in DOMAIN delivered[s] : delivered[s][k] = posted[s][k]
  /\ \A k \in DOMAIN inFlight[s] : inFlight[s][k] = posted[s][Len(delivered[s]) + k]

\* f gives each send() lambda of the strand q the place of its packet among the
\* packets p that were sent: the lambdas are in order and stand for the packets
\* after the first n.
Places(f, q, p, n) ==
  /\ \A k \in DOMAIN q : q[k].h = "send" => f[k] \in (n + 1) .. Len(p) /\ p[f[k]] = q[k].packet
  /\ \A j, k \in DOMAIN q : q[j].h = "send" /\ q[k].h = "send" /\ j < k => f[j] < f[k]
  /\ \A m \in (n + 1) .. Len(p) : \E k \in DOMAIN q : q[k].h = "send" /\ f[k] = m

InOrder(q, p, n) == \E f \in [DOMAIN q -> 0 .. Len(p)] : Places(f, q, p, n)

\* As long as no write has failed and the session is open, write_queue_ goes on
\* where the writes are, and the strand where write_queue_ ends: no packet is
\* lost or overtaken.
QueueInv(s) ==
  ~closed[s] /\ NoneOf(strand[s], {"writeErr"}) =>
    /\ Taken(s) <= Len(posted[s])
    /\ \A k \in DOMAIN writeQueue[s] : writeQueue[s][k] = posted[s][Started(s) + k]
    /\ InOrder(strand[s], posted[s], Taken(s))

PacketInv(s) == PrefixInv(s) /\ QueueInv(s)

OrderInv == OpsInv /\ \A s \in SessionIds : PacketInv(s)

-----------------------------------------------------------------------------
(* Handlers on a strand *)

\* Posting a handler.
LEMMA AppendOf ==
  ASSUME NEW q \in Seq(Handlers), NEW x \in Handlers, NEW N
  PROVE  /\ Append(q, x) \in Seq(Handlers)
         /\ NoneOf(q, N) /\ x.h \notin N => NoneOf(Append(q, x), N)
         /\ NoneOf(Append(q, x), N) => NoneOf(q, N) /\ x.h \notin N
         /\ AtMostOneOf(q, N) /\ x.h \notin N => AtMostOneOf(Append(q, x), N)
         /\ NoneOf(q, N) => AtMostOneOf(Append(q, x), N)
<1>1. /\ Append(q, x) \in Seq(Handlers)
      /\ DOMAIN q = 1 .. Len(q)
      /\ DOMAIN Append(q, x) = 1 .. (Len(q) + 1) /\ Len(q) \in Nat
      /\ \A k \in 1 .. Len(q) : Append(q, x)[k] = q[k]
      /\ Append(q, x)[Len(q) + 1] = x
  OBVIOUS
<1>2. \A k \in DOMAIN Append(q, x) : k \in DOMAIN q \/ k = Len(q) + 1
  BY <1>1
<1>3. \A k \in DOMAIN q : k \in DOMAIN Append(q, x)
  BY <1>1
<1>4. Len(q) + 1 \in DOMAIN Append(q, x)
  BY <1>1
<1>5. QED
  BY <1>1, <1>2, <1>3, <1>4, Zenon DEF NoneOf, AtMostOneOf

\* Serving the first handler.
LEMMA TailOf ==
  ASSUME NEW q \in Seq(Handlers), q # << >>, NEW N
  PROVE  /\ Head(q) \in Handlers /\ Tail(q) \in Seq(Handlers)
         /\ Head(q).h \notin N /\ NoneOf(Tail(q), N) => NoneOf(q, N)
         /\ NoneOf(q, N) => Head(q).h \notin N /\ NoneOf(Tail(q), N)
         /\ AtMostOneOf(q, N) => AtMostOneOf(Tail(q), N)
         /\ AtMostOneOf(q, N) /\ Head(q).h \in N => NoneOf(Tail(q), N)
<1>1. /\ Head(q) = q[1] /\ Tail(q) \in Seq(Handlers) /\ Head(q) \in Handlers
      /\ DOMAIN q = 1 .. Len(q) /\ DOMAIN Tail(q) = 1 .. (Len(q) - 1)
      /\ Len(q) \in Nat /\ 1 \in DOMAIN q
      /\ \A k \in 1 .. (Len(q) - 1) : Tail(q)[k] = q[k + 1]
  OBVIOUS
<1>2. \A k \in DOMAIN Tail(q) : k + 1 \in DOMAIN q /\ k + 1 # 1 /\ Tail(q)[k] = q[k + 1]
  BY <1>1
<1>3. \A k \in DOMAIN q : k = 1 \/ (k - 1 \in DOMAIN Tail(q) /\ q[k] = Tail(q)[k - 1])
  BY <1>1
<1>4. \A j, k \in DOMAIN Tail(q) : j + 1 = k + 1 => j = k
  BY <1>1
<1>5. Head(q).h \notin N /\ NoneOf(Tail(q), N) => NoneOf(q, N)
  BY <1>1, <1>3, Zenon DEF NoneOf
<1>6. NoneOf(q, N) => Head(q).h \notin N /\ NoneOf(Tail(q), N)
  BY <1>1, <1>2, Zenon DEF NoneOf
<1>7. AtMostOneOf(q, N) => AtMostOneOf(Tail(q), N)
  BY <1>2, <1>4 DEF AtMostOneOf
<1>8. AtMostOneOf(q, N) /\ Head(q).h \in N => NoneOf(Tail(q), N)
  BY <1>1, <1>2 DEF AtMostOneOf, NoneOf
<1>9. QED
  BY <1>1, <1>5, <1>6, <1>7, <1>8, Zenon

\* Posting several handlers.
LEMMA ConcatOf ==
  ASSUME NEW q \in Seq(Handlers), NEW r \in Seq(Handlers), NEW N
  PROVE  /\ q \o r \in Seq(Handlers)
         /\ NoneOf(q, N) /\ NoneOf(r, N) => NoneOf(q \o r, N)
         /\ NoneOf(q \o r, N) => NoneOf(q, N) /\ NoneOf(r, N)
         /\ AtMostOneOf(q, N) /\ NoneOf(r, N) => AtMostOneOf(q \o r, N)
         /\ NoneOf(q, N) /\ AtMostOneOf(r, N) => AtMostOneOf(q \o r, N)
<1>1. /\ q \o r \in Seq(Handlers)
      /\ DOMAIN q = 1 .. Len(q) /\ DOMAIN r = 1 .. Len(r)
      /\ DOMAIN (q \o r) = 1 .. (Len(q) + Len(r))
      /\ Len(q) \in Nat /\ Len(r) \in Nat
      /\ \A k \in 1 .. (Len(q) + Len(r)) :
           (q \o r)[k] = IF k <= Len(q) THEN q[k] ELSE r[k - Len(q)]
  OBVIOUS
<1>2. \A k \in DOMAIN (q \o r) :
        \/ k \in DOMAIN q /\ (q \o r)[k] = q[k]
        \/ k - Len(q) \in DOMAIN r /\ (q \o r)[k] = r[k - Len(q)]
  BY <1>1
<1>3. \A k \in DOMAIN q : k \in DOMAIN (q \o r) /\ (q \o r)[k] = q[k]
  BY <1>1
<1>4. \A k \in DOMAIN r : Len(q) + k \in DOMAIN (q \o r) /\ (q \o r)[Len(q) + k] = r[k]
  BY <1>1
<1>5. \A j, k \in DOMAIN (q \o r) : j - Len(q) = k - Len(q) => j = k
  BY <1>1
<1>6. NoneOf(q, N) /\ NoneOf(r, N) => NoneOf(q \o r, N)
  BY <1>2, Zenon DEF NoneOf
<1>7. NoneOf(q \o r, N) => NoneOf(q, N) /\ NoneOf(r, N)
  BY <1>3, <1>4, Zenon DEF NoneOf
<1>8. AtMostOneOf(q, N) /\ NoneOf(r, N) => AtMostOneOf(q \o r, N)
  BY <1>2, Zenon DEF NoneOf, AtMostOneOf
<1>9. NoneOf(q, N) /\ AtMostOneOf(r, N) => AtMostOneOf(q \o r, N)
  BY <1>2, <1>5, Zenon DEF NoneOf, AtMostOneOf
<1>10. QED
  BY <1>1, <1>6, <1>7, <1>8, <1>9, Zenon

\* An empty strand.
LEMMA EmptyOf ==
  ASSUME NEW N
  PROVE  NoneOf(<< >>, N) /\ AtMostOneOf(<< >>, N)
<1>1. DOMAIN << >> = {}
  OBVIOUS
<1>2. QED
  BY <1>1, Zenon DEF NoneOf, AtMostOneOf

LEMMA NoneIsAtMostOne ==
  ASSUME NEW q, NEW N, NoneOf(q, N)
  PROVE  AtMostOneOf(q, N)
  BY Zenon DEF NoneOf, AtMostOneOf

-----------------------------------------------------------------------------
(* Types *)

\* The handlers that are posted are handlers.
LEMMA HandlerTypes ==
  /\ \A h \in HandlerNames : Handler(h) \in Handlers /\ Handler(h).h = h
  /\ \A n \in Nat : SendOf(n) \in Handlers /\ SendOf(n).h = "send" /\ SendOf(n).packet = n
  /\ \A fs \in Seq(Frames) : ReadOf(fs) \in Handlers /\ ReadOf(fs).h = "readOk"
<1>1. << >> \in Seq(Frames)
  OBVIOUS
<1>2. QED
  BY <1>1 DEF Handler, SendOf, ReadOf, Handlers, HandlerNames

\* A function on an interval from 1 is a sequence.
LEMMA IntervalSeq ==
  ASSUME NEW n \in Nat, NEW S, NEW f \in [1 .. n -> S]
  PROVE  f \in Seq(S) /\ Len(f) = n /\ DOMAIN f = 1 .. n
  OBVIOUS

\* The sets of places of a sequence are finite.
LEMMA PlacesFinite ==
  ASSUME NEW S, NEW q \in Seq(S), NEW T \in SUBSET DOMAIN q
  PROVE  IsFiniteSet(T) /\ Cardinality(T) \in Nat
<1>1. DOMAIN q = 1 .. Len(q) /\ Len(q) \in Nat
  OBVIOUS
<1>2. IsFiniteSet(1 .. Len(q))
  BY <1>1, FS_Interval
<1>3. IsFiniteSet(T)
  BY <1>1, <1>2, FS_Subset
<1>4. QED
  BY <1>3, FS_CardinalityType

\* The frames of a read.
LEMMA FramesFinite ==
  ASSUME NEW fs \in Seq(Frames)
  PROVE  Cardinality(JoinsIn(fs)) \in Nat /\ Cardinality(ActionsIn(fs)) \in Nat
<1>1. JoinsIn(fs) \in SUBSET DOMAIN fs /\ ActionsIn(fs) \in SUBSET DOMAIN fs
  BY DEF JoinsIn, ActionsIn
<1>2. QED
  BY <1>1, PlacesFinite

\* What the world gets of a read is made of the read's frames.
LEMMA RouteType ==
  ASSUME TypeOK, NEW s \in SessionIds, NEW fs \in Seq(Frames), Route(s, fs)
  PROVE  \E r \in Seq(Frames) : inbox' = [inbox EXCEPT ![s] = @ \o r]
<1>1. PICK kept \in [1 .. Cardinality(ActionsIn(fs)) -> ActionsIn(fs)] :
        inbox' = [inbox EXCEPT ![s] = @ \o [k \in DOMAIN kept |-> fs[kept[k]]]]
  BY Zenon DEF Route
<1>2. Cardinality(ActionsIn(fs)) \in Nat
  BY FramesFinite
<1>3. [k \in DOMAIN kept |-> fs[kept[k]]] \in [1 .. Cardinality(ActionsIn(fs)) -> Frames]
  BY DEF ActionsIn
<1>4. [k \in DOMAIN kept |-> fs[kept[k]]] \in Seq(Frames)
  BY <1>2, <1>3, IntervalSeq
<1>5. QED
  BY <1>1, <1>4, Zenon

\* The answers to the JOINs of a read.
Accepts(s, fs) ==
  IF s \in registry THEN [k \in 1 .. Cardinality(JoinsIn(fs)) |-> packet + k] ELSE << >>

LEMMA AcceptsType ==
  ASSUME TypeOK, NEW s \in SessionIds, NEW fs \in Seq(Frames)
  PROVE  /\ Accepts(s, fs) \in Seq(Nat)
         /\ [k \in DOMAIN Accepts(s, fs) |-> SendOf(Accepts(s, fs)[k])] \in Seq(Handlers)
         /\ Len([k \in DOMAIN Accepts(s, fs) |-> SendOf(Accepts(s, fs)[k])]) = Len(Accepts(s, fs))
<1> DEFINE c == Cardinality(JoinsIn(fs))
<1>1. c \in Nat
  BY FramesFinite
<1>2. packet \in Nat
  BY DEF TypeOK
<1>3. Accepts(s, fs) \in Seq(Nat)
  <2>1. << >> \in Seq(Nat)
    OBVIOUS
  <2>2. [k \in 1 .. c |-> packet + k] \in [1 .. c -> Nat]
    BY <1>1, <1>2
  <2> HIDE DEF c
  <2>3. [k \in 1 .. c |-> packet + k] \in Seq(Nat)
    BY <1>1, <2>2, IntervalSeq
  <2>4. QED
    BY <2>1, <2>3 DEF Accepts, c
<1> DEFINE a == Accepts(s, fs)
<1> HIDE DEF a, c
<1>4. a \in Seq(Nat)
  BY <1>3 DEF a
<1>5. DOMAIN a = 1 .. Len(a) /\ Len(a) \in Nat /\ \A k \in DOMAIN a : a[k] \in Nat
  BY <1>4
<1>6. [k \in DOMAIN a |-> SendOf(a[k])] \in [1 .. Len(a) -> Handlers]
  BY <1>5, HandlerTypes
<1>7. [k \in DOMAIN a |-> SendOf(a[k])] \in Seq(Handlers) /\ Len([k \in DOMAIN a |-> SendOf(a[k])]) = Len(a)
  BY <1>5, <1>6, IntervalSeq
<1>8. QED
  BY <1>3, <1>7 DEF a

\* What closing a socket adds to the strand.
LEMMA AbortedType ==
  ASSUME TypeOK, NEW s \in SessionIds
  PROVE  /\ AbortedOps(s) \in Seq(Handlers)
         /\ \A k \in DOMAIN AbortedOps(s) : AbortedOps(s)[k].h \in {"readErr", "writeErr"}
         /\ ~reading[s] => NoneOf(AbortedOps(s), ReadNames)
         /\ AtMostOneOf(AbortedOps(s), ReadNames)
         /\ inFlight[s] = << >> => NoneOf(AbortedOps(s), WriteNames)
         /\ Len(inFlight[s]) = 1 =>
              AtMostOneOf(AbortedOps(s), WriteNames) /\ ~NoneOf(AbortedOps(s), WriteNames)
<1> DEFINE r == IF reading[s] THEN <<Handler("readErr")>> ELSE << >>
           w == [k \in DOMAIN inFlight[s] |-> Handler("writeErr")]
<1>1. /\ Handler("readErr") \in Handlers /\ Handler("readErr").h = "readErr"
      /\ Handler("writeErr") \in Handlers /\ Handler("writeErr").h = "writeErr"
  BY HandlerTypes DEF HandlerNames
<1>2. /\ r \in Seq(Handlers) /\ Len(r) <= 1
      /\ \A k \in DOMAIN r : r[k].h = "readErr"
      /\ ~reading[s] => r = << >>
  BY <1>1
<1>3. DOMAIN inFlight[s] = 1 .. Len(inFlight[s]) /\ Len(inFlight[s]) \in Nat
  BY DEF TypeOK
<1>4. w \in [1 .. Len(inFlight[s]) -> Handlers]
  BY <1>1, <1>3
<1>5. /\ w \in Seq(Handlers) /\ DOMAIN w = 1 .. Len(inFlight[s])
      /\ \A k \in DOMAIN w : w[k].h = "writeErr"
  BY <1>1, <1>3, <1>4, IntervalSeq
<1>6. AbortedOps(s) = r \o w
  BY Zenon DEF AbortedOps
<1> HIDE DEF r, w
<1>7. AtMostOneOf(r, ReadNames) /\ NoneOf(r, WriteNames) /\ NoneOf(w, ReadNames)
  BY <1>2, <1>5 DEF AtMostOneOf, NoneOf, ReadNames, WriteNames
<1>8. ~reading[s] => NoneOf(r, ReadNames)
  BY <1>2, EmptyOf
<1>9. inFlight[s] = << >> => NoneOf(w, WriteNames)
  BY <1>3, <1>5 DEF NoneOf
<1>10. Len(inFlight[s]) = 1 => AtMostOneOf(w, WriteNames) /\ ~NoneOf(w, WriteNames)
  BY <1>5 DEF NoneOf, AtMostOneOf, WriteNames
<1>11. /\ r \o w \in Seq(Handlers)
       /\ \A k \in DOMAIN (r \o w) : (r \o w)[k].h \in {"readErr", "writeErr"}
  <2>1. NoneOf(r, HandlerNames \ {"readErr", "writeErr"}) /\ NoneOf(w, HandlerNames \ {"readErr", "writeErr"})
    BY <1>2, <1>5 DEF NoneOf
  <2>2. NoneOf(r \o w, HandlerNames \ {"readErr", "writeErr"}) /\ r \o w \in Seq(Handlers)
    BY <1>2, <1>5, <2>1, ConcatOf
  <2>3. \A z \in Seq(Handlers) : \A k \in DOMAIN z : z[k].h \in HandlerNames
    <3>1. \A x \in Handlers : x.h \in HandlerNames
      BY DEF Handlers
    <3>2. \A z \in Seq(Handlers) : \A k \in DOMAIN z : z[k] \in Handlers
      OBVIOUS
    <3>3. QED
      BY <3>1, <3>2, Zenon
  <2>4. QED
    BY <2>2, <2>3, Zenon DEF NoneOf
<1>12. QED
  BY <1>2, <1>5, <1>6, <1>7, <1>8, <1>9, <1>10, <1>11, ConcatOf, Zenon


\* A handler that is served.
LEMMA ServeType ==
  ASSUME TypeOK, NEW s \in SessionIds, NEW h, Serve(s, h)
  PROVE  /\ strand[s] \in Seq(Handlers) /\ strand[s] # << >>
         /\ Rest(s) \in Seq(Handlers) /\ Head(strand[s]) \in Handlers
         /\ Head(strand[s]).h = h
         /\ Head(strand[s]).packet \in Nat /\ Head(strand[s]).frames \in Seq(Frames)
<1>1. strand[s] \in Seq(Handlers) /\ strand[s] # << >> /\ Head(strand[s]).h = h
  BY DEF TypeOK, Serve
<1>2. Head(strand[s]) \in Handlers /\ Tail(strand[s]) \in Seq(Handlers)
  BY <1>1
<1>3. \A x \in Handlers : x.packet \in Nat /\ x.frames \in Seq(Frames)
  BY DEF Handlers
<1>4. QED
  BY <1>1, <1>2, <1>3, Zenon DEF Rest

\* close()
LEMMA CloseType ==
  ASSUME TypeOK, NEW s \in SessionIds, NEW q \in Seq(Handlers), CloseInto(s, q)
  PROVE  /\ closed' = [closed EXCEPT ![s] = TRUE]
         /\ \E r \in Seq(Handlers) :
              /\ strand' = [strand EXCEPT ![s] = r]
              /\ \/ closed[s] /\ r = q
                 \/ ~closed[s] /\ r = Append(q, Handler("closing"))
<1>1. Append(q, Handler("closing")) \in Seq(Handlers)
  BY HandlerTypes, AppendOf DEF HandlerNames
<1>2. closed[s] \in BOOLEAN
  BY DEF TypeOK
<1>3. CASE closed[s]
  BY <1>3, Zenon DEF CloseInto
<1>4. CASE ~closed[s]
  BY <1>1, <1>4, Zenon DEF CloseInto
<1>5. QED
  BY <1>3, <1>4

\* doWrite()
LEMMA DoWriteType ==
  ASSUME TypeOK, NEW s \in SessionIds, NEW q \in Seq(Nat), NEW rest \in Seq(Handlers),
         DoWrite(s, q, rest)
  PROVE  /\ closed' \in [SessionIds -> BOOLEAN]
         /\ strand' \in [SessionIds -> Seq(Handlers)]
         /\ writeQueue' \in [SessionIds -> Seq(Nat)]
         /\ isWriting' \in [SessionIds -> BOOLEAN]
         /\ inFlight' \in [SessionIds -> Seq(Nat)]
<1>1. /\ closed \in [SessionIds -> BOOLEAN]
      /\ strand \in [SessionIds -> Seq(Handlers)]
      /\ writeQueue \in [SessionIds -> Seq(Nat)]
      /\ isWriting \in [SessionIds -> BOOLEAN]
      /\ inFlight \in [SessionIds -> Seq(Nat)]
  BY DEF TypeOK
<1>2. CASE /\ isWriting' = [isWriting EXCEPT ![s] = FALSE]
           /\ writeQueue' = [writeQueue EXCEPT ![s] = q]
           /\ strand' = [strand EXCEPT ![s] = rest]
           /\ UNCHANGED <<closed, inFlight>>
  BY <1>1, <1>2
<1>3. CASE /\ q # << >>
           /\ isWriting' = [isWriting EXCEPT ![s] = TRUE]
           /\ writeQueue' = [writeQueue EXCEPT ![s] = Tail(q)]
           /\ inFlight' = [inFlight EXCEPT ![s] = Append(@, Head(q))]
           /\ strand' = [strand EXCEPT ![s] = rest]
           /\ UNCHANGED closed
  <2>1. Head(q) \in Nat /\ Tail(q) \in Seq(Nat) /\ inFlight[s] \in Seq(Nat)
    BY <1>1, <1>3
  <2>2. Append(inFlight[s], Head(q)) \in Seq(Nat)
    BY <2>1
  <2>3. QED
    BY <1>1, <1>3, <2>1, <2>2
<1>4. CASE /\ q # << >>
           /\ isWriting' = [isWriting EXCEPT ![s] = FALSE]
           /\ writeQueue' = [writeQueue EXCEPT ![s] = Tail(q)]
           /\ CloseInto(s, rest)
           /\ UNCHANGED inFlight
  <2>1. Tail(q) \in Seq(Nat)
    BY <1>4
  <2>2. closed' = [closed EXCEPT ![s] = TRUE]
    BY <1>4, CloseType
  <2>3. \E r \in Seq(Handlers) : strand' = [strand EXCEPT ![s] = r]
    BY <1>4, CloseType, Zenon
  <2>4. QED
    BY <1>1, <1>4, <2>1, <2>2, <2>3
<1>5. QED
  BY <1>2, <1>3, <1>4, Zenon DEF DoWrite

LEMMA TypeInit == Init => TypeOK /\ AcceptedKnown
<1>1. << >> \in Seq(Handlers) /\ << >> \in Seq(Nat) /\ << >> \in Seq(Frames \cup {"QUIT"})
  OBVIOUS
<1>2. MaxSessions \in Nat /\ MaxReads \in Nat
  BY SessionAssumption
<1>3. QED
  BY <1>1, <1>2 DEF Init, TypeOK, AcceptedKnown


\* The steps of TcpServer.
ServerNext ==
  ServerStart \/ ServerStop \/ ClientConnects \/ AcceptFails \/ AcceptHandler

\* The steps of session s: of the network, the world's thread and its strand.
SessionNext(s) ==
  \/ PostSend(s)
  \/ PeerBreaks(s) \/ ReadCompletes(s) \/ ReadFails(s)
  \/ WriteCompletes(s) \/ WriteFails(s)
  \/ StrandStep(s)

LEMMA ServerTypes ==
  ASSUME TypeOK, AcceptedKnown, ServerNext
  PROVE  (TypeOK /\ AcceptedKnown)'
<1> USE SessionAssumption
<1> USE DEF AcceptStep, readVars, writeVars, sendVars
<1>1. nextSessionId \in Nat /\ Accepting \in {"waiting", "failed"}
  BY DEF TypeOK, Accepting
<1>2. CASE ServerStart
  BY <1>1, <1>2 DEF ServerStart, TypeOK, AcceptedKnown, Accepted
<1>3. CASE ServerStop
  BY <1>1, <1>3 DEF ServerStop, TypeOK, AcceptedKnown, Accepted
<1>4. CASE ClientConnects
  BY <1>1, <1>4 DEF ClientConnects, TypeOK, AcceptedKnown, Accepted, SessionIds
<1>5. CASE AcceptFails
  BY <1>1, <1>5 DEF AcceptFails, TypeOK, AcceptedKnown, Accepted
<1>6. CASE AcceptAborted
  BY <1>1, <1>6 DEF AcceptAborted, TypeOK, AcceptedKnown, Accepted
<1>7. CASE AcceptAgain
  <2>1. PICK at \in {"failed", "again"} : AcceptStep(at, IF acceptor = "open" THEN "rearm" ELSE "off")
    BY <1>7 DEF AcceptAgain
  <2>2. QED
    BY <1>1, <1>7, <2>1 DEF AcceptAgain, TypeOK, AcceptedKnown, Accepted
<1>8. CASE DoAccept
  BY <1>1, <1>8 DEF DoAccept, TypeOK, AcceptedKnown, Accepted
<1>9. CASE CreateSession
  <2>1. nextSessionId \in SessionIds /\ acceptAt' = "add" /\ nextSessionId' = nextSessionId + 1
    BY <1>9 DEF CreateSession, AcceptedKnown
  <2>2. nextSessionId' \in 1 .. (MaxSessions + 1) /\ Accepted' \in SessionIds
    BY <1>1, <2>1 DEF Accepted, SessionIds
  <2>3. socket' \in [SessionIds -> {"none", "open", "closed"}]
    BY <1>9 DEF CreateSession, TypeOK
  <2>4. QED
    BY <1>9, <2>1, <2>2, <2>3 DEF CreateSession, TypeOK, AcceptedKnown
<1>10. CASE AddSession
  BY <1>1, <1>10 DEF AddSession, TypeOK, AcceptedKnown, Accepted
<1>11. CASE StartSession
  <2>1. Accepted \in SessionIds /\ strand[Accepted] \in Seq(Handlers)
    BY <1>11 DEF StartSession, AcceptedKnown, TypeOK
  <2>2. Append(strand[Accepted], Handler("doRead")) \in Seq(Handlers)
    BY <2>1, HandlerTypes, AppendOf DEF HandlerNames
  <2>3. strand' \in [SessionIds -> Seq(Handlers)]
    BY <1>11, <2>1, <2>2 DEF StartSession, TypeOK
  <2>4. QED
    BY <1>1, <1>11, <2>1, <2>3 DEF StartSession, TypeOK, AcceptedKnown, Accepted
<1>12. CASE PublishConnected
  BY <1>1, <1>12 DEF PublishConnected, TypeOK, AcceptedKnown, Accepted
<1>13. QED
  BY <1>2, <1>3, <1>4, <1>5, <1>6, <1>7, <1>8, <1>9, <1>10, <1>11, <1>12
     DEF ServerNext, AcceptHandler

\* The parts of the state that the sessions change.
SessionTypes ==
  /\ registry \subseteq SessionIds
  /\ closed \in [SessionIds -> BOOLEAN]
  /\ socket \in [SessionIds -> {"none", "open", "closed"}]
  /\ peer \in [SessionIds -> {"up", "down"}]
  /\ strand \in [SessionIds -> Seq(Handlers)]
  /\ reading \in [SessionIds -> BOOLEAN]
  /\ reads \in [SessionIds -> 0 .. MaxReads]
  /\ writeQueue \in [SessionIds -> Seq(Nat)]
  /\ isWriting \in [SessionIds -> BOOLEAN]
  /\ inFlight \in [SessionIds -> Seq(Nat)]
  /\ packet \in Nat
  /\ sending \in [packet : Nat, to : SUBSET SessionIds]
  /\ posted \in [SessionIds -> Seq(Nat)] /\ delivered \in [SessionIds -> Seq(Nat)]
  /\ inbox \in [SessionIds -> Seq(Frames \cup {"QUIT"})]

LEMMA SessionStepTypes ==
  ASSUME TypeOK, AcceptedKnown, NEW s \in SessionIds, SessionNext(s)
  PROVE  (TypeOK /\ AcceptedKnown)'
<1> USE SessionAssumption
<1>0. SessionTypes
  BY DEF TypeOK, SessionTypes
<1> USE DEF readVars, writeVars, sendVars
<1>1. CASE PostSend(s)
  <2>1. sending.packet \in Nat /\ posted[s] \in Seq(Nat) /\ strand[s] \in Seq(Handlers)
    BY DEF TypeOK
  <2>2. Append(posted[s], sending.packet) \in Seq(Nat) /\ sending.to \ {s} \in SUBSET SessionIds
    BY <2>1 DEF TypeOK
  <2>3. Append(strand[s], SendOf(sending.packet)) \in Seq(Handlers)
    BY <2>1, HandlerTypes, AppendOf
  <2>4. sending' \in [packet : Nat, to : SUBSET SessionIds]
    BY <1>1, <2>2 DEF PostSend, TypeOK
  <2>5. SessionTypes'
    BY <1>0, <1>1, <2>2, <2>3, <2>4 DEF PostSend, SessionTypes
  <2>6. QED
    BY <1>1, <2>5 DEF PostSend, TypeOK, SessionTypes, AcceptedKnown, Accepted, acceptVars
<1>2. CASE PeerBreaks(s)
  <2>1. SessionTypes'
    BY <1>0, <1>2 DEF PeerBreaks, SessionTypes
  <2>2. QED
    BY <1>2, <2>1 DEF PeerBreaks, TypeOK, SessionTypes, AcceptedKnown, Accepted, acceptVars
<1>3. CASE ReadCompletes(s)
  <2>1. PICK fs \in Reads : strand' = [strand EXCEPT ![s] = Append(@, ReadOf(fs))]
    BY <1>3 DEF ReadCompletes
  <2>2. Append(strand[s], ReadOf(fs)) \in Seq(Handlers)
    BY HandlerTypes, AppendOf DEF TypeOK
  <2>3. SessionTypes'
    <3>1. strand' \in [SessionIds -> Seq(Handlers)]
      BY <1>0, <2>1, <2>2 DEF SessionTypes
    <3>2. reads' \in [SessionIds -> 0 .. MaxReads]
      BY <1>0, <1>3 DEF ReadCompletes, SessionTypes
    <3>3. reading' \in [SessionIds -> BOOLEAN]
      BY <1>0, <1>3 DEF ReadCompletes, SessionTypes
    <3>4. QED
      BY <1>0, <1>3, <3>1, <3>2, <3>3, Zenon DEF ReadCompletes, SessionTypes
  <2>4. QED
    BY <1>3, <2>3 DEF ReadCompletes, TypeOK, SessionTypes, AcceptedKnown, Accepted, acceptVars
<1>4. CASE ReadFails(s)
  <2>1. Append(strand[s], Handler("readErr")) \in Seq(Handlers)
    BY HandlerTypes, AppendOf DEF TypeOK, HandlerNames
  <2>2. SessionTypes'
    BY <1>0, <1>4, <2>1 DEF ReadFails, SessionTypes
  <2>3. QED
    BY <1>4, <2>2 DEF ReadFails, TypeOK, SessionTypes, AcceptedKnown, Accepted, acceptVars
<1>5. CASE WriteCompletes(s)
  <2>1. Append(strand[s], Handler("writeOk")) \in Seq(Handlers)
    BY HandlerTypes, AppendOf DEF TypeOK, HandlerNames
  <2>2. /\ Append(delivered[s], Head(inFlight[s])) \in Seq(Nat)
        /\ Tail(inFlight[s]) \in Seq(Nat)
    <3>1. inFlight[s] \in Seq(Nat) /\ inFlight[s] # << >> /\ delivered[s] \in Seq(Nat)
      BY <1>5 DEF WriteCompletes, TypeOK
    <3>2. QED
      BY <3>1
  <2>3. SessionTypes'
    BY <1>0, <1>5, <2>1, <2>2 DEF WriteCompletes, SessionTypes
  <2>4. QED
    BY <1>5, <2>3 DEF WriteCompletes, TypeOK, SessionTypes, AcceptedKnown, Accepted, acceptVars
<1>6. CASE WriteFails(s)
  <2>1. Append(strand[s], Handler("writeErr")) \in Seq(Handlers)
    BY HandlerTypes, AppendOf DEF TypeOK, HandlerNames
  <2>2. Tail(inFlight[s]) \in Seq(Nat)
    <3>1. inFlight[s] \in Seq(Nat) /\ inFlight[s] # << >>
      BY <1>6 DEF WriteFails, TypeOK
    <3>2. QED
      BY <3>1
  <2>3. SessionTypes'
    BY <1>0, <1>6, <2>1, <2>2 DEF WriteFails, SessionTypes
  <2>4. QED
    BY <1>6, <2>3 DEF WriteFails, TypeOK, SessionTypes, AcceptedKnown, Accepted, acceptVars
<1>7. CASE DoRead(s)
  <2>1. Rest(s) \in Seq(Handlers)
    BY <1>7, ServeType DEF DoRead
  <2>2. SessionTypes'
    BY <1>0, <1>7, <2>1 DEF DoRead, SessionTypes
  <2>3. QED
    BY <1>7, <2>2 DEF DoRead, TypeOK, SessionTypes, AcceptedKnown, Accepted, acceptVars
<1>8. CASE OnRead(s)
  <2> DEFINE fs == Head(strand[s]).frames
             a  == Accepts(s, fs)
             z  == [k \in DOMAIN a |-> SendOf(a[k])]
  <2>1. Rest(s) \in Seq(Handlers) /\ fs \in Seq(Frames)
    BY <1>8, ServeType DEF OnRead
  <2>2. a \in Seq(Nat) /\ z \in Seq(Handlers)
    BY <2>1, AcceptsType
  <2>3. Cardinality(JoinsIn(fs)) \in Nat
    BY <2>1, FramesFinite
  <2>4. /\ Route(s, fs) /\ packet' = packet + Cardinality(JoinsIn(fs))
        /\ posted' = [posted EXCEPT ![s] = @ \o a]
        /\ strand' = [strand EXCEPT ![s] = Rest(s) \o z]
        /\ reading' = [reading EXCEPT ![s] = ~closed[s]]
    BY <1>8, Zenon DEF OnRead, Accepts
  <2> HIDE DEF fs, a, z
  <2>5. PICK r \in Seq(Frames) : inbox' = [inbox EXCEPT ![s] = @ \o r]
    BY <2>1, <2>4, RouteType
  <2>6. inbox[s] \o r \in Seq(Frames \cup {"QUIT"}) /\ posted[s] \o a \in Seq(Nat)
    <3>1. r \in Seq(Frames \cup {"QUIT"}) /\ inbox[s] \in Seq(Frames \cup {"QUIT"})
      BY DEF TypeOK
    <3>2. QED
      BY <2>2, <3>1 DEF TypeOK
  <2>7. Rest(s) \o z \in Seq(Handlers)
    BY <2>1, <2>2
  <2>8. SessionTypes'
    <3>1. strand' \in [SessionIds -> Seq(Handlers)]
      BY <1>0, <2>4, <2>7 DEF SessionTypes
    <3>2. posted' \in [SessionIds -> Seq(Nat)] /\ packet' \in Nat
      BY <1>0, <2>3, <2>4, <2>6 DEF SessionTypes
    <3>3. inbox' \in [SessionIds -> Seq(Frames \cup {"QUIT"})]
      BY <1>0, <2>5, <2>6 DEF SessionTypes
    <3>4. reading' \in [SessionIds -> BOOLEAN]
      BY <1>0, <2>4 DEF SessionTypes
    <3>5. QED
      BY <1>0, <1>8, <3>1, <3>2, <3>3, <3>4, Zenon DEF OnRead, SessionTypes
  <2>9. QED
    BY <1>8, <2>8 DEF OnRead, TypeOK, SessionTypes, AcceptedKnown, Accepted, acceptVars
<1>9. CASE OnReadError(s)
  <2>1. Rest(s) \in Seq(Handlers)
    BY <1>9, ServeType DEF OnReadError
  <2>2. /\ closed' = [closed EXCEPT ![s] = TRUE]
        /\ \E r \in Seq(Handlers) : strand' = [strand EXCEPT ![s] = r]
    BY <1>9, <2>1, CloseType DEF OnReadError
  <2>3. SessionTypes'
    <3>1. strand' \in [SessionIds -> Seq(Handlers)]
      BY <1>0, <2>2 DEF SessionTypes
    <3>2. closed' \in [SessionIds -> BOOLEAN]
      BY <1>0, <2>2 DEF SessionTypes
    <3>3. QED
      BY <1>0, <1>9, <3>1, <3>2, Zenon DEF OnReadError, SessionTypes
  <2>4. QED
    BY <1>9, <2>3 DEF OnReadError, TypeOK, SessionTypes, AcceptedKnown, Accepted, acceptVars
<1>10. CASE OnSendClosed(s)
  <2>1. Rest(s) \in Seq(Handlers)
    BY <1>10, ServeType DEF OnSendClosed
  <2>2. SessionTypes'
    BY <1>0, <1>10, <2>1 DEF OnSendClosed, SessionTypes
  <2>3. QED
    BY <1>10, <2>2 DEF OnSendClosed, TypeOK, SessionTypes, AcceptedKnown, Accepted, acceptVars
<1>11. CASE OnSend(s)
  <2> DEFINE q == Append(writeQueue[s], Head(strand[s]).packet)
  <2>1. Rest(s) \in Seq(Handlers) /\ Head(strand[s]).packet \in Nat
    BY <1>11, ServeType DEF OnSend
  <2>2. q \in Seq(Nat)
    BY <2>1 DEF TypeOK
  <2>3. \/ /\ writeQueue' = [writeQueue EXCEPT ![s] = q]
           /\ strand' = [strand EXCEPT ![s] = Rest(s)]
           /\ UNCHANGED <<closed, isWriting, inFlight>>
        \/ DoWrite(s, q, Rest(s))
    BY <1>11, Zenon DEF OnSend
  <2> HIDE DEF q
  <2>4. /\ closed' \in [SessionIds -> BOOLEAN]
        /\ strand' \in [SessionIds -> Seq(Handlers)]
        /\ writeQueue' \in [SessionIds -> Seq(Nat)]
        /\ isWriting' \in [SessionIds -> BOOLEAN]
        /\ inFlight' \in [SessionIds -> Seq(Nat)]
    <3>1. CASE DoWrite(s, q, Rest(s))
      BY <2>1, <2>2, <3>1, DoWriteType
    <3>2. CASE /\ writeQueue' = [writeQueue EXCEPT ![s] = q]
               /\ strand' = [strand EXCEPT ![s] = Rest(s)]
               /\ UNCHANGED <<closed, isWriting, inFlight>>
      BY <1>0, <2>1, <2>2, <3>2 DEF SessionTypes
    <3>3. QED
      BY <2>3, <3>1, <3>2
  <2>5. SessionTypes'
    BY <1>0, <1>11, <2>4 DEF OnSend, SessionTypes
  <2>6. QED
    BY <1>11, <2>5 DEF OnSend, TypeOK, SessionTypes, AcceptedKnown, Accepted, acceptVars
<1>12. CASE OnWritten(s)
  <2>1. Rest(s) \in Seq(Handlers) /\ writeQueue[s] \in Seq(Nat)
    BY <1>12, ServeType DEF OnWritten, TypeOK
  <2>2. DoWrite(s, writeQueue[s], Rest(s))
    BY <1>12 DEF OnWritten
  <2>3. SessionTypes'
    BY <1>0, <1>12, <2>1, <2>2, DoWriteType DEF OnWritten, SessionTypes
  <2>4. QED
    BY <1>12, <2>3 DEF OnWritten, TypeOK, SessionTypes, AcceptedKnown, Accepted, acceptVars
<1>13. CASE OnWriteError(s)
  <2>1. Rest(s) \in Seq(Handlers)
    BY <1>13, ServeType DEF OnWriteError
  <2>2. /\ closed' = [closed EXCEPT ![s] = TRUE]
        /\ \E r \in Seq(Handlers) : strand' = [strand EXCEPT ![s] = r]
    BY <1>13, <2>1, CloseType DEF OnWriteError
  <2>3. SessionTypes'
    <3>1. strand' \in [SessionIds -> Seq(Handlers)]
      BY <1>0, <2>2 DEF SessionTypes
    <3>2. closed' \in [SessionIds -> BOOLEAN]
      BY <1>0, <2>2 DEF SessionTypes
    <3>3. isWriting' \in [SessionIds -> BOOLEAN]
      BY <1>0, <1>13 DEF OnWriteError, SessionTypes
    <3>4. QED
      BY <1>0, <1>13, <3>1, <3>2, <3>3, Zenon DEF OnWriteError, SessionTypes
  <2>4. QED
    BY <1>13, <2>3 DEF OnWriteError, TypeOK, SessionTypes, AcceptedKnown, Accepted, acceptVars
<1>14. CASE OnClosing(s)
  <2>1. Rest(s) \in Seq(Handlers) /\ AbortedOps(s) \in Seq(Handlers)
    BY <1>14, ServeType, AbortedType DEF OnClosing
  <2>2. Rest(s) \o AbortedOps(s) \in Seq(Handlers)
    BY <2>1
  <2>3. Append(inbox[s], "QUIT") \in Seq(Frames \cup {"QUIT"}) /\ << >> \in Seq(Nat)
    BY DEF TypeOK
  <2>4. SessionTypes'
    BY <1>0, <1>14, <2>2, <2>3 DEF OnClosing, SessionTypes
  <2>5. QED
    BY <1>14, <2>4 DEF OnClosing, TypeOK, SessionTypes, AcceptedKnown, Accepted, acceptVars
<1>15. QED
  BY <1>1, <1>2, <1>3, <1>4, <1>5, <1>6, <1>7, <1>8, <1>9, <1>10, <1>11, <1>12, <1>13, <1>14
     DEF SessionNext, StrandStep


LEMMA TypeNext == TypeOK /\ AcceptedKnown /\ [Next]_vars => (TypeOK /\ AcceptedKnown)'
<1> SUFFICES ASSUME TypeOK, AcceptedKnown, [Next]_vars
             PROVE  (TypeOK /\ AcceptedKnown)'
  BY Zenon
<1>1. CASE ServerNext
  BY <1>1, ServerTypes
<1>2. ASSUME NEW targets \in SUBSET SessionIds, SendPacket(targets)
      PROVE  (TypeOK /\ AcceptedKnown)'
  <2>1. packet' \in Nat /\ sending' \in [packet : Nat, to : SUBSET SessionIds]
    BY <1>2 DEF SendPacket, TypeOK
  <2>2. QED
    BY <1>2, <2>1 DEF SendPacket, TypeOK, AcceptedKnown, Accepted, acceptVars, readVars, writeVars
<1>3. CASE Broadcast \/ SendTo
  BY <1>2, <1>3 DEF Broadcast, SendTo, TypeOK
<1>4. ASSUME NEW s \in SessionIds, SessionNext(s)
      PROVE  (TypeOK /\ AcceptedKnown)'
  BY <1>4, SessionStepTypes
<1>5. CASE UNCHANGED vars
  BY <1>5 DEF vars, TypeOK, AcceptedKnown, Accepted, acceptVars, readVars, writeVars, sendVars
<1>6. QED
  BY <1>1, <1>3, <1>4, <1>5, Zenon DEF Next, ServerNext, SessionNext

\* Every variable of the connections keeps its type.
THEOREM TypeCorrect == Spec => []TypeOK
<1>1. Spec => [](TypeOK /\ AcceptedKnown)
  BY TypeInit, TypeNext, PTL DEF Spec
<1>2. QED
  BY <1>1, PTL

-----------------------------------------------------------------------------
(* The operations of a session *)

\* Nothing of session t changes.
SameFor(t) ==
  /\ UNCHANGED acceptVars
  /\ strand'[t] = strand[t] /\ closed'[t] = closed[t] /\ reading'[t] = reading[t]
  /\ writeQueue'[t] = writeQueue[t] /\ isWriting'[t] = isWriting[t]
  /\ inFlight'[t] = inFlight[t] /\ delivered'[t] = delivered[t]
  /\ posted'[t] = posted[t] /\ inbox'[t] = inbox[t]
  /\ t \in registry' <=> t \in registry
  /\ t \in sending'.to => t \in sending.to \/ t \in registry

LEMMA SameKeeps ==
  ASSUME NEW t \in SessionIds, SessionInv(t), SameFor(t)
  PROVE  SessionInv(t)'
<1>1. WriteInv(t)'
  BY DEF SessionInv, SameFor, WriteInv
<1>2. ReadInv(t)'
  BY DEF SessionInv, SameFor, ReadInv
<1>3. Quits(t)' = Quits(t)
  BY DEF SameFor, Quits
<1>4. CloseInv(t)'
  BY <1>3 DEF SessionInv, SameFor, CloseInv
<1>5. Unshared(t)' <=> Unshared(t)
  BY DEF SameFor, acceptVars, Unshared, Accepted
<1>6. AcceptInv(t)'
  BY <1>3, <1>5 DEF SessionInv, SameFor, AcceptInv, acceptVars, Accepted
<1>7. QED
  BY <1>1, <1>2, <1>4, <1>6 DEF SessionInv

\* A step of one session is no step of another one.
LEMMA OthersSame ==
  ASSUME TypeOK, NEW s \in SessionIds, SessionNext(s), NEW t \in SessionIds, t # s
  PROVE  SameFor(t)
<1> USE DEF TypeOK, readVars, writeVars, sendVars, SameFor
<1>1. CASE PostSend(s)
  BY <1>1 DEF PostSend
<1>2. CASE PeerBreaks(s)
  BY <1>2 DEF PeerBreaks
<1>3. CASE ReadCompletes(s)
  BY <1>3 DEF ReadCompletes
<1>4. CASE ReadFails(s)
  BY <1>4 DEF ReadFails
<1>5. CASE WriteCompletes(s)
  BY <1>5 DEF WriteCompletes
<1>6. CASE WriteFails(s)
  BY <1>6 DEF WriteFails
<1>7. CASE DoRead(s)
  BY <1>7 DEF DoRead
<1>8. CASE OnRead(s)
  <2>1. inbox'[t] = inbox[t]
    BY <1>8 DEF OnRead, Route
  <2>2. strand'[t] = strand[t] /\ posted'[t] = posted[t]
    BY <1>8 DEF OnRead
  <2>3. QED
    BY <1>8, <2>1, <2>2 DEF OnRead
<1>9. CASE OnReadError(s)
  BY <1>9 DEF OnReadError, CloseInto
<1>10. CASE OnSendClosed(s)
  BY <1>10 DEF OnSendClosed
<1>11. ASSUME NEW q, NEW r, DoWrite(s, q, r)
       PROVE  /\ strand'[t] = strand[t] /\ closed'[t] = closed[t]
              /\ writeQueue'[t] = writeQueue[t] /\ isWriting'[t] = isWriting[t]
              /\ inFlight'[t] = inFlight[t]
  BY <1>11 DEF DoWrite, CloseInto
<1>12. CASE OnSend(s)
  <2>1. CASE isWriting[s]
    BY <1>12, <2>1 DEF OnSend
  <2>2. CASE ~isWriting[s]
    BY <1>11, <1>12, <2>2 DEF OnSend
  <2>3. QED
    BY <2>1, <2>2
<1>13. CASE OnWritten(s)
  BY <1>11, <1>13 DEF OnWritten
<1>14. CASE OnWriteError(s)
  BY <1>14 DEF OnWriteError, CloseInto
<1>15. CASE OnClosing(s)
  BY <1>15 DEF OnClosing
<1>16. QED
  BY <1>1, <1>2, <1>3, <1>4, <1>5, <1>6, <1>7, <1>8, <1>9, <1>10, <1>12, <1>13, <1>14, <1>15
     DEF SessionNext, StrandStep


\* What the invariant says of a handler that is served, and of the strand behind it.
LEMMA Served ==
  ASSUME TypeOK, NEW s \in SessionIds, SessionInv(s), NEW h, Serve(s, h)
  PROVE  /\ ~Unshared(s) /\ h \in HandlerNames
         /\ AtMostOneOf(Rest(s), WriteNames) /\ AtMostOneOf(Rest(s), ReadNames)
         /\ AtMostOneOf(Rest(s), {"closing"})
         /\ h \in WriteNames =>
              NoneOf(Rest(s), WriteNames) /\ inFlight[s] = << >> /\ isWriting[s]
         /\ h \notin WriteNames => (NoneOf(Rest(s), WriteNames) <=> NoneOf(strand[s], WriteNames))
         /\ h \in ReadNames => NoneOf(Rest(s), ReadNames) /\ ~reading[s]
         /\ h \notin ReadNames => (NoneOf(Rest(s), ReadNames) <=> NoneOf(strand[s], ReadNames))
         /\ h = "closing" => NoneOf(Rest(s), {"closing"}) /\ closed[s] /\ Quits(s) = {}
         /\ h # "closing" => (NoneOf(Rest(s), {"closing"}) <=> NoneOf(strand[s], {"closing"}))
         /\ acceptAt = "start" /\ s = Accepted => h \notin ReadNames
<1>1. /\ strand[s] \in Seq(Handlers) /\ strand[s] # << >> /\ Head(strand[s]).h = h
      /\ Head(strand[s]) \in Handlers
  BY ServeType
<1>2. \A N : /\ Head(strand[s]).h \notin N /\ NoneOf(Tail(strand[s]), N) => NoneOf(strand[s], N)
             /\ NoneOf(strand[s], N) => Head(strand[s]).h \notin N /\ NoneOf(Tail(strand[s]), N)
             /\ AtMostOneOf(strand[s], N) => AtMostOneOf(Tail(strand[s]), N)
             /\ AtMostOneOf(strand[s], N) /\ Head(strand[s]).h \in N => NoneOf(Tail(strand[s]), N)
  BY <1>1, TailOf
<1>3. WriteInv(s) /\ ReadInv(s) /\ CloseInv(s) /\ AcceptInv(s)
  BY DEF SessionInv
<1>4. ~Unshared(s) /\ h \in HandlerNames
  BY <1>1, <1>3 DEF AcceptInv, Handlers
<1>5. /\ AtMostOneOf(Rest(s), WriteNames)
      /\ h \in WriteNames => NoneOf(Rest(s), WriteNames) /\ inFlight[s] = << >> /\ isWriting[s]
      /\ h \notin WriteNames => (NoneOf(Rest(s), WriteNames) <=> NoneOf(strand[s], WriteNames))
  BY <1>1, <1>2, <1>3 DEF WriteInv, Rest
<1>6. /\ AtMostOneOf(Rest(s), ReadNames)
      /\ h \in ReadNames => NoneOf(Rest(s), ReadNames) /\ ~reading[s]
      /\ h \notin ReadNames => (NoneOf(Rest(s), ReadNames) <=> NoneOf(strand[s], ReadNames))
      /\ acceptAt = "start" /\ s = Accepted => h \notin ReadNames
  BY <1>1, <1>2, <1>3 DEF ReadInv, AcceptInv, Rest
<1>7. /\ AtMostOneOf(Rest(s), {"closing"})
      /\ h = "closing" => NoneOf(Rest(s), {"closing"}) /\ closed[s] /\ Quits(s) = {}
      /\ h # "closing" => (NoneOf(Rest(s), {"closing"}) <=> NoneOf(strand[s], {"closing"}))
  BY <1>1, <1>2, <1>3 DEF CloseInv, Rest
<1>8. QED
  BY <1>4, <1>5, <1>6, <1>7, Zenon

\* What a handler with the name h does to the counts of a strand.
LEMMA Posted ==
  ASSUME NEW q \in Seq(Handlers), NEW x \in Handlers
  PROVE  \A N : /\ x.h \notin N => (NoneOf(Append(q, x), N) <=> NoneOf(q, N))
                /\ x.h \in N => ~NoneOf(Append(q, x), N)
                /\ AtMostOneOf(q, N) /\ x.h \notin N => AtMostOneOf(Append(q, x), N)
                /\ NoneOf(q, N) => AtMostOneOf(Append(q, x), N)
  BY AppendOf, Zenon

LEMMA PostSendOps ==
  ASSUME TypeOK, NEW s \in SessionIds, SessionInv(s), PostSend(s)
  PROVE  SessionInv(s)'
<1>1. /\ strand'[s] = Append(strand[s], SendOf(sending.packet))
      /\ sending'.to \subseteq sending.to
      /\ UNCHANGED <<acceptAt, nextSessionId, registry, closed, reading, isWriting, inFlight, inbox>>
  BY DEF PostSend, TypeOK, acceptVars, readVars, writeVars
<1>2. /\ strand[s] \in Seq(Handlers) /\ SendOf(sending.packet) \in Handlers
      /\ SendOf(sending.packet).h = "send"
  BY HandlerTypes DEF TypeOK
<1>3. /\ "send" \notin WriteNames /\ "send" \notin ReadNames /\ "send" \notin {"closing"}
  BY DEF WriteNames, ReadNames
<1>4. ~Unshared(s) /\ s \in sending.to
  BY DEF PostSend, SessionInv, AcceptInv
<1>5. WriteInv(s)'
  BY <1>1, <1>2, <1>3, Posted DEF SessionInv, WriteInv
<1>6. ReadInv(s)'
  BY <1>1, <1>2, <1>3, Posted DEF SessionInv, ReadInv
<1>7. CloseInv(s)'
  BY <1>1, <1>2, <1>3, Posted DEF SessionInv, CloseInv, Quits
<1>8. AcceptInv(s)'
  BY <1>1, <1>2, <1>3, <1>4, Posted DEF SessionInv, AcceptInv, Unshared, Accepted
<1>9. QED
  BY <1>5, <1>6, <1>7, <1>8 DEF SessionInv

\* A read completes: what was pending is now on the strand.
LEMMA ReadOps ==
  ASSUME TypeOK, NEW s \in SessionIds, SessionInv(s), ReadCompletes(s) \/ ReadFails(s)
  PROVE  SessionInv(s)'
<1>1. PICK x \in Handlers : x.h \in {"readOk", "readErr"} /\ strand'[s] = Append(strand[s], x)
  <2>1. CASE ReadCompletes(s)
    <3>1. PICK fs \in Reads : strand' = [strand EXCEPT ![s] = Append(@, ReadOf(fs))]
      BY <2>1 DEF ReadCompletes
    <3>2. ReadOf(fs) \in Handlers /\ ReadOf(fs).h = "readOk"
      BY SessionAssumption, HandlerTypes
    <3>3. QED
      BY <3>1, <3>2 DEF TypeOK
  <2>2. CASE ReadFails(s)
    <3>1. Handler("readErr") \in Handlers /\ Handler("readErr").h = "readErr"
      BY HandlerTypes DEF HandlerNames
    <3>2. QED
      BY <2>2, <3>1 DEF ReadFails, TypeOK
  <2>3. QED
    BY <2>1, <2>2
<1>2. /\ reading[s] /\ ~reading'[s]
      /\ UNCHANGED <<acceptAt, nextSessionId, registry, closed, sending, isWriting, inFlight, inbox>>
  BY DEF ReadCompletes, ReadFails, TypeOK, acceptVars, sendVars, writeVars
<1>3. x.h \notin WriteNames /\ x.h \in ReadNames /\ x.h \notin {"closing"} /\ strand[s] \in Seq(Handlers)
  BY <1>1 DEF WriteNames, ReadNames, TypeOK
<1>4. ~Unshared(s) /\ ~(acceptAt = "start" /\ s = Accepted)
  BY <1>2 DEF SessionInv, AcceptInv
<1>5. WriteInv(s)'
  BY <1>1, <1>2, <1>3, Posted DEF SessionInv, WriteInv
<1>6. ReadInv(s)'
  BY <1>1, <1>2, <1>3, Posted DEF SessionInv, ReadInv
<1>7. CloseInv(s)'
  BY <1>1, <1>2, <1>3, Posted DEF SessionInv, CloseInv, Quits
<1>8. AcceptInv(s)'
  BY <1>2, <1>4 DEF SessionInv, AcceptInv, Unshared, Accepted
<1>9. QED
  BY <1>5, <1>6, <1>7, <1>8 DEF SessionInv

\* A write completes: it is no longer in flight and its handler is on the strand.
LEMMA WriteOps ==
  ASSUME TypeOK, NEW s \in SessionIds, SessionInv(s), WriteCompletes(s) \/ WriteFails(s)
  PROVE  SessionInv(s)'
<1>1. PICK x \in Handlers : x.h \in WriteNames /\ strand'[s] = Append(strand[s], x)
  <2>1. /\ Handler("writeOk") \in Handlers /\ Handler("writeOk").h \in WriteNames
        /\ Handler("writeErr") \in Handlers /\ Handler("writeErr").h \in WriteNames
    BY HandlerTypes DEF HandlerNames, WriteNames
  <2>2. QED
    BY <2>1 DEF WriteCompletes, WriteFails, TypeOK
<1>2. /\ inFlight[s] # << >> /\ inFlight'[s] = Tail(inFlight[s])
      /\ UNCHANGED <<acceptAt, nextSessionId, registry, closed, sending, reading, isWriting, inbox>>
  BY DEF WriteCompletes, WriteFails, TypeOK, acceptVars, sendVars, readVars
<1>3. x.h \notin ReadNames /\ x.h \notin {"closing"} /\ strand[s] \in Seq(Handlers)
  BY <1>1 DEF WriteNames, ReadNames, TypeOK
<1>4. ~Unshared(s) /\ Len(inFlight[s]) = 1 /\ inFlight[s] \in Seq(Nat)
  BY <1>2 DEF SessionInv, AcceptInv, WriteInv, TypeOK
<1>5. inFlight'[s] = << >>
  <2>1. Tail(inFlight[s]) \in Seq(Nat) /\ Len(Tail(inFlight[s])) = 0
    BY <1>2, <1>4
  <2>2. QED
    BY <1>2, <2>1, EmptySeq
<1>6. WriteInv(s)'
  <2>1. NoneOf(strand[s], WriteNames) /\ isWriting[s]
    BY <1>2 DEF SessionInv, WriteInv
  <2>2. AtMostOneOf(strand'[s], WriteNames) /\ ~NoneOf(strand'[s], WriteNames)
    BY <1>1, <1>3, <2>1, Posted
  <2>3. QED
    BY <1>2, <1>5, <2>1, <2>2 DEF WriteInv
<1>7. ReadInv(s)'
  BY <1>1, <1>2, <1>3, Posted DEF SessionInv, ReadInv
<1>8. CloseInv(s)'
  BY <1>1, <1>2, <1>3, <1>5, Posted DEF SessionInv, CloseInv, Quits
<1>9. AcceptInv(s)'
  BY <1>1, <1>2, <1>3, <1>4, Posted DEF SessionInv, AcceptInv, Unshared, Accepted
<1>10. QED
  BY <1>6, <1>7, <1>8, <1>9 DEF SessionInv


\* What close() does to the strand q of a handler of s that is not the closing one.
LEMMA CloseOps ==
  ASSUME TypeOK, NEW s \in SessionIds, SessionInv(s), NEW q \in Seq(Handlers), CloseInto(s, q),
         NoneOf(strand[s], {"closing"}) => NoneOf(q, {"closing"}),
         AtMostOneOf(q, {"closing"})
  PROVE  /\ closed'[s]
         /\ \A N : "closing" \notin N => /\ NoneOf(strand'[s], N) <=> NoneOf(q, N)
                                         /\ AtMostOneOf(q, N) => AtMostOneOf(strand'[s], N)
         /\ AtMostOneOf(strand'[s], {"closing"})
         /\ ~NoneOf(strand'[s], {"closing"}) => Quits(s) = {} \/ ~NoneOf(q, {"closing"})
<1>1. PICK r \in Seq(Handlers) :
        /\ strand' = [strand EXCEPT ![s] = r]
        /\ \/ closed[s] /\ r = q
           \/ ~closed[s] /\ r = Append(q, Handler("closing"))
  BY CloseType, Zenon
<1>2. strand'[s] = r /\ closed'[s]
  BY <1>1, CloseType DEF TypeOK
<1>3. CASE closed[s]
  BY <1>1, <1>2, <1>3
<1>4. CASE ~closed[s]
  <2>1. Handler("closing") \in Handlers /\ Handler("closing").h = "closing"
    BY HandlerTypes DEF HandlerNames
  <2>2. strand'[s] = Append(q, Handler("closing"))
    BY <1>1, <1>2, <1>4
  <2>3. NoneOf(q, {"closing"}) /\ Quits(s) = {}
    BY <1>4 DEF SessionInv, CloseInv
  <2>4. \A N : "closing" \notin N => /\ NoneOf(strand'[s], N) <=> NoneOf(q, N)
                                     /\ AtMostOneOf(q, N) => AtMostOneOf(strand'[s], N)
    BY <2>1, <2>2, Posted
  <2>5. AtMostOneOf(strand'[s], {"closing"})
    BY <2>1, <2>2, <2>3, Posted
  <2>6. QED
    BY <1>2, <2>3, <2>4, <2>5
<1>5. QED
  BY <1>3, <1>4

LEMMA DoReadOps ==
  ASSUME TypeOK, NEW s \in SessionIds, SessionInv(s), DoRead(s)
  PROVE  SessionInv(s)'
<1>1. /\ strand'[s] = Rest(s) /\ reading'[s] = ~closed[s]
      /\ UNCHANGED <<acceptAt, nextSessionId, registry, closed, sending, isWriting, inFlight, inbox>>
  BY DEF DoRead, TypeOK, acceptVars, sendVars, writeVars
<1>2. "doRead" \in ReadNames /\ "doRead" \notin WriteNames
  BY DEF ReadNames, WriteNames
<1>3. Serve(s, "doRead")
  BY DEF DoRead
<1>4. WriteInv(s)'
  BY <1>1, <1>2, <1>3, Served DEF SessionInv, WriteInv
<1>5. ReadInv(s)'
  BY <1>1, <1>2, <1>3, Served DEF ReadInv
<1>6. CloseInv(s)'
  BY <1>1, <1>3, Served DEF SessionInv, CloseInv, Quits
<1>7. AcceptInv(s)'
  BY <1>1, <1>2, <1>3, Served DEF SessionInv, AcceptInv, Unshared, Accepted
<1>8. QED
  BY <1>4, <1>5, <1>6, <1>7 DEF SessionInv

LEMMA OnReadOps ==
  ASSUME TypeOK, NEW s \in SessionIds, SessionInv(s), OnRead(s)
  PROVE  SessionInv(s)'
<1> DEFINE fs == Head(strand[s]).frames
           a  == Accepts(s, fs)
           z  == [k \in DOMAIN a |-> SendOf(a[k])]
<1>1. Rest(s) \in Seq(Handlers) /\ fs \in Seq(Frames) /\ Serve(s, "readOk")
  BY ServeType DEF OnRead
<1>2. a \in Seq(Nat) /\ z \in Seq(Handlers)
  BY <1>1, AcceptsType
<1>3. strand'[s] = Rest(s) \o z
  BY Zenon DEF OnRead, Accepts, TypeOK
<1>4. \A k \in DOMAIN z : z[k].h = "send"
  <2>1. \A k \in DOMAIN a : a[k] \in Nat
    BY <1>2
  <2> HIDE DEF a
  <2>2. QED
    BY <2>1, HandlerTypes
<1>5. Route(s, fs)
  BY DEF OnRead
<1> HIDE DEF fs, a, z
<1>6. NoneOf(z, WriteNames) /\ NoneOf(z, ReadNames) /\ NoneOf(z, {"closing"})
  BY <1>4 DEF NoneOf, WriteNames, ReadNames
<1>7. \A N : NoneOf(z, N) => /\ NoneOf(strand'[s], N) <=> NoneOf(Rest(s), N)
                             /\ AtMostOneOf(Rest(s), N) => AtMostOneOf(strand'[s], N)
  BY <1>1, <1>2, <1>3, ConcatOf
<1>8. /\ reading'[s] = ~closed[s]
      /\ UNCHANGED <<acceptAt, nextSessionId, registry, closed, sending, isWriting, inFlight>>
  BY DEF OnRead, TypeOK, acceptVars, sendVars, writeVars
<1>9. Quits(s)' = Quits(s)
  <2>1. PICK r \in Seq(Frames) : inbox' = [inbox EXCEPT ![s] = @ \o r]
    BY <1>1, <1>5, RouteType
  <2>2. inbox'[s] = inbox[s] \o r /\ inbox[s] \in Seq(Frames \cup {"QUIT"})
    BY <2>1 DEF TypeOK
  <2>3. r \in Seq(Frames \cup {"QUIT"}) /\ \A k \in DOMAIN r : r[k] # "QUIT"
    BY DEF Frames
  <2> DEFINE b == inbox[s]
  <2> HIDE DEF b
  <2>4. b \in Seq(Frames \cup {"QUIT"})
    BY <2>2 DEF b
  <2>5. {k \in DOMAIN (b \o r) : (b \o r)[k] = "QUIT"} = {k \in DOMAIN b : b[k] = "QUIT"}
    <3>1. /\ DOMAIN b = 1 .. Len(b) /\ DOMAIN r = 1 .. Len(r)
          /\ DOMAIN (b \o r) = 1 .. (Len(b) + Len(r))
          /\ Len(b) \in Nat /\ Len(r) \in Nat
          /\ \A k \in 1 .. (Len(b) + Len(r)) : (b \o r)[k] = IF k <= Len(b) THEN b[k] ELSE r[k - Len(b)]
      BY <2>3, <2>4
    <3>2. \A k \in DOMAIN (b \o r) :
            \/ k \in DOMAIN b /\ (b \o r)[k] = b[k]
            \/ k - Len(b) \in DOMAIN r /\ (b \o r)[k] = r[k - Len(b)]
      BY <3>1
    <3>3. \A k \in DOMAIN b : k \in DOMAIN (b \o r) /\ (b \o r)[k] = b[k]
      BY <3>1
    <3>4. QED
      BY <2>3, <3>2, <3>3, Zenon
  <2>6. QED
    BY <2>2, <2>5, Zenon DEF b, Quits
<1>10. "readOk" \in ReadNames /\ "readOk" \notin WriteNames
  BY DEF ReadNames, WriteNames
<1>11. WriteInv(s)'
  BY <1>1, <1>6, <1>7, <1>8, <1>10, Served DEF SessionInv, WriteInv
<1>12. ReadInv(s)'
  BY <1>1, <1>6, <1>7, <1>8, <1>10, Served DEF ReadInv
<1>13. CloseInv(s)'
  BY <1>1, <1>6, <1>7, <1>8, <1>9, Served DEF SessionInv, CloseInv
<1>14. AcceptInv(s)'
  BY <1>1, <1>8, <1>10, Served DEF SessionInv, AcceptInv, Unshared, Accepted
<1>15. QED
  BY <1>11, <1>12, <1>13, <1>14 DEF SessionInv

LEMMA OnReadErrorOps ==
  ASSUME TypeOK, NEW s \in SessionIds, SessionInv(s), OnReadError(s)
  PROVE  SessionInv(s)'
<1>1. Serve(s, "readErr") /\ CloseInto(s, Rest(s)) /\ Rest(s) \in Seq(Handlers)
  BY ServeType DEF OnReadError
<1>2. UNCHANGED <<acceptAt, nextSessionId, registry, sending, reading, isWriting, inFlight, inbox>>
  BY DEF OnReadError, acceptVars, sendVars, writeVars, readVars
<1>3. /\ "readErr" \in ReadNames /\ "readErr" \notin WriteNames
      /\ "closing" \notin ReadNames /\ "closing" \notin WriteNames
  BY DEF ReadNames, WriteNames
<1>4. /\ closed'[s] /\ AtMostOneOf(strand'[s], {"closing"})
      /\ NoneOf(strand'[s], WriteNames) <=> NoneOf(Rest(s), WriteNames)
      /\ AtMostOneOf(strand'[s], WriteNames)
      /\ NoneOf(strand'[s], ReadNames) <=> NoneOf(Rest(s), ReadNames)
      /\ AtMostOneOf(strand'[s], ReadNames)
      /\ ~NoneOf(strand'[s], {"closing"}) => Quits(s) = {} \/ ~NoneOf(Rest(s), {"closing"})
  BY <1>1, <1>3, Served, CloseOps
<1>5. Quits(s)' = Quits(s)
  BY <1>2 DEF Quits
<1>6. WriteInv(s)'
  BY <1>1, <1>2, <1>3, <1>4, Served DEF SessionInv, WriteInv
<1>7. ReadInv(s)'
  BY <1>1, <1>2, <1>3, <1>4, Served DEF ReadInv
<1>8. CloseInv(s)'
  BY <1>1, <1>2, <1>4, <1>5, Served DEF SessionInv, CloseInv
<1>9. AcceptInv(s)'
  BY <1>1, <1>2, <1>3, Served DEF SessionInv, AcceptInv, Unshared, Accepted
<1>10. QED
  BY <1>6, <1>7, <1>8, <1>9 DEF SessionInv


\* A send() that only queues its packet, or drops it.
LEMMA SendPops ==
  ASSUME TypeOK, NEW s \in SessionIds, SessionInv(s), Serve(s, "send"),
         strand'[s] = Rest(s),
         UNCHANGED <<acceptAt, nextSessionId, registry, closed, sending, reading, isWriting,
                     inFlight, inbox>>
  PROVE  SessionInv(s)'
<1>1. "send" \notin ReadNames /\ "send" \notin WriteNames
  BY DEF ReadNames, WriteNames
<1>2. WriteInv(s)'
  BY <1>1, Served DEF SessionInv, WriteInv
<1>3. ReadInv(s)'
  BY <1>1, Served DEF SessionInv, ReadInv
<1>4. CloseInv(s)'
  BY <1>1, Served DEF SessionInv, CloseInv, Quits
<1>5. AcceptInv(s)'
  BY <1>1, Served DEF SessionInv, AcceptInv, Unshared, Accepted
<1>6. QED
  BY <1>2, <1>3, <1>4, <1>5 DEF SessionInv

\* doWrite(), called when there is no write.
LEMMA DoWriteOps ==
  ASSUME TypeOK, NEW s \in SessionIds, SessionInv(s), NEW q \in Seq(Nat),
         NEW h \in {"send", "writeOk"}, Serve(s, h),
         inFlight[s] = << >>, NoneOf(Rest(s), WriteNames),
         DoWrite(s, q, Rest(s)),
         UNCHANGED <<acceptAt, nextSessionId, registry, sending, reading, inbox>>
  PROVE  SessionInv(s)'
<1>1. /\ h \notin ReadNames /\ h # "closing"
      /\ "closing" \notin ReadNames /\ "closing" \notin WriteNames
  BY DEF ReadNames, WriteNames
<1>2. /\ AtMostOneOf(Rest(s), ReadNames) /\ AtMostOneOf(Rest(s), {"closing"})
      /\ AtMostOneOf(Rest(s), WriteNames) /\ Rest(s) \in Seq(Handlers)
      /\ NoneOf(Rest(s), ReadNames) <=> NoneOf(strand[s], ReadNames)
      /\ NoneOf(Rest(s), {"closing"}) <=> NoneOf(strand[s], {"closing"})
      /\ ~Unshared(s)
  BY <1>1, Served, ServeType
<1>3. Quits(s)' = Quits(s)
  BY DEF Quits
<1>4. /\ NoneOf(strand'[s], WriteNames)
      /\ AtMostOneOf(strand'[s], ReadNames) /\ AtMostOneOf(strand'[s], {"closing"})
      /\ NoneOf(strand'[s], ReadNames) <=> NoneOf(strand[s], ReadNames)
      /\ closed[s] => closed'[s]
      /\ ~NoneOf(strand'[s], {"closing"}) => closed'[s] /\ Quits(s) = {}
      /\ \/ inFlight'[s] = << >> /\ ~isWriting'[s]
         \/ Len(inFlight'[s]) = 1 /\ isWriting'[s] /\ inFlight'[s] # << >> /\ ~closed[s]
  <2>1. CASE /\ isWriting' = [isWriting EXCEPT ![s] = FALSE]
             /\ strand' = [strand EXCEPT ![s] = Rest(s)]
             /\ UNCHANGED <<closed, inFlight>>
    <3>1. strand'[s] = Rest(s) /\ ~isWriting'[s] /\ inFlight'[s] = << >> /\ closed' = closed
      BY <2>1 DEF TypeOK
    <3>2. QED
      BY <1>2, <3>1 DEF SessionInv, CloseInv
  <2>2. CASE /\ ~closed[s] /\ q # << >>
             /\ isWriting' = [isWriting EXCEPT ![s] = TRUE]
             /\ inFlight' = [inFlight EXCEPT ![s] = Append(@, Head(q))]
             /\ strand' = [strand EXCEPT ![s] = Rest(s)]
             /\ UNCHANGED closed
    <3>1. strand'[s] = Rest(s) /\ isWriting'[s] /\ inFlight'[s] = Append(<< >>, Head(q)) /\ closed' = closed
      BY <2>2 DEF TypeOK
    <3>2. Len(inFlight'[s]) = 1 /\ inFlight'[s] # << >>
      <4>1. Head(q) \in Nat
        BY <2>2
      <4>2. QED
        BY <3>1, <4>1
    <3>3. QED
      BY <1>2, <2>2, <3>1, <3>2 DEF SessionInv, CloseInv
  <2>3. CASE /\ isWriting' = [isWriting EXCEPT ![s] = FALSE]
             /\ CloseInto(s, Rest(s))
             /\ UNCHANGED inFlight
    <3>1. ~isWriting'[s] /\ inFlight'[s] = << >>
      BY <2>3 DEF TypeOK
    <3>2. /\ closed'[s] /\ AtMostOneOf(strand'[s], {"closing"})
          /\ NoneOf(strand'[s], WriteNames) <=> NoneOf(Rest(s), WriteNames)
          /\ NoneOf(strand'[s], ReadNames) <=> NoneOf(Rest(s), ReadNames)
          /\ AtMostOneOf(strand'[s], ReadNames)
          /\ ~NoneOf(strand'[s], {"closing"}) => Quits(s) = {} \/ ~NoneOf(Rest(s), {"closing"})
      BY <1>1, <1>2, <2>3, CloseOps
    <3>3. QED
      BY <1>2, <3>1, <3>2 DEF SessionInv, CloseInv
  <2>4. QED
    BY <2>1, <2>2, <2>3, Zenon DEF DoWrite
<1>5. WriteInv(s)'
  BY <1>4, NoneIsAtMostOne DEF WriteInv
<1>6. ReadInv(s)'
  BY <1>4 DEF SessionInv, ReadInv
<1>7. CloseInv(s)'
  BY <1>3, <1>4 DEF SessionInv, CloseInv
<1>8. AcceptInv(s)'
  BY <1>2, <1>4 DEF SessionInv, AcceptInv, Unshared, Accepted
<1>9. QED
  BY <1>5, <1>6, <1>7, <1>8 DEF SessionInv

LEMMA OnSendOps ==
  ASSUME TypeOK, NEW s \in SessionIds, SessionInv(s), OnSend(s) \/ OnSendClosed(s)
  PROVE  SessionInv(s)'
<1>1. Serve(s, "send") /\ UNCHANGED <<acceptAt, nextSessionId, registry, sending, reading, inbox>>
  BY DEF OnSend, OnSendClosed, acceptVars, sendVars, readVars
<1>2. CASE strand' = [strand EXCEPT ![s] = Rest(s)] /\ UNCHANGED <<closed, isWriting, inFlight>>
  <2>1. strand'[s] = Rest(s)
    BY <1>2 DEF TypeOK
  <2>2. QED
    BY <1>1, <1>2, <2>1, SendPops
<1>3. CASE OnSendClosed(s)
  BY <1>2, <1>3 DEF OnSendClosed, writeVars
<1>4. CASE OnSend(s) /\ isWriting[s]
  BY <1>2, <1>4 DEF OnSend
<1>5. CASE OnSend(s) /\ ~isWriting[s]
  <2> DEFINE q == Append(writeQueue[s], Head(strand[s]).packet)
  <2>1. DoWrite(s, q, Rest(s))
    BY <1>5 DEF OnSend
  <2>2. q \in Seq(Nat)
    <3>1. Head(strand[s]).packet \in Nat
      BY <1>1, ServeType
    <3>2. QED
      BY <3>1 DEF TypeOK
  <2>3. inFlight[s] = << >> /\ NoneOf(strand[s], WriteNames)
    BY <1>5 DEF SessionInv, WriteInv
  <2>4. NoneOf(Rest(s), WriteNames)
    BY <1>1, <2>3, Served DEF WriteNames
  <2> HIDE DEF q
  <2>5. QED
    BY <1>1, <2>1, <2>2, <2>3, <2>4, DoWriteOps
<1>6. QED
  BY <1>3, <1>4, <1>5

LEMMA OnWrittenOps ==
  ASSUME TypeOK, NEW s \in SessionIds, SessionInv(s), OnWritten(s)
  PROVE  SessionInv(s)'
<1>1. /\ Serve(s, "writeOk") /\ DoWrite(s, writeQueue[s], Rest(s)) /\ writeQueue[s] \in Seq(Nat)
      /\ UNCHANGED <<acceptAt, nextSessionId, registry, sending, reading, inbox>>
  BY DEF OnWritten, acceptVars, sendVars, readVars, TypeOK
<1>2. inFlight[s] = << >> /\ NoneOf(Rest(s), WriteNames)
  BY <1>1, Served DEF WriteNames
<1>3. QED
  BY <1>1, <1>2, DoWriteOps

LEMMA OnWriteErrorOps ==
  ASSUME TypeOK, NEW s \in SessionIds, SessionInv(s), OnWriteError(s)
  PROVE  SessionInv(s)'
<1>1. Serve(s, "writeErr") /\ CloseInto(s, Rest(s)) /\ Rest(s) \in Seq(Handlers)
  BY ServeType DEF OnWriteError
<1>2. /\ ~isWriting'[s]
      /\ UNCHANGED <<acceptAt, nextSessionId, registry, sending, reading, inFlight, inbox>>
  BY DEF OnWriteError, acceptVars, sendVars, readVars, TypeOK
<1>3. /\ "writeErr" \notin ReadNames /\ "writeErr" \in WriteNames
      /\ "closing" \notin ReadNames /\ "closing" \notin WriteNames
  BY DEF ReadNames, WriteNames
<1>4. /\ closed'[s] /\ AtMostOneOf(strand'[s], {"closing"})
      /\ NoneOf(strand'[s], WriteNames) <=> NoneOf(Rest(s), WriteNames)
      /\ AtMostOneOf(strand'[s], WriteNames)
      /\ NoneOf(strand'[s], ReadNames) <=> NoneOf(Rest(s), ReadNames)
      /\ AtMostOneOf(strand'[s], ReadNames)
      /\ ~NoneOf(strand'[s], {"closing"}) => Quits(s) = {} \/ ~NoneOf(Rest(s), {"closing"})
  BY <1>1, <1>3, Served, CloseOps
<1>5. Quits(s)' = Quits(s)
  BY <1>2 DEF Quits
<1>6. WriteInv(s)'
  BY <1>1, <1>2, <1>3, <1>4, Served DEF SessionInv, WriteInv
<1>7. ReadInv(s)'
  BY <1>1, <1>2, <1>3, <1>4, Served DEF SessionInv, ReadInv
<1>8. CloseInv(s)'
  BY <1>1, <1>2, <1>4, <1>5, Served DEF SessionInv, CloseInv
<1>9. AcceptInv(s)'
  BY <1>1, <1>2, <1>3, <1>4, Served DEF SessionInv, AcceptInv, Unshared, Accepted
<1>10. QED
  BY <1>6, <1>7, <1>8, <1>9 DEF SessionInv

\* The QUIT of a closing handler.
LEMMA QuitsAppend ==
  ASSUME NEW b \in Seq(Frames \cup {"QUIT"})
  PROVE  {k \in DOMAIN Append(b, "QUIT") : Append(b, "QUIT")[k] = "QUIT"}
           = {k \in DOMAIN b : b[k] = "QUIT"} \cup {Len(b) + 1}
<1>1. /\ DOMAIN b = 1 .. Len(b) /\ Len(b) \in Nat
      /\ DOMAIN Append(b, "QUIT") = 1 .. (Len(b) + 1)
      /\ \A k \in 1 .. Len(b) : Append(b, "QUIT")[k] = b[k]
      /\ Append(b, "QUIT")[Len(b) + 1] = "QUIT"
  OBVIOUS
<1>2. /\ \A k \in DOMAIN b : k \in DOMAIN Append(b, "QUIT") /\ Append(b, "QUIT")[k] = b[k]
      /\ \A k \in DOMAIN Append(b, "QUIT") : k \in DOMAIN b \/ k = Len(b) + 1
      /\ Len(b) + 1 \in DOMAIN Append(b, "QUIT")
  BY <1>1
<1>3. QED
  BY <1>1, <1>2, Zenon

LEMMA OnClosingOps ==
  ASSUME TypeOK, NEW s \in SessionIds, SessionInv(s), OnClosing(s)
  PROVE  SessionInv(s)'
<1>1. Serve(s, "closing") /\ Rest(s) \in Seq(Handlers)
  BY ServeType DEF OnClosing
<1>2. /\ strand'[s] = Rest(s) \o AbortedOps(s) /\ ~reading'[s] /\ inFlight'[s] = << >>
      /\ s \notin registry' /\ inbox'[s] = Append(inbox[s], "QUIT")
      /\ UNCHANGED <<acceptAt, nextSessionId, closed, sending, isWriting>>
  BY DEF OnClosing, TypeOK, acceptVars, sendVars
<1>3. "closing" \notin ReadNames /\ "closing" \notin WriteNames
  BY DEF ReadNames, WriteNames
<1>4. \A N : /\ NoneOf(Rest(s), N) /\ NoneOf(AbortedOps(s), N) => NoneOf(strand'[s], N)
             /\ NoneOf(strand'[s], N) => NoneOf(Rest(s), N) /\ NoneOf(AbortedOps(s), N)
             /\ AtMostOneOf(Rest(s), N) /\ NoneOf(AbortedOps(s), N) => AtMostOneOf(strand'[s], N)
             /\ NoneOf(Rest(s), N) /\ AtMostOneOf(AbortedOps(s), N) => AtMostOneOf(strand'[s], N)
  BY <1>1, <1>2, AbortedType, ConcatOf
<1>5. WriteInv(s)'
  <2>1. CASE inFlight[s] = << >>
    <3>1. NoneOf(AbortedOps(s), WriteNames)
      BY <2>1, AbortedType
    <3>2. QED
      BY <1>1, <1>2, <1>3, <1>4, <2>1, <3>1, Served DEF SessionInv, WriteInv
  <2>2. CASE inFlight[s] # << >>
    <3>1. Len(inFlight[s]) = 1 /\ NoneOf(Rest(s), WriteNames) /\ isWriting[s]
      BY <1>1, <1>3, <2>2, Served DEF SessionInv, WriteInv
    <3>2. AtMostOneOf(AbortedOps(s), WriteNames) /\ ~NoneOf(AbortedOps(s), WriteNames)
      BY <3>1, AbortedType
    <3>3. QED
      BY <1>2, <1>4, <3>1, <3>2 DEF WriteInv
  <2>3. QED
    BY <2>1, <2>2
<1>6. ReadInv(s)'
  <2>1. CASE ~reading[s]
    <3>1. NoneOf(AbortedOps(s), ReadNames)
      BY <2>1, AbortedType
    <3>2. QED
      BY <1>1, <1>2, <1>4, <3>1, Served DEF ReadInv
  <2>2. CASE reading[s]
    <3>1. NoneOf(Rest(s), ReadNames) /\ AtMostOneOf(AbortedOps(s), ReadNames)
      BY <1>1, <1>3, <2>2, Served, AbortedType DEF SessionInv, ReadInv
    <3>2. QED
      BY <1>2, <1>4, <3>1 DEF ReadInv
  <2>3. QED
    BY <2>1, <2>2
<1>7. CloseInv(s)'
  <2>1. NoneOf(AbortedOps(s), {"closing"})
    BY AbortedType DEF NoneOf
  <2>2. NoneOf(strand'[s], {"closing"}) /\ closed[s] /\ Quits(s) = {}
    BY <1>1, <1>4, <2>1, Served
  <2>3. AtMostOneOf(strand'[s], {"closing"})
    BY <2>2, NoneIsAtMostOne
  <2>4. Quits(s)' = {Len(inbox[s]) + 1}
    <3>1. inbox[s] \in Seq(Frames \cup {"QUIT"})
      BY DEF TypeOK
    <3>2. Quits(s)' = Quits(s) \cup {Len(inbox[s]) + 1}
      BY <1>2, <3>1, QuitsAppend DEF Quits
    <3>3. QED
      BY <2>2, <3>2
  <2>5. QED
    BY <1>2, <2>2, <2>3, <2>4 DEF CloseInv
<1>8. AcceptInv(s)'
  <2>1. ~Unshared(s)'
    BY <1>1, <1>2, Served DEF Unshared, Accepted
  <2>2. acceptAt = "start" /\ s = Accepted => NoneOf(strand'[s], ReadNames)
    <3>1. HAVE acceptAt = "start" /\ s = Accepted
    <3>2. ~reading[s] /\ NoneOf(strand[s], ReadNames)
      BY <3>1 DEF SessionInv, AcceptInv
    <3>3. NoneOf(Rest(s), ReadNames) /\ NoneOf(AbortedOps(s), ReadNames)
      BY <1>1, <1>3, <3>2, Served, AbortedType
    <3>4. QED
      BY <1>4, <3>3
  <2>3. QED
    BY <1>2, <2>1, <2>2 DEF AcceptInv, Accepted
<1>9. QED
  BY <1>5, <1>6, <1>7, <1>8 DEF SessionInv


\* The steps of TcpServer: it hands a session on only once it is in the registry.
LEMMA ServerOps ==
  ASSUME OpsInv, ServerNext, NEW s \in SessionIds
  PROVE  SessionInv(s)'
<1> USE DEF AcceptStep, readVars, writeVars, sendVars
<1>0. /\ TypeOK /\ AcceptedKnown /\ SessionInv(s) /\ s \in Nat /\ nextSessionId \in Nat
      /\ UNCHANGED <<isWriting, inFlight, reading, sending>>
  <2>1. TypeOK /\ AcceptedKnown /\ SessionInv(s)
    BY Zenon DEF OpsInv
  <2>2. s \in Nat /\ nextSessionId \in Nat
    BY <2>1, SessionAssumption DEF TypeOK, SessionIds
  <2>3. UNCHANGED <<isWriting, inFlight, reading, sending>>
    BY DEF ServerNext, ServerStart, ServerStop, ClientConnects, AcceptFails, AcceptHandler,
           AcceptAborted, AcceptAgain, DoAccept, CreateSession, AddSession, StartSession,
           PublishConnected
  <2>4. QED
    BY <2>1, <2>2, <2>3
<1>1. ASSUME UNCHANGED <<registry, closed, strand, inbox>>,
             Unshared(s)' => Unshared(s),
             acceptAt' # "start"
      PROVE  SessionInv(s)'
  <2>1. Quits(s)' = Quits(s)
    BY <1>1 DEF Quits
  <2>2. WriteInv(s)' /\ ReadInv(s)' /\ CloseInv(s)'
    BY <1>0, <1>1, <2>1 DEF SessionInv, WriteInv, ReadInv, CloseInv
  <2>3. AcceptInv(s)'
    BY <1>0, <1>1, <2>1 DEF SessionInv, AcceptInv
  <2>4. QED
    BY <2>2, <2>3 DEF SessionInv
<1>2. CASE ServerStart \/ AcceptFails \/ ClientConnects \/ AcceptAborted \/ AcceptAgain \/ DoAccept
           \/ PublishConnected
  <2>1. UNCHANGED <<registry, closed, strand, inbox, nextSessionId>> /\ acceptAt' \notin {"start", "add"}
    BY <1>2 DEF ServerStart, AcceptFails, ClientConnects, AcceptAborted, AcceptAgain, DoAccept,
                PublishConnected, Accepting
  <2>2. QED
    BY <1>1, <2>1 DEF Unshared, Accepted
<1>3. CASE ServerStop
  <2>1. UNCHANGED <<registry, closed, strand, inbox, nextSessionId>>
    BY <1>3 DEF ServerStop
  <2>2. CASE acceptAt' # "start"
    BY <1>1, <1>3, <2>1, <2>2 DEF ServerStop, Unshared, Accepted
  <2>3. CASE acceptAt' = "start"
    <3>1. acceptAt' = acceptAt
      BY <1>3, <2>3 DEF ServerStop
    <3>2. Quits(s)' = Quits(s)
      BY <2>1 DEF Quits
    <3>3. WriteInv(s)' /\ ReadInv(s)' /\ CloseInv(s)'
      BY <1>0, <2>1, <3>2 DEF SessionInv, WriteInv, ReadInv, CloseInv
    <3>4. AcceptInv(s)'
      BY <1>0, <2>1, <3>1, <3>2 DEF SessionInv, AcceptInv, Unshared, Accepted
    <3>5. QED
      BY <3>3, <3>4 DEF SessionInv
  <2>4. QED
    BY <2>2, <2>3
<1>4. CASE CreateSession
  <2>1. /\ acceptAt' = "add" /\ nextSessionId' = nextSessionId + 1
        /\ UNCHANGED <<registry, closed, strand, inbox>>
    BY <1>4 DEF CreateSession
  <2>2. Unshared(s)' => Unshared(s)
    BY <1>0, <2>1 DEF Unshared, Accepted
  <2>3. QED
    BY <1>1, <2>1, <2>2
<1>5. CASE AddSession
  <2>1. /\ acceptAt = "add" /\ acceptAt' = "start" /\ registry' = registry \cup {Accepted}
        /\ UNCHANGED <<nextSessionId, closed, strand, inbox>>
    BY <1>5 DEF AddSession
  <2>2. Quits(s)' = Quits(s) /\ (Unshared(s)' => Unshared(s) /\ s # Accepted)
    BY <1>0, <2>1 DEF Quits, Unshared, Accepted
  <2>3. s = Accepted => /\ Quits(s) = {} /\ ~reading[s] /\ strand[s] = << >>
    BY <1>0, <2>1 DEF SessionInv, AcceptInv, Unshared
  <2>4. s = Accepted => NoneOf(strand[s], ReadNames)
    BY <2>3, EmptyOf
  <2>5. WriteInv(s)' /\ ReadInv(s)'
    BY <1>0, <2>1 DEF SessionInv, WriteInv, ReadInv
  <2>6. CloseInv(s)'
    BY <1>0, <2>1, <2>2, <2>3 DEF SessionInv, CloseInv
  <2>7. AcceptInv(s)'
    BY <1>0, <2>1, <2>2, <2>3, <2>4 DEF SessionInv, AcceptInv, Accepted
  <2>8. QED
    BY <2>5, <2>6, <2>7 DEF SessionInv
<1>6. CASE StartSession
  <2>1. /\ acceptAt = "start" /\ acceptAt' = "publish"
        /\ UNCHANGED <<nextSessionId, closed, registry, inbox>>
    BY <1>6 DEF StartSession
  <2>2. Quits(s)' = Quits(s) /\ (Unshared(s)' => Unshared(s) /\ s # Accepted)
    BY <1>0, <2>1 DEF Quits, Unshared, Accepted
  <2>3. CASE strand'[s] = strand[s]
    <3>1. WriteInv(s)' /\ ReadInv(s)' /\ CloseInv(s)'
      BY <1>0, <2>1, <2>2, <2>3 DEF SessionInv, WriteInv, ReadInv, CloseInv
    <3>2. AcceptInv(s)'
      BY <1>0, <2>1, <2>2, <2>3 DEF SessionInv, AcceptInv
    <3>3. QED
      BY <3>1, <3>2 DEF SessionInv
  <2>4. CASE s = Accepted /\ strand'[s] = Append(strand[s], Handler("doRead"))
    <3>1. /\ strand[s] \in Seq(Handlers) /\ Handler("doRead") \in Handlers
          /\ Handler("doRead").h = "doRead"
      BY <1>0, HandlerTypes DEF TypeOK, HandlerNames
    <3>2. "doRead" \notin WriteNames /\ "doRead" \notin {"closing"} /\ "doRead" \in ReadNames
      BY DEF WriteNames, ReadNames
    <3>3. ~reading[s] /\ NoneOf(strand[s], ReadNames)
      BY <1>0, <2>1, <2>4 DEF SessionInv, AcceptInv
    <3>4. WriteInv(s)'
      BY <1>0, <2>1, <2>4, <3>1, <3>2, Posted DEF SessionInv, WriteInv
    <3>5. ReadInv(s)'
      BY <1>0, <2>1, <2>4, <3>1, <3>2, <3>3, Posted DEF SessionInv, ReadInv
    <3>6. CloseInv(s)'
      BY <1>0, <2>1, <2>2, <2>4, <3>1, <3>2, Posted DEF SessionInv, CloseInv
    <3>7. AcceptInv(s)'
      BY <1>0, <2>1, <2>2, <2>4 DEF SessionInv, AcceptInv
    <3>8. QED
      BY <3>4, <3>5, <3>6, <3>7 DEF SessionInv
  <2>5. QED
    BY <1>0, <1>6, <2>3, <2>4 DEF StartSession, TypeOK
<1>7. QED
  BY <1>2, <1>3, <1>4, <1>5, <1>6 DEF ServerNext, AcceptHandler

LEMMA SessionStepOps ==
  ASSUME TypeOK, NEW s \in SessionIds, SessionInv(s), SessionNext(s)
  PROVE  SessionInv(s)'
<1>1. CASE PeerBreaks(s)
  <2>1. SameFor(s)
    BY <1>1 DEF PeerBreaks, SameFor, readVars, writeVars, sendVars
  <2>2. QED
    BY <2>1, SameKeeps
<1>2. QED
  BY <1>1, PostSendOps, ReadOps, WriteOps, DoReadOps, OnReadOps, OnReadErrorOps, OnSendOps, OnWrittenOps,
     OnWriteErrorOps, OnClosingOps, Zenon DEF SessionNext, StrandStep

\* The world's thread looks sessions up: it knows those of the registry.
LEMMA SendPacketSame ==
  ASSUME NEW t \in SessionIds, NEW targets \in SUBSET registry, SendPacket(targets)
  PROVE  SameFor(t)
  BY DEF SendPacket, SameFor, readVars, writeVars

LEMMA OpsInit == Init => OpsInv
<1> SUFFICES ASSUME Init PROVE OpsInv
  OBVIOUS
<1>1. TypeOK /\ AcceptedKnown
  BY TypeInit
<1>2. ASSUME NEW s \in SessionIds
      PROVE  SessionInv(s)
  <2>1. /\ strand[s] = << >> /\ inFlight[s] = << >> /\ ~isWriting[s] /\ ~reading[s]
        /\ inbox[s] = << >> /\ registry = {} /\ sending.to = {} /\ acceptAt = "none"
    BY DEF Init
  <2>2. Quits(s) = {}
    BY <2>1 DEF Quits
  <2>3. QED
    BY <2>1, <2>2, EmptyOf DEF SessionInv, WriteInv, ReadInv, CloseInv, AcceptInv
<1>3. QED
  BY <1>1, <1>2, Zenon DEF OpsInv

LEMMA OpsNext == OpsInv /\ [Next]_vars => OpsInv'
<1> SUFFICES ASSUME OpsInv, [Next]_vars
             PROVE  OpsInv'
  BY Zenon
<1>1. TypeOK /\ AcceptedKnown /\ (TypeOK /\ AcceptedKnown)'
  BY TypeNext, Zenon DEF OpsInv
<1>2. ASSUME NEW t \in SessionIds
      PROVE  SessionInv(t)'
  <2>1. SessionInv(t)
    BY Zenon DEF OpsInv
  <2>2. CASE ServerNext
    BY <2>2, ServerOps
  <2>3. CASE Broadcast \/ SendTo
    <3>1. SameFor(t)
      BY <2>3, SendPacketSame DEF Broadcast, SendTo
    <3>2. QED
      BY <2>1, <3>1, SameKeeps
  <2>4. ASSUME NEW s \in SessionIds, SessionNext(s)
        PROVE  SessionInv(t)'
    <3>1. CASE t = s
      BY <1>1, <2>1, <2>4, <3>1, SessionStepOps
    <3>2. CASE t # s
      BY <1>1, <2>1, <2>4, <3>2, OthersSame, SameKeeps
    <3>3. QED
      BY <3>1, <3>2
  <2>5. CASE UNCHANGED vars
    <3>1. SameFor(t)
      BY <2>5 DEF vars, SameFor, acceptVars, readVars, writeVars, sendVars
    <3>2. QED
      BY <2>1, <3>1, SameKeeps
  <2>6. QED
    BY <2>2, <2>3, <2>4, <2>5, Zenon DEF Next, ServerNext, SessionNext
<1>3. SessionIds' = SessionIds
  BY DEF SessionIds
<1>4. QED
  BY <1>1, <1>2, <1>3, Zenon DEF OpsInv


-----------------------------------------------------------------------------
(* Theorems about the operations of a session *)

\* The life of every session, from accept to its QUIT.
THEOREM OpsCorrect == Spec => []OpsInv
  BY OpsInit, OpsNext, PTL DEF Spec

\* How many handlers of a kind a strand with at most one of them has.
LEMMA CountOf ==
  ASSUME NEW q \in Seq(Handlers), NEW N, AtMostOneOf(q, N)
  PROVE  Cardinality({k \in DOMAIN q : q[k].h \in N}) = IF NoneOf(q, N) THEN 0 ELSE 1
<1> DEFINE T == {k \in DOMAIN q : q[k].h \in N}
<1>1. CASE NoneOf(q, N)
  <2>1. T = {}
    BY <1>1, Zenon DEF NoneOf
  <2>2. QED
    BY <1>1, <2>1, FS_EmptySet
<1>2. CASE ~NoneOf(q, N)
  <2>1. PICK k \in DOMAIN q : q[k].h \in N
    BY <1>2, Zenon DEF NoneOf
  <2>2. T = {k}
    BY <2>1, Zenon DEF AtMostOneOf
  <2>3. QED
    BY <1>2, <2>2, FS_Singleton
<1>3. QED
  BY <1>1, <1>2

\* Each socket has at most one read and one write under way, completions on the
\* strand included, and is_writing_ tells whether there is a write, for any
\* number of sessions, packets and reads.
THEOREM OneOperationCorrect == Spec => []OneOperationAtATime
<1>1. OpsInv => OneOperationAtATime
  <2> SUFFICES ASSUME OpsInv, NEW s \in SessionIds
               PROVE  /\ Len(inFlight[s]) + Cardinality(Queued(s, "writeOk") \cup Queued(s, "writeErr"))
                           = (IF isWriting[s] THEN 1 ELSE 0)
                      /\ Cardinality(Queued(s, "readOk") \cup Queued(s, "readErr") \cup Queued(s, "doRead"))
                           + (IF reading[s] THEN 1 ELSE 0) <= 1
    BY Zenon DEF OneOperationAtATime
  <2>1. SessionInv(s) /\ strand[s] \in Seq(Handlers) /\ inFlight[s] \in Seq(Nat)
    BY DEF OpsInv, TypeOK
  <2>2. Queued(s, "writeOk") \cup Queued(s, "writeErr") = {k \in DOMAIN strand[s] : strand[s][k].h \in WriteNames}
    BY DEF Queued, WriteNames
  <2>3. Queued(s, "readOk") \cup Queued(s, "readErr") \cup Queued(s, "doRead")
          = {k \in DOMAIN strand[s] : strand[s][k].h \in ReadNames}
    BY DEF Queued, ReadNames
  <2>4. /\ Cardinality(Queued(s, "writeOk") \cup Queued(s, "writeErr")) = IF NoneOf(strand[s], WriteNames) THEN 0 ELSE 1
        /\ AtMostOneOf(strand[s], WriteNames)
    BY <2>1, <2>2, CountOf DEF SessionInv, WriteInv
  <2>5. Cardinality(Queued(s, "readOk") \cup Queued(s, "readErr") \cup Queued(s, "doRead"))
          = IF NoneOf(strand[s], ReadNames) THEN 0 ELSE 1
    BY <2>1, <2>3, CountOf DEF SessionInv, ReadInv
  <2>6. inFlight[s] = << >> => Len(inFlight[s]) = 0
    OBVIOUS
  <2> DEFINE w == Cardinality(Queued(s, "writeOk") \cup Queued(s, "writeErr"))
             r == Cardinality(Queued(s, "readOk") \cup Queued(s, "readErr") \cup Queued(s, "doRead"))
  <2> HIDE DEF w, r
  <2>7. /\ w = IF NoneOf(strand[s], WriteNames) THEN 0 ELSE 1
        /\ r = IF NoneOf(strand[s], ReadNames) THEN 0 ELSE 1
    BY <2>4, <2>5 DEF w, r
  <2>8. Len(inFlight[s]) + w = IF isWriting[s] THEN 1 ELSE 0
    <3>1. CASE inFlight[s] = << >>
      BY <2>1, <2>6, <2>7, <3>1 DEF SessionInv, WriteInv
    <3>2. CASE inFlight[s] # << >>
      <4>1. Len(inFlight[s]) = 1 /\ w = 0 /\ isWriting[s]
        BY <2>1, <2>7, <3>2 DEF SessionInv, WriteInv
      <4>2. QED
        BY <4>1
    <3>3. QED
      BY <3>1, <3>2
  <2>9. r + (IF reading[s] THEN 1 ELSE 0) <= 1
    BY <2>1, <2>7 DEF SessionInv, ReadInv
  <2>10. QED
    BY <2>8, <2>9 DEF w, r
<1>2. QED
  BY <1>1, OpsCorrect, PTL

\* A session announces its end at most once, whatever fails in whatever order, and
\* from then on the registry does not have it and never will.
THEOREM GoneOnceCorrect == Spec => []GoneOnce
<1>1. OpsInv => GoneOnce
  <2> SUFFICES ASSUME OpsInv, NEW s \in SessionIds
               PROVE  Cardinality(Quits(s)) <= 1 /\ (Quits(s) # {} => s \notin registry)
    BY Zenon DEF GoneOnce
  <2>1. CloseInv(s)
    BY DEF OpsInv, SessionInv
  <2>2. CASE Quits(s) = {}
    BY <2>2, FS_EmptySet
  <2>3. CASE Quits(s) # {}
    <3>1. PICK k : k \in Quits(s)
      BY <2>3
    <3>2. Quits(s) = {k}
      BY <2>1, <3>1 DEF CloseInv
    <3>3. Cardinality(Quits(s)) = 1
      BY <3>2, FS_Singleton
    <3>4. QED
      BY <2>1, <3>3 DEF CloseInv
  <2>4. QED
    BY <2>2, <2>3
<1>2. QED
  BY <1>1, OpsCorrect, PTL

\* A session that announced its end has no operation left that would keep it alive.
THEOREM GoneLeavesNothingCorrect == Spec => []GoneLeavesNothingPending
<1>1. OpsInv => GoneLeavesNothingPending
  BY DEF OpsInv, SessionInv, CloseInv, GoneLeavesNothingPending
<1>2. QED
  BY <1>1, OpsCorrect, PTL


-----------------------------------------------------------------------------
(* The order of the packets *)

\* A handler that sends nothing is posted, or served.
LEMMA InOrderPush ==
  ASSUME NEW q \in Seq(Handlers), NEW x \in Handlers, x.h # "send",
         NEW p \in Seq(Nat), NEW n \in Nat, InOrder(q, p, n)
  PROVE  InOrder(Append(q, x), p, n)
<1>1. PICK f \in [DOMAIN q -> 0 .. Len(p)] : Places(f, q, p, n)
  BY Zenon DEF InOrder
<1> DEFINE r == Append(q, x)
           g == [k \in DOMAIN r |-> IF k \in DOMAIN q THEN f[k] ELSE 0]
<1>2. /\ DOMAIN q = 1 .. Len(q) /\ Len(q) \in Nat /\ DOMAIN r = 1 .. (Len(q) + 1)
      /\ \A k \in DOMAIN q : k \in DOMAIN r /\ r[k] = q[k]
      /\ r[Len(q) + 1] = x /\ Len(p) \in Nat
  OBVIOUS
<1> HIDE DEF r
<1>3. \A k \in DOMAIN r : r[k].h = "send" => k \in DOMAIN q /\ r[k] = q[k]
  BY <1>2
<1>4. g \in [DOMAIN r -> 0 .. Len(p)] /\ \A k \in DOMAIN q : g[k] = f[k]
  BY <1>2
<1> HIDE DEF g
<1>5. \A k \in DOMAIN r : r[k].h = "send" => g[k] \in (n + 1) .. Len(p) /\ p[g[k]] = r[k].packet
  BY <1>1, <1>3, <1>4 DEF Places
<1>6. \A j, k \in DOMAIN r : r[j].h = "send" /\ r[k].h = "send" /\ j < k => g[j] < g[k]
  BY <1>1, <1>3, <1>4 DEF Places
<1>7. \A m \in (n + 1) .. Len(p) : \E k \in DOMAIN r : r[k].h = "send" /\ g[k] = m
  BY <1>1, <1>2, <1>4 DEF Places
<1>8. QED
  BY <1>4, <1>5, <1>6, <1>7, Zenon DEF InOrder, Places, r

LEMMA InOrderPop ==
  ASSUME NEW q \in Seq(Handlers), q # << >>, Head(q).h # "send",
         NEW p \in Seq(Nat), NEW n \in Nat, InOrder(q, p, n)
  PROVE  InOrder(Tail(q), p, n)
<1>1. PICK f \in [DOMAIN q -> 0 .. Len(p)] : Places(f, q, p, n)
  BY Zenon DEF InOrder
<1> DEFINE r == Tail(q)
           g == [k \in DOMAIN r |-> f[k + 1]]
<1>2. /\ DOMAIN q = 1 .. Len(q) /\ Len(q) \in Nat /\ DOMAIN r = 1 .. (Len(q) - 1)
      /\ \A k \in DOMAIN r : k \in Int /\ k + 1 \in DOMAIN q /\ r[k] = q[k + 1]
      /\ \A k \in DOMAIN q : k = 1 \/ (k - 1 \in DOMAIN r /\ r[k - 1] = q[k])
      /\ q[1] = Head(q)
  OBVIOUS
<1> HIDE DEF r
<1>3. /\ g \in [DOMAIN r -> 0 .. Len(p)] /\ \A k \in DOMAIN r : g[k] = f[k + 1]
      /\ \A k \in DOMAIN q : k = 1 \/ g[k - 1] = f[k]
  BY <1>2
<1> HIDE DEF g
<1>4. \A j, k \in DOMAIN r : j < k => j + 1 < k + 1
  BY <1>2
<1>5. \A k \in DOMAIN r : r[k].h = "send" => g[k] \in (n + 1) .. Len(p) /\ p[g[k]] = r[k].packet
  BY <1>1, <1>2, <1>3 DEF Places
<1>6. \A j, k \in DOMAIN r : r[j].h = "send" /\ r[k].h = "send" /\ j < k => g[j] < g[k]
  <2>1. TAKE j, k \in DOMAIN r
  <2>2. HAVE r[j].h = "send" /\ r[k].h = "send" /\ j < k
  <2>3. /\ j + 1 \in DOMAIN q /\ k + 1 \in DOMAIN q /\ j + 1 < k + 1
        /\ q[j + 1].h = "send" /\ q[k + 1].h = "send"
    BY <1>2, <1>4, <2>2
  <2>4. f[j + 1] < f[k + 1]
    BY <1>1, <2>3, Zenon DEF Places
  <2>5. QED
    BY <1>3, <2>4
<1>7. \A m \in (n + 1) .. Len(p) : \E k \in DOMAIN r : r[k].h = "send" /\ g[k] = m
  <2>1. TAKE m \in (n + 1) .. Len(p)
  <2>2. PICK k \in DOMAIN q : q[k].h = "send" /\ f[k] = m
    BY <1>1 DEF Places
  <2>3. k # 1
    BY <1>2, <2>2
  <2>4. QED
    BY <1>2, <1>3, <2>2, <2>3, Zenon
<1>8. QED
  BY <1>3, <1>5, <1>6, <1>7, Zenon DEF InOrder, Places, r

\* The first send() lambda has the first of the packets that are still to be queued.
LEMMA InOrderTake ==
  ASSUME NEW q \in Seq(Handlers), q # << >>, Head(q).h = "send",
         NEW p \in Seq(Nat), NEW n \in Nat, InOrder(q, p, n)
  PROVE  n + 1 <= Len(p) /\ p[n + 1] = Head(q).packet /\ InOrder(Tail(q), p, n + 1)
<1>1. PICK f \in [DOMAIN q -> 0 .. Len(p)] : Places(f, q, p, n)
  BY Zenon DEF InOrder
<1> DEFINE r == Tail(q)
           g == [k \in DOMAIN r |-> f[k + 1]]
<1>2. /\ DOMAIN q = 1 .. Len(q) /\ Len(q) \in Nat /\ DOMAIN r = 1 .. (Len(q) - 1)
      /\ \A k \in DOMAIN r : k \in Int /\ k + 1 \in DOMAIN q /\ r[k] = q[k + 1]
      /\ \A k \in DOMAIN q : k \in Int /\ (k = 1 \/ (k - 1 \in DOMAIN r /\ r[k - 1] = q[k] /\ 1 < k))
      /\ q[1] = Head(q) /\ Len(p) \in Nat /\ 1 \in DOMAIN q
  OBVIOUS
<1> HIDE DEF r
<1>3. /\ g \in [DOMAIN r -> 0 .. Len(p)] /\ \A k \in DOMAIN r : g[k] = f[k + 1]
      /\ \A k \in DOMAIN q : k = 1 \/ g[k - 1] = f[k]
  BY <1>2
<1> HIDE DEF g
<1>4. f[1] \in (n + 1) .. Len(p) /\ p[f[1]] = Head(q).packet
  BY <1>1, <1>2 DEF Places
<1>5. f[1] = n + 1
  <2>1. n + 1 \in (n + 1) .. Len(p)
    BY <1>2, <1>4
  <2>2. PICK k \in DOMAIN q : q[k].h = "send" /\ f[k] = n + 1
    BY <1>1, <2>1 DEF Places
  <2>3. k # 1 => f[1] < f[k]
    BY <1>1, <1>2, <2>2 DEF Places
  <2>4. QED
    BY <1>2, <1>4, <2>2, <2>3
<1>6. \A j, k \in DOMAIN r : j < k => j + 1 < k + 1
  BY <1>2
<1>7. \A k \in DOMAIN r : r[k].h = "send" => g[k] \in (n + 1 + 1) .. Len(p) /\ p[g[k]] = r[k].packet
  <2>1. TAKE k \in DOMAIN r
  <2>2. HAVE r[k].h = "send"
  <2>3. g[k] \in (n + 1) .. Len(p) /\ p[g[k]] = r[k].packet
    BY <1>1, <1>2, <1>3, <2>2 DEF Places
  <2>4. 1 < k + 1 /\ k + 1 \in DOMAIN q /\ q[k + 1].h = "send" /\ q[1].h = "send"
    BY <1>2, <2>2
  <2>5. f[1] < f[k + 1]
    BY <1>1, <1>2, <2>4 DEF Places
  <2>6. QED
    BY <1>3, <1>5, <2>3, <2>5
<1>8. \A j, k \in DOMAIN r : r[j].h = "send" /\ r[k].h = "send" /\ j < k => g[j] < g[k]
  <2>1. TAKE j, k \in DOMAIN r
  <2>2. HAVE r[j].h = "send" /\ r[k].h = "send" /\ j < k
  <2>3. /\ j + 1 \in DOMAIN q /\ k + 1 \in DOMAIN q /\ j + 1 < k + 1
        /\ q[j + 1].h = "send" /\ q[k + 1].h = "send"
    BY <1>2, <1>6, <2>2
  <2>4. f[j + 1] < f[k + 1]
    BY <1>1, <2>3, Zenon DEF Places
  <2>5. QED
    BY <1>3, <2>4
<1>9. \A m \in (n + 1 + 1) .. Len(p) : \E k \in DOMAIN r : r[k].h = "send" /\ g[k] = m
  <2>1. TAKE m \in (n + 1 + 1) .. Len(p)
  <2>2. m \in (n + 1) .. Len(p) /\ m # n + 1
    BY <1>2
  <2>3. PICK k \in DOMAIN q : q[k].h = "send" /\ f[k] = m
    BY <1>1, <2>2 DEF Places
  <2>4. k # 1
    BY <1>5, <2>2, <2>3
  <2>5. QED
    BY <1>2, <1>3, <2>3, <2>4, Zenon
<1>10. InOrder(r, p, n + 1)
  BY <1>3, <1>7, <1>8, <1>9, Zenon DEF InOrder, Places
<1>11. QED
  BY <1>2, <1>4, <1>5, <1>10 DEF r

LEMMA ConcatAt ==
  ASSUME NEW S, NEW q \in Seq(S), NEW z \in Seq(S)
  PROVE  /\ DOMAIN (q \o z) = 1 .. (Len(q) + Len(z))
         /\ \A k \in 1 .. (Len(q) + Len(z)) :
              (q \o z)[k] = IF k <= Len(q) THEN q[k] ELSE z[k - Len(q)]
  OBVIOUS

\* Packets handed to send(): one lambda for each, in their order.
LEMMA InOrderSends ==
  ASSUME NEW q \in Seq(Handlers), NEW z \in Seq(Handlers),
         NEW p \in Seq(Nat), NEW a \in Seq(Nat), Len(z) = Len(a),
         \A k \in DOMAIN z : z[k].h = "send" /\ z[k].packet = a[k],
         NEW n \in Nat, n <= Len(p), InOrder(q, p, n)
  PROVE  InOrder(q \o z, p \o a, n)
<1>1. PICK f \in [DOMAIN q -> 0 .. Len(p)] : Places(f, q, p, n)
  BY Zenon DEF InOrder
<1> DEFINE r == q \o z
           t == p \o a
           g == [k \in DOMAIN r |-> IF k \in DOMAIN q THEN f[k] ELSE Len(p) + (k - Len(q))]
<1>2. /\ DOMAIN q = 1 .. Len(q) /\ Len(q) \in Nat /\ Len(a) \in Nat /\ Len(p) \in Nat
      /\ DOMAIN z = 1 .. Len(a) /\ DOMAIN r = 1 .. (Len(q) + Len(a))
      /\ \A k \in 1 .. Len(q) : r[k] = q[k]
      /\ \A k \in 1 .. Len(a) : r[Len(q) + k] = z[k]
  <2>1. /\ DOMAIN q = 1 .. Len(q) /\ Len(q) \in Nat /\ Len(a) \in Nat /\ Len(p) \in Nat
        /\ DOMAIN z = 1 .. Len(z)
    OBVIOUS
  <2>2. /\ DOMAIN r = 1 .. (Len(q) + Len(z))
        /\ \A k \in 1 .. (Len(q) + Len(z)) : r[k] = IF k <= Len(q) THEN q[k] ELSE z[k - Len(q)]
    BY ConcatAt
  <2> HIDE DEF r
  <2>3. \A k \in 1 .. Len(a) : r[Len(q) + k] = z[k]
    <3>1. TAKE k \in 1 .. Len(a)
    <3>2. /\ Len(q) + k \in 1 .. (Len(q) + Len(z)) /\ ~(Len(q) + k <= Len(q))
          /\ (Len(q) + k) - Len(q) = k
      BY <2>1
    <3>3. QED
      BY <2>2, <3>2
  <2>4. \A k \in 1 .. Len(q) : r[k] = q[k]
    BY <2>1, <2>2
  <2>5. QED
    BY <2>1, <2>2, <2>3, <2>4
<1>3. /\ Len(t) = Len(p) + Len(a)
      /\ \A k \in 1 .. Len(p) : t[k] = p[k]
      /\ \A k \in 1 .. Len(a) : t[Len(p) + k] = a[k]
  OBVIOUS
<1> HIDE DEF r, t
<1>4. \A k \in DOMAIN r : k \in Int /\ (k \in DOMAIN q \/ (k - Len(q) \in 1 .. Len(a) /\ k = Len(q) + (k - Len(q)) /\ k > Len(q)))
  BY <1>2
<1>5. /\ g \in [DOMAIN r -> 0 .. Len(t)]
      /\ \A k \in DOMAIN q : g[k] = f[k] /\ f[k] \in 0 .. Len(p) /\ k \in DOMAIN r
      /\ \A k \in 1 .. Len(a) : Len(q) + k \in DOMAIN r /\ g[Len(q) + k] = Len(p) + k
  <2>1. /\ \A k \in DOMAIN q : g[k] = f[k] /\ f[k] \in 0 .. Len(p) /\ k \in DOMAIN r
        /\ \A k \in 1 .. Len(a) : Len(q) + k \in DOMAIN r /\ g[Len(q) + k] = Len(p) + k
    BY <1>2
  <2>2. \A k \in DOMAIN r : g[k] \in 0 .. Len(t)
    BY <1>2, <1>3, <1>4
  <2>3. QED
    BY <2>1, <2>2
<1> HIDE DEF g
<1>6. \A k \in DOMAIN r : r[k].h = "send" => g[k] \in (n + 1) .. Len(t) /\ t[g[k]] = r[k].packet
  <2>1. TAKE k \in DOMAIN r
  <2>2. HAVE r[k].h = "send"
  <2>3. CASE k \in DOMAIN q
    <3>1. f[k] \in (n + 1) .. Len(p) /\ p[f[k]] = q[k].packet
      BY <1>1, <1>2, <2>2, <2>3 DEF Places
    <3>2. QED
      BY <1>2, <1>3, <1>5, <2>3, <3>1
  <2>4. CASE k \notin DOMAIN q
    <3>1. PICK j \in 1 .. Len(a) : k = Len(q) + j
      BY <1>4, <2>4
    <3>2. r[k].packet = a[j] /\ g[k] = Len(p) + j /\ t[Len(p) + j] = a[j]
      BY <1>2, <1>3, <1>5, <3>1
    <3>3. QED
      BY <1>2, <1>3, <3>2
  <2>5. QED
    BY <2>3, <2>4
<1>7. \A j, k \in DOMAIN r : r[j].h = "send" /\ r[k].h = "send" /\ j < k => g[j] < g[k]
  <2>1. TAKE j, k \in DOMAIN r
  <2>2. HAVE r[j].h = "send" /\ r[k].h = "send" /\ j < k
  <2>3. CASE k \in DOMAIN q
    <3>1. j \in DOMAIN q /\ q[j].h = "send" /\ q[k].h = "send"
      BY <1>2, <1>4, <2>2, <2>3
    <3>2. f[j] < f[k]
      BY <1>1, <2>2, <2>3, <3>1 DEF Places
    <3>3. QED
      BY <1>5, <2>3, <3>1, <3>2
  <2>4. CASE k \notin DOMAIN q
    <3>1. PICK i \in 1 .. Len(a) : k = Len(q) + i
      BY <1>4, <2>4
    <3>2. CASE j \in DOMAIN q
      BY <1>2, <1>5, <3>1, <3>2
    <3>3. CASE j \notin DOMAIN q
      <4>1. PICK l \in 1 .. Len(a) : j = Len(q) + l
        BY <1>4, <3>3
      <4>2. QED
        BY <1>2, <1>5, <2>2, <3>1, <4>1
    <3>4. QED
      BY <3>2, <3>3
  <2>5. QED
    BY <2>3, <2>4
<1>8. \A m \in (n + 1) .. Len(t) : \E k \in DOMAIN r : r[k].h = "send" /\ g[k] = m
  <2>1. TAKE m \in (n + 1) .. Len(t)
  <2>2. CASE m <= Len(p)
    <3>1. m \in (n + 1) .. Len(p)
      BY <1>2, <2>2
    <3>2. PICK k \in DOMAIN q : q[k].h = "send" /\ f[k] = m
      BY <1>1, <3>1 DEF Places
    <3>3. QED
      BY <1>2, <1>5, <3>2
  <2>3. CASE ~(m <= Len(p))
    <3>1. m - Len(p) \in 1 .. Len(a) /\ m = Len(p) + (m - Len(p))
      BY <1>2, <1>3, <2>3
    <3>2. PICK j \in 1 .. Len(a) : m = Len(p) + j
      BY <3>1
    <3>3. r[Len(q) + j].h = "send" /\ g[Len(q) + j] = m /\ Len(q) + j \in DOMAIN r
      <4>1. z[j].h = "send" /\ r[Len(q) + j] = z[j]
        BY <1>2
      <4>2. QED
        BY <1>5, <3>2, <4>1
    <3>4. QED
      BY <3>3
  <2>4. QED
    BY <2>2, <2>3
<1>9. QED
  BY <1>5, <1>6, <1>7, <1>8, Zenon DEF InOrder, Places, r, t


\* The sequences of a session.
LEMMA PacketTypes ==
  ASSUME TypeOK, NEW s \in SessionIds
  PROVE  /\ posted[s] \in Seq(Nat) /\ delivered[s] \in Seq(Nat) /\ inFlight[s] \in Seq(Nat)
         /\ writeQueue[s] \in Seq(Nat) /\ strand[s] \in Seq(Handlers)
         /\ Len(posted[s]) \in Nat /\ Len(delivered[s]) \in Nat /\ Len(inFlight[s]) \in Nat
         /\ Len(writeQueue[s]) \in Nat
         /\ DOMAIN posted[s] = 1 .. Len(posted[s]) /\ DOMAIN delivered[s] = 1 .. Len(delivered[s])
         /\ DOMAIN inFlight[s] = 1 .. Len(inFlight[s])
         /\ DOMAIN writeQueue[s] = 1 .. Len(writeQueue[s])
         /\ Started(s) \in Nat /\ Taken(s) \in Nat
<1>1. /\ posted[s] \in Seq(Nat) /\ delivered[s] \in Seq(Nat) /\ inFlight[s] \in Seq(Nat)
      /\ writeQueue[s] \in Seq(Nat) /\ strand[s] \in Seq(Handlers)
  BY DEF TypeOK
<1>2. \A z \in Seq(Nat) : Len(z) \in Nat /\ DOMAIN z = 1 .. Len(z)
  OBVIOUS
<1>3. /\ Len(posted[s]) \in Nat /\ Len(delivered[s]) \in Nat /\ Len(inFlight[s]) \in Nat
      /\ Len(writeQueue[s]) \in Nat
      /\ DOMAIN posted[s] = 1 .. Len(posted[s]) /\ DOMAIN delivered[s] = 1 .. Len(delivered[s])
      /\ DOMAIN inFlight[s] = 1 .. Len(inFlight[s])
      /\ DOMAIN writeQueue[s] = 1 .. Len(writeQueue[s])
  BY <1>1, <1>2, Zenon
<1>4. Started(s) \in Nat /\ Taken(s) \in Nat
  <2>1. \A a, b \in Nat : a + b \in Nat
    OBVIOUS
  <2>2. QED
    BY <1>3, <2>1, Zenon DEF Started, Taken
<1>5. QED
  BY <1>1, <1>3, <1>4, Zenon

LEMMA SamePackets ==
  ASSUME NEW t \in SessionIds, PacketInv(t), SameFor(t)
  PROVE  PacketInv(t)'
<1>1. Started(t)' = Started(t) /\ Taken(t)' = Taken(t)
  BY DEF SameFor, Started, Taken
<1>2. PrefixInv(t)'
  BY <1>1 DEF PacketInv, PrefixInv, SameFor
<1>3. QueueInv(t)'
  BY <1>1 DEF PacketInv, QueueInv, SameFor
<1>4. QED
  BY <1>2, <1>3 DEF PacketInv

\* A step that posts a handler which sends nothing.
LEMMA PushPackets ==
  ASSUME TypeOK, NEW s \in SessionIds, PacketInv(s), NEW x \in Handlers,
         x.h \notin {"send", "writeErr"}, strand'[s] = Append(strand[s], x), closed'[s] = closed[s],
         UNCHANGED <<writeQueue, inFlight, delivered, posted>>
  PROVE  PacketInv(s)'
<1>1. Started(s)' = Started(s) /\ Taken(s)' = Taken(s)
  BY DEF Started, Taken
<1>2. PrefixInv(s)'
  BY <1>1 DEF PacketInv, PrefixInv
<1>3. strand[s] \in Seq(Handlers) /\ posted[s] \in Seq(Nat) /\ Taken(s) \in Nat
  BY PacketTypes
<1>4. NoneOf(strand'[s], {"writeErr"}) <=> NoneOf(strand[s], {"writeErr"})
  BY <1>3, Posted
<1>5. InOrder(strand[s], posted[s], Taken(s)) => InOrder(strand'[s], posted[s], Taken(s))
  BY <1>3, InOrderPush
<1>6. QueueInv(s)'
  BY <1>1, <1>4, <1>5 DEF PacketInv, QueueInv
<1>7. QED
  BY <1>2, <1>6 DEF PacketInv

\* A step after which the session is closed, or a write has failed.
LEMMA EndPackets ==
  ASSUME TypeOK, NEW s \in SessionIds, PacketInv(s),
         closed'[s] \/ ~NoneOf(strand'[s], {"writeErr"}),
         inFlight'[s] = inFlight[s] \/ inFlight'[s] = << >>,
         UNCHANGED <<delivered, posted>>
  PROVE  PacketInv(s)'
<1>1. QueueInv(s)'
  BY DEF QueueInv
<1>2. PrefixInv(s)'
  <2>1. CASE inFlight'[s] = inFlight[s]
    BY <2>1 DEF PacketInv, PrefixInv, Started
  <2>2. CASE inFlight'[s] = << >>
    <3>1. Len(<< >>) = 0 /\ DOMAIN << >> = {}
      OBVIOUS
    <3>2. Started(s)' = Len(delivered[s])
      BY <2>2, <3>1, PacketTypes DEF Started
    <3>3. Len(delivered[s]) <= Len(posted[s])
      <4>1. Len(delivered[s]) + Len(inFlight[s]) <= Len(posted[s])
        BY DEF PacketInv, PrefixInv, Started
      <4>2. Len(delivered[s]) \in Nat /\ Len(inFlight[s]) \in Nat /\ Len(posted[s]) \in Nat
        BY PacketTypes
      <4>3. \A a, b, c \in Nat : a + b <= c => a <= c
        OBVIOUS
      <4>4. QED
        BY <4>1, <4>2, <4>3, Zenon
    <3>4. QED
      BY <2>2, <3>1, <3>2, <3>3 DEF PacketInv, PrefixInv
  <2>3. QED
    BY <2>1, <2>2
<1>3. QED
  BY <1>1, <1>2 DEF PacketInv

\* doWrite() with a queue that goes on where the writes are, and a strand that goes
\* on where the queue ends.
LEMMA DoWritePackets ==
  ASSUME TypeOK, NEW s \in SessionIds, NEW q \in Seq(Nat), NEW rest \in Seq(Handlers),
         inFlight[s] = << >>, PrefixInv(s), DoWrite(s, q, rest),
         ~closed[s] => /\ Started(s) + Len(q) <= Len(posted[s])
                       /\ \A k \in DOMAIN q : q[k] = posted[s][Started(s) + k]
                       /\ InOrder(rest, posted[s], Started(s) + Len(q)),
         UNCHANGED <<delivered, posted>>
  PROVE  PacketInv(s)'
<1>1. Len(inFlight[s]) = 0 /\ Started(s) = Len(delivered[s]) /\ Len(delivered[s]) \in Nat
  BY PacketTypes DEF Started
<1>2. CASE /\ closed[s] \/ q = << >>
           /\ writeQueue' = [writeQueue EXCEPT ![s] = q]
           /\ strand' = [strand EXCEPT ![s] = rest]
           /\ UNCHANGED <<closed, inFlight>>
  <2>1. writeQueue'[s] = q /\ strand'[s] = rest /\ inFlight'[s] = inFlight[s] /\ closed'[s] = closed[s]
    BY <1>2 DEF TypeOK
  <2>2. Started(s)' = Started(s) /\ Taken(s)' = Started(s) + Len(q)
    BY <2>1 DEF Started, Taken
  <2>3. PrefixInv(s)'
    BY <2>1, <2>2 DEF PrefixInv
  <2>4. QueueInv(s)'
    BY <2>1, <2>2 DEF QueueInv
  <2>5. QED
    BY <2>3, <2>4 DEF PacketInv
<1>3. CASE /\ ~closed[s] /\ q # << >>
           /\ writeQueue' = [writeQueue EXCEPT ![s] = Tail(q)]
           /\ inFlight' = [inFlight EXCEPT ![s] = Append(@, Head(q))]
           /\ strand' = [strand EXCEPT ![s] = rest]
           /\ UNCHANGED closed
  <2>1. /\ writeQueue'[s] = Tail(q) /\ strand'[s] = rest /\ inFlight'[s] = Append(<< >>, Head(q))
        /\ closed'[s] = closed[s]
    BY <1>3 DEF TypeOK
  <2>2. /\ Len(q) \in Nat /\ Len(q) # 0 /\ Head(q) = q[1] /\ 1 \in DOMAIN q
        /\ Len(Tail(q)) = Len(q) - 1 /\ DOMAIN Tail(q) = 1 .. (Len(q) - 1)
        /\ \A k \in DOMAIN Tail(q) : k \in Nat /\ k + 1 \in DOMAIN q /\ Tail(q)[k] = q[k + 1]
        /\ Head(q) \in Nat
    BY <1>3
  <2>3. /\ Len(inFlight'[s]) = 1 /\ DOMAIN inFlight'[s] = 1 .. 1 /\ inFlight'[s][1] = Head(q)
    BY <2>1, <2>2
  <2>4. Started(s)' = Started(s) + 1 /\ Taken(s)' = Started(s) + Len(q)
    BY <1>1, <2>1, <2>2, <2>3 DEF Started, Taken
  <2>5. q[1] = posted[s][Len(delivered[s]) + 1]
    BY <1>1, <1>3, <2>2
  <2>6. PrefixInv(s)'
    <3>1. Started(s)' <= Len(posted[s])
      BY <1>1, <1>3, <2>2, <2>4, PacketTypes
    <3>2. \A k \in DOMAIN inFlight'[s] : inFlight'[s][k] = posted[s][Len(delivered[s]) + k]
      BY <2>2, <2>3, <2>5
    <3>3. QED
      BY <3>1, <3>2 DEF PrefixInv
  <2>7. \A k \in DOMAIN Tail(q) : Tail(q)[k] = posted[s][(Started(s) + 1) + k]
    <3>1. TAKE k \in DOMAIN Tail(q)
    <3>2. Tail(q)[k] = posted[s][Started(s) + (k + 1)]
      BY <1>3, <2>2
    <3>3. Started(s) + (k + 1) = (Started(s) + 1) + k
      <4>1. \A a, b \in Nat : a + (b + 1) = (a + 1) + b
        OBVIOUS
      <4>2. QED
        BY <1>1, <2>2, <4>1, Zenon
    <3>4. QED
      BY <3>2, <3>3, Zenon
  <2>8. QueueInv(s)'
    BY <1>3, <2>1, <2>4, <2>7 DEF QueueInv
  <2>9. QED
    BY <2>6, <2>8 DEF PacketInv
<1>4. CASE CloseInto(s, rest) /\ UNCHANGED inFlight
  <2>1. closed'[s]
    BY <1>4, CloseType DEF TypeOK
  <2>2. PrefixInv(s)'
    BY <1>4 DEF PrefixInv, Started
  <2>3. QED
    BY <2>1, <2>2 DEF PacketInv, QueueInv
<1>5. QED
  BY <1>2, <1>3, <1>4, Zenon DEF DoWrite


\* Packets a are handed to send(), their lambdas z behind the strand q: what was
\* said of the packets sent before stays true.
LEMMA SendsPackets ==
  ASSUME TypeOK, NEW s \in SessionIds, PacketInv(s),
         NEW q \in Seq(Handlers), NEW z \in Seq(Handlers), NEW a \in Seq(Nat), Len(z) = Len(a),
         \A k \in DOMAIN z : z[k].h = "send" /\ z[k].packet = a[k],
         strand'[s] = q \o z, posted'[s] = posted[s] \o a, closed'[s] = closed[s],
         ~NoneOf(strand[s], {"writeErr"}) => ~NoneOf(q, {"writeErr"}),
         InOrder(strand[s], posted[s], Taken(s)) => InOrder(q, posted[s], Taken(s)),
         UNCHANGED <<writeQueue, inFlight, delivered>>
  PROVE  PacketInv(s)'
<1>1. Started(s)' = Started(s) /\ Taken(s)' = Taken(s)
  BY DEF Started, Taken
<1>2. /\ posted[s] \in Seq(Nat) /\ Len(posted[s]) \in Nat /\ Len(a) \in Nat
      /\ Len(posted'[s]) = Len(posted[s]) + Len(a)
      /\ \A k \in 1 .. Len(posted[s]) : posted'[s][k] = posted[s][k]
  <2>1. posted[s] \in Seq(Nat)
    BY PacketTypes
  <2> DEFINE p == posted[s]
  <2> HIDE DEF p
  <2>2. p \in Seq(Nat) /\ posted'[s] = p \o a
    BY <2>1 DEF p
  <2>3. /\ Len(p) \in Nat /\ Len(a) \in Nat /\ Len(p \o a) = Len(p) + Len(a)
        /\ \A k \in 1 .. Len(p) : (p \o a)[k] = p[k]
    BY <2>2
  <2>4. QED
    BY <2>2, <2>3 DEF p
<1>3. \A n \in Nat : n <= Len(posted[s]) => n <= Len(posted'[s])
  BY <1>2
<1>4. PrefixInv(s)'
  <2>1. /\ Started(s) <= Len(posted[s]) /\ Started(s) \in Nat
        /\ Len(delivered[s]) \in Nat /\ Len(inFlight[s]) \in Nat
        /\ DOMAIN delivered[s] = 1 .. Len(delivered[s]) /\ DOMAIN inFlight[s] = 1 .. Len(inFlight[s])
        /\ Len(delivered[s]) + Len(inFlight[s]) <= Len(posted[s])
    BY PacketTypes DEF PacketInv, PrefixInv, Started
  <2>2. \A d, i, n \in Nat : d + i <= n => /\ \A k \in 1 .. d : k \in 1 .. n
                                           /\ \A k \in 1 .. i : d + k \in 1 .. n
    OBVIOUS
  <2>3. /\ \A k \in DOMAIN delivered[s] : k \in 1 .. Len(posted[s])
        /\ \A k \in DOMAIN inFlight[s] : Len(delivered[s]) + k \in 1 .. Len(posted[s])
    BY <1>2, <2>1, <2>2, Zenon
  <2>4. QED
    BY <1>1, <1>2, <1>3, <2>1, <2>3 DEF PacketInv, PrefixInv
<1>5. QueueInv(s)'
  <2>1. SUFFICES ASSUME ~closed[s], NoneOf(q, {"writeErr"})
                 PROVE  /\ Taken(s) <= Len(posted'[s])
                        /\ \A k \in DOMAIN writeQueue[s] : writeQueue[s][k] = posted'[s][Started(s) + k]
                        /\ InOrder(strand'[s], posted'[s], Taken(s))
    <3>1. NoneOf(strand'[s], {"writeErr"}) => NoneOf(q, {"writeErr"})
      BY ConcatOf
    <3>2. QED
      BY <1>1, <3>1 DEF QueueInv
  <2>2. /\ Taken(s) <= Len(posted[s])
        /\ \A k \in DOMAIN writeQueue[s] : writeQueue[s][k] = posted[s][Started(s) + k]
        /\ InOrder(q, posted[s], Taken(s))
    BY <2>1 DEF PacketInv, QueueInv
  <2>3. /\ Taken(s) \in Nat /\ Started(s) \in Nat /\ Len(writeQueue[s]) \in Nat
        /\ Taken(s) = Started(s) + Len(writeQueue[s]) /\ DOMAIN writeQueue[s] = 1 .. Len(writeQueue[s])
    BY PacketTypes DEF Taken
  <2>4. \A d, i, n \in Nat : d + i <= n => \A k \in 1 .. i : d + k \in 1 .. n
    OBVIOUS
  <2>5. \A k \in DOMAIN writeQueue[s] : Started(s) + k \in 1 .. Len(posted[s])
    BY <1>2, <2>2, <2>3, <2>4, Zenon
  <2>6. InOrder(strand'[s], posted'[s], Taken(s))
    BY <1>2, <2>2, <2>3, InOrderSends
  <2>7. QED
    BY <1>2, <1>3, <2>2, <2>3, <2>5, <2>6
<1>6. QED
  BY <1>4, <1>5 DEF PacketInv

LEMMA PostSendPackets ==
  ASSUME TypeOK, NEW s \in SessionIds, PacketInv(s), PostSend(s)
  PROVE  PacketInv(s)'
<1> DEFINE x == SendOf(sending.packet)
<1>1. /\ strand'[s] = Append(strand[s], x) /\ posted'[s] = Append(posted[s], sending.packet)
      /\ UNCHANGED <<closed, writeQueue, inFlight, delivered>>
  BY DEF PostSend, TypeOK, writeVars
<1>2. x \in Handlers /\ x.h = "send" /\ x.packet = sending.packet /\ sending.packet \in Nat
  BY HandlerTypes DEF TypeOK
<1>3. strand[s] \in Seq(Handlers) /\ posted[s] \in Seq(Nat)
  BY PacketTypes
<1> HIDE DEF x
<1>4. <<x>> \in Seq(Handlers) /\ <<sending.packet>> \in Seq(Nat)
  BY <1>2
<1>5. Len(<<x>>) = Len(<<sending.packet>>)
  OBVIOUS
<1>6. \A k \in DOMAIN <<x>> : <<x>>[k].h = "send" /\ <<x>>[k].packet = <<sending.packet>>[k]
  BY <1>2
<1>7. \A S : \A q \in Seq(S) : \A y \in S : Append(q, y) = q \o <<y>>
  OBVIOUS
<1>8. strand'[s] = strand[s] \o <<x>> /\ posted'[s] = posted[s] \o <<sending.packet>>
  BY <1>1, <1>2, <1>3, <1>7, Zenon
<1>9. QED
  BY <1>1, <1>3, <1>4, <1>5, <1>6, <1>8, SendsPackets

LEMMA OnReadPackets ==
  ASSUME TypeOK, NEW s \in SessionIds, PacketInv(s), OnRead(s)
  PROVE  PacketInv(s)'
<1> DEFINE fs == Head(strand[s]).frames
           a  == Accepts(s, fs)
           z  == [k \in DOMAIN a |-> SendOf(a[k])]
<1>1. /\ Rest(s) \in Seq(Handlers) /\ fs \in Seq(Frames) /\ strand[s] \in Seq(Handlers)
      /\ strand[s] # << >> /\ Head(strand[s]).h = "readOk"
  BY ServeType DEF OnRead
<1>2. a \in Seq(Nat) /\ z \in Seq(Handlers) /\ Len(z) = Len(a)
  BY <1>1, AcceptsType
<1>3. strand'[s] = Rest(s) \o z /\ posted'[s] = posted[s] \o a
  BY Zenon DEF OnRead, Accepts, TypeOK
<1>4. \A k \in DOMAIN z : z[k].h = "send" /\ z[k].packet = a[k]
  <2>1. \A k \in DOMAIN a : a[k] \in Nat
    BY <1>2
  <2> HIDE DEF a
  <2>2. QED
    BY <2>1, HandlerTypes
<1> HIDE DEF fs, a, z
<1>5. UNCHANGED <<closed, writeQueue, inFlight, delivered>>
  BY DEF OnRead, writeVars
<1>6. ~NoneOf(strand[s], {"writeErr"}) => ~NoneOf(Rest(s), {"writeErr"})
  BY <1>1, TailOf DEF Rest
<1>7. posted[s] \in Seq(Nat) /\ Taken(s) \in Nat
  BY PacketTypes
<1>8. InOrder(strand[s], posted[s], Taken(s)) => InOrder(Rest(s), posted[s], Taken(s))
  BY <1>1, <1>7, InOrderPop DEF Rest
<1>9. QED
  BY <1>1, <1>2, <1>3, <1>4, <1>5, <1>6, <1>8, SendsPackets

LEMMA DoReadPackets ==
  ASSUME TypeOK, NEW s \in SessionIds, PacketInv(s), DoRead(s)
  PROVE  PacketInv(s)'
<1>1. /\ strand[s] \in Seq(Handlers) /\ strand[s] # << >> /\ Head(strand[s]).h = "doRead"
  BY ServeType DEF DoRead
<1>2. strand'[s] = Rest(s) /\ UNCHANGED <<closed, writeQueue, inFlight, delivered, posted>>
  BY DEF DoRead, TypeOK, writeVars, sendVars
<1>3. Started(s)' = Started(s) /\ Taken(s)' = Taken(s)
  BY <1>2 DEF Started, Taken
<1>4. posted[s] \in Seq(Nat) /\ Taken(s) \in Nat
  BY PacketTypes
<1>5. InOrder(strand[s], posted[s], Taken(s)) => InOrder(Rest(s), posted[s], Taken(s))
  BY <1>1, <1>4, InOrderPop DEF Rest
<1>6. NoneOf(Rest(s), {"writeErr"}) => NoneOf(strand[s], {"writeErr"})
  BY <1>1, TailOf DEF Rest
<1>7. PrefixInv(s)'
  BY <1>2, <1>3 DEF PacketInv, PrefixInv
<1>8. QueueInv(s)'
  BY <1>2, <1>3, <1>5, <1>6 DEF PacketInv, QueueInv
<1>9. QED
  BY <1>7, <1>8 DEF PacketInv


\* The lambda of send() takes the packet that write_queue_ lacks.
LEMMA OnSendPackets ==
  ASSUME TypeOK, NEW s \in SessionIds, SessionInv(s), PacketInv(s), OnSend(s)
  PROVE  PacketInv(s)'
<1> DEFINE x == Head(strand[s]).packet
           q == Append(writeQueue[s], x)
<1>1. /\ Serve(s, "send") /\ ~closed[s] /\ UNCHANGED <<delivered, posted>>
      /\ strand[s] \in Seq(Handlers) /\ strand[s] # << >> /\ Rest(s) \in Seq(Handlers)
      /\ Head(strand[s]).h = "send" /\ x \in Nat
  BY ServeType DEF OnSend, sendVars
<1>2. /\ writeQueue[s] \in Seq(Nat) /\ posted[s] \in Seq(Nat) /\ Started(s) \in Nat /\ Taken(s) \in Nat
      /\ Taken(s) = Started(s) + Len(writeQueue[s]) /\ Len(writeQueue[s]) \in Nat
      /\ Len(posted[s]) \in Nat /\ DOMAIN writeQueue[s] = 1 .. Len(writeQueue[s])
  BY PacketTypes DEF Taken
<1>3. /\ q \in Seq(Nat) /\ Len(q) = Len(writeQueue[s]) + 1 /\ DOMAIN q = 1 .. (Len(writeQueue[s]) + 1)
      /\ \A k \in 1 .. Len(writeQueue[s]) : q[k] = writeQueue[s][k]
      /\ q[Len(writeQueue[s]) + 1] = x
  BY <1>1, <1>2
<1>4. NoneOf(Rest(s), {"writeErr"}) <=> NoneOf(strand[s], {"writeErr"})
  BY <1>1, TailOf DEF Rest
<1>5. NoneOf(strand[s], {"writeErr"}) =>
        /\ Started(s) + Len(q) <= Len(posted[s])
        /\ \A k \in DOMAIN q : q[k] = posted[s][Started(s) + k]
        /\ InOrder(Rest(s), posted[s], Started(s) + Len(q))
  <2> SUFFICES ASSUME NoneOf(strand[s], {"writeErr"})
               PROVE  /\ Started(s) + Len(q) <= Len(posted[s])
                      /\ \A k \in DOMAIN q : q[k] = posted[s][Started(s) + k]
                      /\ InOrder(Rest(s), posted[s], Started(s) + Len(q))
    OBVIOUS
  <2>1. /\ \A k \in DOMAIN writeQueue[s] : writeQueue[s][k] = posted[s][Started(s) + k]
        /\ InOrder(strand[s], posted[s], Taken(s))
    BY <1>1 DEF PacketInv, QueueInv
  <2>2. /\ Taken(s) + 1 <= Len(posted[s]) /\ posted[s][Taken(s) + 1] = x
        /\ InOrder(Rest(s), posted[s], Taken(s) + 1)
    BY <1>1, <1>2, <2>1, InOrderTake DEF Rest
  <2> HIDE DEF q, x
  <2>3. Started(s) + Len(q) = Taken(s) + 1
    BY <1>2, <1>3
  <2>4. \A k \in DOMAIN q : q[k] = posted[s][Started(s) + k]
    <3>1. TAKE k \in DOMAIN q
    <3>2. CASE k \in 1 .. Len(writeQueue[s])
      BY <1>2, <1>3, <2>1, <3>2
    <3>3. CASE k = Len(writeQueue[s]) + 1
      BY <1>3, <2>2, <2>3, <3>3
    <3>4. QED
      BY <1>2, <1>3, <3>2, <3>3
  <2>5. QED
    BY <2>2, <2>3, <2>4
<1>6. CASE isWriting[s]
  <2>1. writeQueue'[s] = q /\ strand'[s] = Rest(s) /\ UNCHANGED <<closed, inFlight>>
    BY <1>6 DEF OnSend, TypeOK
  <2> HIDE DEF q, x
  <2>2. Started(s)' = Started(s) /\ Taken(s)' = Started(s) + Len(q)
    BY <1>1, <2>1 DEF Started, Taken
  <2>3. PrefixInv(s)'
    BY <1>1, <2>1, <2>2 DEF PacketInv, PrefixInv
  <2>4. QueueInv(s)'
    BY <1>1, <1>4, <1>5, <2>1, <2>2 DEF QueueInv
  <2>5. QED
    BY <2>3, <2>4 DEF PacketInv
<1>7. CASE ~isWriting[s]
  <2>1. DoWrite(s, q, Rest(s))
    BY <1>7 DEF OnSend
  <2>2. inFlight[s] = << >> /\ NoneOf(strand[s], WriteNames) /\ PrefixInv(s)
    BY <1>7 DEF SessionInv, WriteInv, PacketInv
  <2>3. NoneOf(strand[s], {"writeErr"})
    BY <2>2 DEF NoneOf, WriteNames
  <2> HIDE DEF q, x
  <2>4. QED
    BY <1>1, <1>3, <1>5, <2>1, <2>2, <2>3, DoWritePackets
<1>8. QED
  BY <1>6, <1>7

\* The write handler goes on with the next packet of write_queue_.
LEMMA OnWrittenPackets ==
  ASSUME TypeOK, NEW s \in SessionIds, SessionInv(s), PacketInv(s), OnWritten(s)
  PROVE  PacketInv(s)'
<1>1. /\ Serve(s, "writeOk") /\ UNCHANGED <<delivered, posted>>
      /\ DoWrite(s, writeQueue[s], Rest(s))
      /\ strand[s] \in Seq(Handlers) /\ strand[s] # << >> /\ Rest(s) \in Seq(Handlers)
      /\ Head(strand[s]).h = "writeOk"
  BY ServeType DEF OnWritten, sendVars
<1>2. inFlight[s] = << >> /\ NoneOf(Rest(s), WriteNames)
  BY <1>1, Served DEF WriteNames
<1>3. NoneOf(Rest(s), {"writeErr"})
  BY <1>2 DEF NoneOf, WriteNames
<1>4. NoneOf(strand[s], {"writeErr"})
  BY <1>1, <1>3, TailOf DEF Rest
<1>5. posted[s] \in Seq(Nat) /\ Taken(s) \in Nat /\ writeQueue[s] \in Seq(Nat)
  BY PacketTypes
<1>6. InOrder(strand[s], posted[s], Taken(s)) => InOrder(Rest(s), posted[s], Taken(s))
  BY <1>1, <1>5, InOrderPop DEF Rest
<1>7. ~closed[s] => /\ Started(s) + Len(writeQueue[s]) <= Len(posted[s])
                    /\ \A k \in DOMAIN writeQueue[s] : writeQueue[s][k] = posted[s][Started(s) + k]
                    /\ InOrder(Rest(s), posted[s], Started(s) + Len(writeQueue[s]))
  BY <1>4, <1>6 DEF PacketInv, QueueInv, Taken
<1>8. PrefixInv(s)
  BY DEF PacketInv
<1>9. QED
  BY <1>1, <1>2, <1>5, <1>7, <1>8, DoWritePackets

\* async_write completes: its packet goes from the writes to the socket.
LEMMA WrittenPackets ==
  ASSUME TypeOK, NEW s \in SessionIds, SessionInv(s), PacketInv(s), WriteCompletes(s)
  PROVE  PacketInv(s)'
<1>1. /\ inFlight[s] # << >> /\ inFlight'[s] = Tail(inFlight[s])
      /\ delivered'[s] = Append(delivered[s], Head(inFlight[s]))
      /\ strand'[s] = Append(strand[s], Handler("writeOk"))
      /\ UNCHANGED <<closed, writeQueue, posted>>
  BY DEF WriteCompletes, TypeOK, sendVars
<1>2. Len(inFlight[s]) = 1
  BY <1>1 DEF SessionInv, WriteInv
<1>3. /\ inFlight[s] \in Seq(Nat) /\ delivered[s] \in Seq(Nat) /\ posted[s] \in Seq(Nat)
      /\ strand[s] \in Seq(Handlers) /\ Taken(s) \in Nat
      /\ Len(delivered[s]) \in Nat /\ DOMAIN delivered[s] = 1 .. Len(delivered[s])
      /\ Len(writeQueue[s]) \in Nat /\ Len(posted[s]) \in Nat
  BY PacketTypes
<1>4. inFlight'[s] = << >> /\ Head(inFlight[s]) = inFlight[s][1] /\ 1 \in DOMAIN inFlight[s]
      /\ Head(inFlight[s]) \in Nat
  <2>1. Tail(inFlight[s]) \in Seq(Nat) /\ Len(Tail(inFlight[s])) = 0
    BY <1>1, <1>2, <1>3
  <2>2. inFlight'[s] = << >>
    BY <1>1, <2>1, EmptySeq
  <2>3. Head(inFlight[s]) = inFlight[s][1] /\ 1 \in DOMAIN inFlight[s] /\ Head(inFlight[s]) \in Nat
    BY <1>1, <1>3
  <2>4. QED
    BY <2>2, <2>3
<1>5. Started(s)' = Started(s) /\ Taken(s)' = Taken(s) /\ Started(s) = Len(delivered[s]) + 1
  <2>1. Len(delivered'[s]) = Len(delivered[s]) + 1
    BY <1>1, <1>3, <1>4
  <2>2. Len(inFlight'[s]) = 0
    BY <1>4
  <2>3. Started(s) = Len(delivered[s]) + 1
    BY <1>2 DEF Started
  <2>4. Started(s)' = (Len(delivered[s]) + 1) + 0
    BY <2>1, <2>2, Zenon DEF Started
  <2>5. (Len(delivered[s]) + 1) + 0 = Len(delivered[s]) + 1
    BY <1>3
  <2>6. Started(s)' = Started(s)
    BY <2>3, <2>4, <2>5, Zenon
  <2>7. QED
    BY <1>1, <2>3, <2>6 DEF Taken
<1>6. PrefixInv(s)'
  <2>1. Started(s) <= Len(posted[s]) /\ inFlight[s][1] = posted[s][Len(delivered[s]) + 1]
    BY <1>4 DEF PacketInv, PrefixInv
  <2>2. \A k \in DOMAIN delivered[s] : delivered[s][k] = posted[s][k]
    BY DEF PacketInv, PrefixInv
  <2>3. \A k \in DOMAIN delivered'[s] : delivered'[s][k] = posted[s][k]
    <3>1. \A k \in DOMAIN delivered'[s] :
            \/ k \in DOMAIN delivered[s] /\ delivered'[s][k] = delivered[s][k]
            \/ k = Len(delivered[s]) + 1 /\ delivered'[s][k] = Head(inFlight[s])
      BY <1>1, <1>3, <1>4
    <3>2. QED
      BY <1>4, <2>1, <2>2, <3>1, Zenon
  <2>4. \A k \in DOMAIN inFlight'[s] : inFlight'[s][k] = posted[s][Len(delivered'[s]) + k]
    BY <1>4
  <2>5. QED
    BY <1>1, <1>5, <2>1, <2>3, <2>4 DEF PrefixInv
<1>7. QueueInv(s)'
  <2>1. Handler("writeOk") \in Handlers /\ Handler("writeOk").h = "writeOk"
    BY HandlerTypes DEF HandlerNames
  <2>2. NoneOf(strand'[s], {"writeErr"}) <=> NoneOf(strand[s], {"writeErr"})
    BY <1>1, <1>3, <2>1, Posted
  <2>3. InOrder(strand[s], posted[s], Taken(s)) => InOrder(strand'[s], posted[s], Taken(s))
    BY <1>1, <1>3, <2>1, InOrderPush
  <2>4. QED
    BY <1>1, <1>5, <2>2, <2>3 DEF PacketInv, QueueInv
<1>8. QED
  BY <1>6, <1>7 DEF PacketInv

LEMMA SessionStepPackets ==
  ASSUME TypeOK, NEW s \in SessionIds, SessionInv(s), PacketInv(s), SessionNext(s)
  PROVE  PacketInv(s)'
<1>1. CASE PeerBreaks(s)
  <2>1. SameFor(s)
    BY <1>1 DEF PeerBreaks, SameFor, readVars, writeVars, sendVars
  <2>2. QED
    BY <2>1, SamePackets
<1>2. CASE ReadCompletes(s)
  <2>1. PICK fs \in Reads : strand' = [strand EXCEPT ![s] = Append(@, ReadOf(fs))]
    BY <1>2 DEF ReadCompletes
  <2>2. ReadOf(fs) \in Handlers /\ ReadOf(fs).h = "readOk"
    BY SessionAssumption, HandlerTypes
  <2>3. strand'[s] = Append(strand[s], ReadOf(fs)) /\ UNCHANGED <<closed, writeQueue, inFlight, delivered, posted>>
    BY <1>2, <2>1 DEF ReadCompletes, TypeOK, writeVars, sendVars
  <2>4. QED
    BY <2>2, <2>3, PushPackets
<1>3. CASE ReadFails(s)
  <2>1. Handler("readErr") \in Handlers /\ Handler("readErr").h = "readErr"
    BY HandlerTypes DEF HandlerNames
  <2>2. strand'[s] = Append(strand[s], Handler("readErr")) /\ UNCHANGED <<closed, writeQueue, inFlight, delivered, posted>>
    BY <1>3 DEF ReadFails, TypeOK, writeVars, sendVars
  <2>3. QED
    BY <2>1, <2>2, PushPackets
<1>4. CASE WriteFails(s)
  <2>1. Handler("writeErr") \in Handlers /\ Handler("writeErr").h = "writeErr"
    BY HandlerTypes DEF HandlerNames
  <2>2. /\ strand'[s] = Append(strand[s], Handler("writeErr")) /\ strand[s] \in Seq(Handlers)
        /\ inFlight[s] # << >> /\ inFlight'[s] = Tail(inFlight[s]) /\ inFlight[s] \in Seq(Nat)
        /\ UNCHANGED <<delivered, posted>>
    BY <1>4 DEF WriteFails, TypeOK, sendVars
  <2>3. ~NoneOf(strand'[s], {"writeErr"})
    BY <2>1, <2>2, Posted
  <2>4. inFlight'[s] = << >>
    <3>1. Len(inFlight[s]) = 1
      BY <2>2 DEF SessionInv, WriteInv
    <3>2. Tail(inFlight[s]) \in Seq(Nat) /\ Len(Tail(inFlight[s])) = 0
      BY <2>2, <3>1
    <3>3. QED
      BY <2>2, <3>2, EmptySeq
  <2>5. QED
    BY <2>2, <2>3, <2>4, EndPackets
<1>5. CASE OnReadError(s) \/ OnWriteError(s)
  <2>1. Rest(s) \in Seq(Handlers) /\ CloseInto(s, Rest(s))
    BY <1>5, ServeType DEF OnReadError, OnWriteError
  <2>2. closed'[s]
    BY <2>1, CloseType DEF TypeOK
  <2>3. UNCHANGED <<inFlight, delivered, posted>>
    BY <1>5 DEF OnReadError, OnWriteError, writeVars, sendVars
  <2>4. QED
    BY <2>2, <2>3, EndPackets
<1>6. CASE OnSendClosed(s)
  <2>1. closed'[s] /\ UNCHANGED <<inFlight, delivered, posted>>
    BY <1>6 DEF OnSendClosed, writeVars, sendVars
  <2>2. QED
    BY <2>1, EndPackets
<1>7. CASE OnClosing(s)
  <2>1. closed[s]
    BY <1>7, Served DEF OnClosing
  <2>2. closed'[s] /\ inFlight'[s] = << >> /\ UNCHANGED <<delivered, posted>>
    BY <1>7, <2>1 DEF OnClosing, TypeOK, sendVars
  <2>3. QED
    BY <2>2, EndPackets
<1>8. QED
  BY <1>1, <1>2, <1>3, <1>4, <1>5, <1>6, <1>7, PostSendPackets, WrittenPackets, DoReadPackets,
     OnReadPackets, OnSendPackets, OnWrittenPackets, Zenon DEF SessionNext, StrandStep

LEMMA ServerPackets ==
  ASSUME TypeOK, AcceptedKnown, ServerNext, NEW s \in SessionIds, PacketInv(s)
  PROVE  PacketInv(s)'
<1> USE DEF AcceptStep, readVars, writeVars, sendVars
<1>1. UNCHANGED <<closed, writeQueue, inFlight, delivered, posted>>
  BY DEF ServerNext, ServerStart, ServerStop, ClientConnects, AcceptFails, AcceptHandler,
         AcceptAborted, AcceptAgain, DoAccept, CreateSession, AddSession, StartSession,
         PublishConnected
<1>2. CASE strand'[s] = strand[s]
  <2>1. Started(s)' = Started(s) /\ Taken(s)' = Taken(s)
    BY <1>1 DEF Started, Taken
  <2>2. PrefixInv(s)' /\ QueueInv(s)'
    BY <1>1, <1>2, <2>1 DEF PacketInv, PrefixInv, QueueInv
  <2>3. QED
    BY <2>2 DEF PacketInv
<1>3. CASE StartSession
  <2>1. strand'[s] = strand[s] \/ strand'[s] = Append(strand[s], Handler("doRead"))
    BY <1>3 DEF StartSession, TypeOK
  <2>2. Handler("doRead") \in Handlers /\ Handler("doRead").h = "doRead"
    BY HandlerTypes DEF HandlerNames
  <2>3. CASE strand'[s] = Append(strand[s], Handler("doRead"))
    BY <1>1, <2>2, <2>3, PushPackets
  <2>4. QED
    BY <1>2, <2>1, <2>3
<1>4. CASE ~StartSession
  <2>1. strand' = strand
    BY <1>4 DEF ServerNext, ServerStart, ServerStop, ClientConnects, AcceptFails, AcceptHandler,
       AcceptAborted, AcceptAgain, DoAccept, CreateSession, AddSession, PublishConnected
  <2>2. QED
    BY <1>2, <2>1
<1>5. QED
  BY <1>3, <1>4

LEMMA OrderInit == Init => OrderInv
<1> SUFFICES ASSUME Init PROVE OrderInv
  OBVIOUS
<1>1. OpsInv
  BY OpsInit
<1>2. ASSUME NEW s \in SessionIds
      PROVE  PacketInv(s)
  <2>1. /\ strand[s] = << >> /\ inFlight[s] = << >> /\ delivered[s] = << >> /\ posted[s] = << >>
        /\ writeQueue[s] = << >>
    BY DEF Init
  <2>2. Len(<< >>) = 0 /\ DOMAIN << >> = {}
    OBVIOUS
  <2>3. Started(s) = 0 /\ Taken(s) = 0
    BY <2>1, <2>2 DEF Started, Taken
  <2>4. InOrder(<< >>, << >>, 0)
    <3> DEFINE g == [k \in {} |-> 0]
    <3>1. g \in [DOMAIN << >> -> 0 .. Len(<< >>)]
      BY <2>2
    <3>2. Places(g, << >>, << >>, 0)
      BY <2>2 DEF Places
    <3>3. QED
      BY <3>1, <3>2, Zenon DEF InOrder
  <2>5. QED
    BY <2>1, <2>2, <2>3, <2>4 DEF PacketInv, PrefixInv, QueueInv
<1>3. QED
  BY <1>1, <1>2, Zenon DEF OrderInv

LEMMA OrderNext == OrderInv /\ [Next]_vars => OrderInv'
<1> SUFFICES ASSUME OrderInv, [Next]_vars
             PROVE  OrderInv'
  BY Zenon
<1>1. OpsInv /\ OpsInv' /\ TypeOK /\ AcceptedKnown
  BY OpsNext, Zenon DEF OrderInv, OpsInv
<1>2. ASSUME NEW t \in SessionIds
      PROVE  PacketInv(t)'
  <2>1. SessionInv(t) /\ PacketInv(t)
    BY Zenon DEF OrderInv, OpsInv
  <2>2. CASE ServerNext
    BY <1>1, <2>1, <2>2, ServerPackets
  <2>3. CASE Broadcast \/ SendTo
    <3>1. SameFor(t)
      BY <2>3, SendPacketSame DEF Broadcast, SendTo
    <3>2. QED
      BY <2>1, <3>1, SamePackets
  <2>4. ASSUME NEW s \in SessionIds, SessionNext(s)
        PROVE  PacketInv(t)'
    <3>1. CASE t = s
      BY <1>1, <2>1, <2>4, <3>1, SessionStepPackets
    <3>2. CASE t # s
      BY <1>1, <2>1, <2>4, <3>2, OthersSame, SamePackets
    <3>3. QED
      BY <3>1, <3>2
  <2>5. CASE UNCHANGED vars
    <3>1. SameFor(t)
      BY <2>5 DEF vars, SameFor, acceptVars, readVars, writeVars, sendVars
    <3>2. QED
      BY <2>1, <3>1, SamePackets
  <2>6. QED
    BY <2>2, <2>3, <2>4, <2>5, Zenon DEF Next, ServerNext, SessionNext
<1>3. SessionIds' = SessionIds
  BY DEF SessionIds
<1>4. QED
  BY <1>1, <1>2, <1>3, Zenon DEF OrderInv

\* No packet is lost, repeated or overtaken on its way from send() to the socket as
\* long as the connection holds: the inductive invariant.
THEOREM OrderCorrect == Spec => []OrderInv
  BY OrderInit, OrderNext, PTL DEF Spec

\* A client receives a prefix of the packets that were sent to it, in their order,
\* whatever the threads interleave and wherever the connection breaks.
THEOREM DeliveryCorrect == Spec => []DeliveredInOrder
<1>1. OrderInv => DeliveredInOrder
  <2> SUFFICES ASSUME OrderInv, NEW s \in SessionIds
               PROVE  /\ Len(delivered[s]) <= Len(posted[s])
                      /\ \A k \in DOMAIN delivered[s] : delivered[s][k] = posted[s][k]
    BY Zenon DEF DeliveredInOrder
  <2>1. TypeOK /\ PrefixInv(s)
    BY Zenon DEF OrderInv, OpsInv, PacketInv
  <2>2. /\ Len(delivered[s]) + Len(inFlight[s]) <= Len(posted[s])
        /\ \A k \in DOMAIN delivered[s] : delivered[s][k] = posted[s][k]
    BY <2>1, Zenon DEF PrefixInv, Started
  <2>3. Len(delivered[s]) \in Nat /\ Len(inFlight[s]) \in Nat /\ Len(posted[s]) \in Nat
    BY <2>1, PacketTypes
  <2>4. \A a, b, c \in Nat : a + b <= c => a <= c
    OBVIOUS
  <2>5. QED
    BY <2>2, <2>3, <2>4, Zenon
<1>2. QED
  BY <1>1, OrderCorrect, PTL

-----------------------------------------------------------------------------
(* FrameCodec: numbers and bytes *)

\* A set of numbers has a least one,
LEMMA Least ==
  ASSUME NEW T, T \subseteq Nat, T # {}
  PROVE  \E x \in T : \A y \in T : x <= y
PROOF
<1>1. \E x \in T : \A y \in T : ~(<<y, x>> \in OpToRel(<, Nat))
  BY WFMin, NatLessThanWellFounded
<1>2. \A x, y \in T : <<y, x>> \in OpToRel(<, Nat) <=> y < x
  BY DEF OpToRel
<1>3. \E x \in T : \A y \in T : ~(y < x)
  BY <1>1, <1>2, Zenon
<1> QED BY <1>3

\* so a set that holds each number up to n for which it holds all smaller ones
\* holds all of them.
LEMMA UpTo ==
  ASSUME NEW n \in Nat, NEW S, \A k \in 0 .. n : (\A j \in 0 .. n : j < k => j \in S) => k \in S
  PROVE  0 .. n \subseteq S
PROOF
<1> DEFINE T == (0 .. n) \ S
<1>1. CASE T = {}
  BY <1>1
<1>2. CASE T # {}
  <2>1. T \subseteq Nat
    OBVIOUS
  <2>2. PICK m \in T : \A y \in T : m <= y
    BY <1>2, <2>1, Least
  <2>3. \A j \in 0 .. n : j < m => j \in S
    BY <2>2
  <2> QED BY <2>2, <2>3
<1> QED BY <1>1, <1>2

\* The same from n downwards.
LEMMA DownFrom ==
  ASSUME NEW n \in Nat, NEW S, \A k \in 0 .. n : (\A j \in 0 .. n : j > k => j \in S) => k \in S
  PROVE  0 .. n \subseteq S
PROOF
<1> DEFINE T == {k \in 0 .. n : n - k \in S}
<1>1. ASSUME NEW k \in 0 .. n, \A j \in 0 .. n : j < k => j \in T
      PROVE  k \in T
  <2>1. n - k \in 0 .. n
    OBVIOUS
  <2>2. ASSUME NEW j \in 0 .. n, j > n - k
        PROVE  j \in S
    <3>1. n - j \in 0 .. n /\ n - j < k /\ n - (n - j) = j
      BY <2>2
    <3>2. n - j \in T
      BY <1>1, <3>1
    <3>3. n - (n - j) \in S
      BY <3>2
    <3> QED BY <3>1, <3>3
  <2> QED BY <2>1, <2>2
<1>2. 0 .. n \subseteq T
  <2> HIDE DEF T
  <2> QED BY <1>1, UpTo
<1> SUFFICES ASSUME NEW k \in 0 .. n
             PROVE  k \in S
  OBVIOUS
<1>3. n - k \in 0 .. n /\ n - (n - k) = k
  OBVIOUS
<1>4. n - (n - k) \in S
  BY <1>2, <1>3
<1> QED BY <1>3, <1>4

LEMMA Codec ==
  /\ Base \in Nat \ {0, 1} /\ SizeLength \in Nat \ {0} /\ MaxMessageSize \in Nat /\ MaxStream \in Nat
  /\ MaxNoise \in Nat
  /\ Magic \in Seq(Byte) /\ Len(Magic) \in Nat /\ HeaderLength \in Nat \ {0} /\ Len(Magic) <= HeaderLength
PROOF
<1>1. /\ Base \in Nat \ {0, 1} /\ SizeLength \in Nat \ {0} /\ MaxMessageSize \in Nat /\ MaxStream \in Nat
      /\ MaxNoise \in Nat /\ Magic \in Seq(Byte)
  BY CodecAssumption
<1>2. Len(Magic) \in Nat
  BY <1>1
<1> QED BY <1>1, <1>2 DEF HeaderLength

\* Number reads the digits one after the other.
LEMMA Reading ==
  ASSUME NEW s \in Seq(Byte)
  PROVE  \E t : /\ t[0] = 0 /\ \A k \in 1 .. Len(s) : t[k] = t[k - 1] * Base + s[k]
              /\ Number(s) = t[Len(s)]
PROOF
<1> DEFINE n == Len(s)
           Body(f, k) == IF k = 0 THEN 0 ELSE f[k - 1] * Base + s[k]
           Value(m, f) == f = [k \in 0 .. m |-> Body(f, k)]
           S == {m \in 0 .. n : \E f : Value(m, f)}
<1>0. n \in Nat /\ Base \in Nat /\ \A k \in 1 .. n : s[k] \in Nat
  BY Codec DEF Byte
<1>1. ASSUME NEW m \in 0 .. n, \A j \in 0 .. n : j < m => j \in S
      PROVE  m \in S
  <2>1. CASE m = 0
    <3> DEFINE f == [k \in 0 .. 0 |-> 0]
    <3>1. Value(0, f)
      OBVIOUS
    <3> HIDE DEF f, Value
    <3> QED BY <2>1, <3>1
  <2>2. CASE m # 0
    <3>0. m - 1 \in 0 .. n /\ m - 1 < m
      BY <1>0, <2>2
    <3>1. m - 1 \in S
      BY <1>1, <3>0
    <3>2. PICK f : Value(m - 1, f)
      BY <3>1
    <3> DEFINE g == [k \in 0 .. m |-> Body(f, k)]
    <3>3. \A k \in 0 .. (m - 1) : f[k] = Body(f, k)
      BY <3>2
    <3>4. \A k \in 0 .. (m - 1) : g[k] = f[k]
      BY <1>0, <3>3
    <3>5. \A k \in 1 .. m : k - 1 \in 0 .. (m - 1)
      BY <1>0
    <3>6. \A k \in 0 .. m : Body(f, k) = Body(g, k)
      <4> HIDE DEF g
      <4> QED BY <3>4, <3>5
    <3>7. Value(m, g)
      <4> HIDE DEF Body
      <4> QED BY <3>6, Zenon
    <3> HIDE DEF g, Value
    <3> QED BY <3>7
  <2> QED BY <2>1, <2>2
<1>2. 0 .. n \subseteq S
  <2> HIDE DEF S, n
  <2> QED BY <1>0, <1>1, UpTo
<1>3. \E f : Value(n, f)
  <2>1. n \in 0 .. n
    BY <1>0
  <2>2. n \in S
    BY <1>2, <2>1, Zenon
  <2> HIDE DEF Value
  <2> QED BY <2>2, Zenon
<1> DEFINE t == CHOOSE f : Value(n, f)
<1>4. Value(n, t)
  BY <1>3, Zenon
<1>5. Number(s) = t[n]
  BY Zenon DEF Number
<1> HIDE DEF t
<1>6. \A k \in 0 .. n : t[k] = Body(t, k)
  BY <1>4
<1>7. t[0] = 0 /\ \A k \in 1 .. n : t[k] = t[k - 1] * Base + s[k]
  BY <1>0, <1>6
<1> QED BY <1>5, <1>7

\* The digits of a length field have a value.
LEMMA NumberIsNat ==
  ASSUME NEW s \in Seq(Byte)
  PROVE  Number(s) \in Nat
PROOF
<1> DEFINE n == Len(s)
<1>0. n \in Nat /\ Base \in Nat /\ \A k \in 1 .. n : s[k] \in Nat
  BY Codec DEF Byte
<1>5. PICK t : /\ t[0] = 0 /\ \A k \in 1 .. n : t[k] = t[k - 1] * Base + s[k]
               /\ Number(s) = t[n]
  BY Reading
<1> DEFINE R == {k \in 0 .. n : t[k] \in Nat}
<1>7. ASSUME NEW k \in 0 .. n, \A j \in 0 .. n : j < k => j \in R
      PROVE  k \in R
  <2>1. CASE k = 0
    BY <1>5, <2>1
  <2>2. CASE k # 0
    <3>1. k - 1 \in 0 .. n /\ k - 1 < k /\ k \in 1 .. n
      BY <1>0, <2>2
    <3>2. t[k - 1] \in Nat
      BY <1>7, <3>1
    <3>3. t[k] = t[k - 1] * Base + s[k]
      BY <1>5, <3>1
    <3>4. t[k - 1] * Base \in Nat /\ s[k] \in Nat
      BY <1>0, <3>1, <3>2
    <3> QED BY <3>3, <3>4
  <2> QED BY <2>1, <2>2
<1>8. 0 .. n \subseteq R
  <2> HIDE DEF R, n
  <2> QED BY <1>0, <1>7, UpTo
<1>9. n \in 0 .. n
  BY <1>0
<1>10. t[n] \in Nat
  BY <1>8, <1>9
<1> QED BY <1>5, <1>10

\* Power is the function that its definition says.
LEMMA Powers ==
  /\ Power[0] = 1
  /\ \A k \in 1 .. SizeLength : Power[k] = Base * Power[k - 1]
  /\ \A k \in 0 .. SizeLength : Power[k] \in Nat \ {0}
PROOF
<1> DEFINE Body(f, k) == IF k = 0 THEN 1 ELSE Base * f[k - 1]
           Value(m, f) == f = [k \in 0 .. m |-> Body(f, k)]
           n == SizeLength
           S == {m \in 0 .. n : \E f : Value(m, f)}
<1>0. n \in Nat /\ Base \in Nat \ {0}
  BY Codec
<1>1. ASSUME NEW m \in 0 .. n, \A j \in 0 .. n : j < m => j \in S
      PROVE  m \in S
  <2>1. CASE m = 0
    <3> DEFINE f == [k \in 0 .. 0 |-> 1]
    <3>1. Value(0, f)
      OBVIOUS
    <3> HIDE DEF f, Value
    <3> QED BY <2>1, <3>1
  <2>2. CASE m # 0
    <3>0. m - 1 \in 0 .. n /\ m - 1 < m
      BY <1>0, <2>2
    <3>1. m - 1 \in S
      BY <1>1, <3>0
    <3>2. PICK f : Value(m - 1, f)
      BY <3>1
    <3> DEFINE g == [k \in 0 .. m |-> Body(f, k)]
    <3>3. \A k \in 0 .. (m - 1) : f[k] = Body(f, k)
      BY <3>2
    <3>4. \A k \in 0 .. (m - 1) : g[k] = f[k]
      BY <1>0, <3>3
    <3>5. \A k \in 1 .. m : k - 1 \in 0 .. (m - 1)
      BY <1>0
    <3>6. \A k \in 0 .. m : Body(f, k) = Body(g, k)
      <4> HIDE DEF g
      <4> QED BY <3>4, <3>5
    <3>7. Value(m, g)
      <4> HIDE DEF Body
      <4> QED BY <3>6, Zenon
    <3> HIDE DEF g, Value
    <3> QED BY <3>7
  <2> QED BY <2>1, <2>2
<1>2. 0 .. n \subseteq S
  <2> HIDE DEF S, n
  <2> QED BY <1>0, <1>1, UpTo
<1>3. \E f : Value(n, f)
  <2>1. n \in 0 .. n
    BY <1>0
  <2>2. n \in S
    BY <1>2, <2>1, Zenon
  <2> HIDE DEF Value
  <2> QED BY <2>2, Zenon
<1>4. Power = CHOOSE f : Value(n, f)
  BY Zenon DEF Power
<1>5. Value(n, Power)
  BY <1>3, <1>4, Zenon
<1>6. \A k \in 0 .. n : Power[k] = Body(Power, k)
  BY <1>5
<1>7. Power[0] = 1 /\ \A k \in 1 .. n : Power[k] = Base * Power[k - 1]
  BY <1>0, <1>6
<1> DEFINE R == {k \in 0 .. n : Power[k] \in Nat \ {0}}
<1>8. ASSUME NEW k \in 0 .. n, \A j \in 0 .. n : j < k => j \in R
      PROVE  k \in R
  <2>1. CASE k = 0
    BY <1>7, <2>1
  <2>2. CASE k # 0
    <3>1. k - 1 \in 0 .. n /\ k - 1 < k /\ k \in 1 .. n
      BY <1>0, <2>2
    <3>2. Power[k - 1] \in Nat \ {0} /\ Power[k] = Base * Power[k - 1]
      BY <1>7, <1>8, <3>1
    <3>3. Power[k] \in Nat \ {0}
      <4> DEFINE p == Power[k - 1]
                 q == Power[k]
      <4> HIDE DEF p, q
      <4>1. p \in Nat \ {0} /\ q = Base * p
        BY <3>2 DEF p, q
      <4>2. q \in Nat \ {0}
        BY <1>0, <4>1
      <4> QED BY <4>2 DEF q
    <3> QED BY <3>3
  <2> QED BY <2>1, <2>2
<1>9. 0 .. n \subseteq R
  <2> HIDE DEF R, n
  <2> QED BY <1>0, <1>8, UpTo
<1> QED BY <1>7, <1>9

-----------------------------------------------------------------------------
(* FrameCodec: frames in a stream *)

LEMMA Part ==
  ASSUME NEW S, NEW q \in Seq(S), NEW a \in Nat, NEW n \in Nat, a + n <= Len(q)
  PROVE  /\ SubSeq(q, a + 1, a + n) \in Seq(S) /\ Len(SubSeq(q, a + 1, a + n)) = n
         /\ DOMAIN SubSeq(q, a + 1, a + n) = 1 .. n
         /\ \A i \in 1 .. n : SubSeq(q, a + 1, a + n)[i] = q[a + i]
PROOF
<1> DEFINE p == SubSeq(q, a + 1, a + n)
<1>0. Len(q) \in Nat
  OBVIOUS
<1>1. p \in Seq(S) /\ Len(p) = n
  BY <1>0
<1>2. DOMAIN p = 1 .. n
  BY <1>1
<1>3. ASSUME NEW i \in 1 .. n
      PROVE  p[i] = q[a + i]
  <2>1. p[i] = q[(a + 1) + i - 1]
    BY <1>0
  <2>2. (a + 1) + i - 1 = a + i
    OBVIOUS
  <2> QED BY <2>1, <2>2
<1> QED BY <1>1, <1>2, <1>3

\* n bytes after the first a of p and after the first b of q are the same.
Alike(p, a, q, b, n) == /\ a + n <= Len(p) /\ b + n <= Len(q)
                        /\ \A i \in 1 .. n : p[a + i] = q[b + i]

LEMMA SamePart ==
  ASSUME NEW S, NEW p \in Seq(S), NEW q \in Seq(S), NEW a \in Nat, NEW b \in Nat, NEW n \in Nat,
         Alike(p, a, q, b, n)
  PROVE  SubSeq(p, a + 1, a + n) = SubSeq(q, b + 1, b + n)
PROOF
<1> DEFINE x == SubSeq(p, a + 1, a + n)
           y == SubSeq(q, b + 1, b + n)
<1>0. a + n <= Len(p) /\ b + n <= Len(q) /\ \A i \in 1 .. n : p[a + i] = q[b + i]
  BY DEF Alike
<1>1. x \in Seq(S) /\ DOMAIN x = 1 .. n /\ \A i \in 1 .. n : x[i] = p[a + i]
  BY <1>0, Part
<1>2. y \in Seq(S) /\ DOMAIN y = 1 .. n /\ \A i \in 1 .. n : y[i] = q[b + i]
  BY <1>0, Part
<1>3. x = [i \in 1 .. n |-> x[i]] /\ y = [i \in 1 .. n |-> y[i]]
  BY <1>1, <1>2
<1>4. \A i \in 1 .. n : x[i] = y[i]
  BY <1>0, <1>1, <1>2
<1> HIDE DEF x, y
<1>5. x = y
  BY <1>3, <1>4
<1> QED BY <1>5 DEF x, y

\* The bytes of d are found in w from b on.
Holds(w, b, d) == b + Len(d) <= Len(w) /\ \A i \in 1 .. Len(d) : w[b + i] = d[i]

\* Then so are its headers.
LEMMA SameHeader ==
  ASSUME NEW w \in Seq(Byte), NEW d \in Seq(Byte), NEW b \in Nat, Holds(w, b, d),
         NEW o \in Nat, o + HeaderLength <= Len(d)
  PROVE  /\ HeaderAt(w, b + o) <=> HeaderAt(d, o)
         /\ LengthAt(d, o) \in Nat
         /\ FrameEnd(d, o) \in Nat /\ FrameEnd(d, o) >= o + HeaderLength /\ FrameEnd(d, o) > o
         /\ FrameEnd(w, b + o) = b + FrameEnd(d, o)
PROOF
<1> DEFINE M == Len(Magic)
           H == HeaderLength
<1>0. /\ M \in Nat /\ H \in Nat \ {0} /\ SizeLength \in Nat /\ H = M + SizeLength
      /\ Len(w) \in Nat /\ Len(d) \in Nat /\ b + o \in Nat
  BY Codec DEF HeaderLength
<1> HIDE DEF M, H
<1>1. b + Len(d) <= Len(w) /\ \A i \in 1 .. Len(d) : w[b + i] = d[i]
  BY DEF Holds
<1>2. o + H <= Len(d)
  BY DEF H
<1>3. \A i \in 1 .. H : w[(b + o) + i] = d[o + i]
  <2> SUFFICES ASSUME NEW i \in 1 .. H
               PROVE  w[(b + o) + i] = d[o + i]
    OBVIOUS
  <2>1. o + i \in 1 .. Len(d) /\ (b + o) + i = b + (o + i)
    BY <1>0, <1>2
  <2> QED BY <1>1, <2>1
<1>4. SubSeq(w, (b + o) + 1, (b + o) + M) = SubSeq(d, o + 1, o + M)
  <2>1. (b + o) + M <= Len(w) /\ o + M <= Len(d) /\ \A i \in 1 .. M : w[(b + o) + i] = d[o + i]
    BY <1>0, <1>1, <1>2, <1>3
  <2> DEFINE a == b + o
  <2> HIDE DEF a
  <2>2. a \in Nat /\ Alike(w, a, d, o, M)
    BY <1>0, <2>1 DEF a, Alike
  <2>3. SubSeq(w, a + 1, a + M) = SubSeq(d, o + 1, o + M)
    BY <1>0, <2>2, SamePart
  <2> QED BY <2>3 DEF a
<1>5. SubSeq(w, (b + o) + M + 1, (b + o) + H) = SubSeq(d, o + M + 1, o + H)
  <2>1. /\ (b + o) + M \in Nat /\ o + M \in Nat
        /\ ((b + o) + M) + SizeLength <= Len(w) /\ (o + M) + SizeLength <= Len(d)
        /\ (b + o) + H = ((b + o) + M) + SizeLength /\ o + H = (o + M) + SizeLength
    BY <1>0, <1>1, <1>2
  <2>2. ASSUME NEW i \in 1 .. SizeLength
        PROVE  w[((b + o) + M) + i] = d[(o + M) + i]
    <3>1. M + i \in 1 .. H /\ ((b + o) + M) + i = (b + o) + (M + i) /\ (o + M) + i = o + (M + i)
      BY <1>0
    <3> QED BY <1>3, <3>1
  <2>3. SubSeq(w, ((b + o) + M) + 1, ((b + o) + M) + SizeLength)
          = SubSeq(d, (o + M) + 1, (o + M) + SizeLength)
    <3> DEFINE a == (b + o) + M
               c == o + M
    <3>1. a \in Nat /\ c \in Nat
      BY <2>1
    <3>2. Alike(w, a, d, c, SizeLength)
      BY <2>1, <2>2 DEF Alike
    <3> HIDE DEF a, c
    <3>3. SubSeq(w, a + 1, a + SizeLength) = SubSeq(d, c + 1, c + SizeLength)
      BY <1>0, <3>1, <3>2, SamePart
    <3> QED BY <3>3 DEF a, c
  <2> QED BY <2>1, <2>3
<1>6. LengthAt(w, b + o) = LengthAt(d, o)
  BY <1>5 DEF LengthAt, M, H
<1>7. MagicAt(w, b + o) <=> MagicAt(d, o)
  BY <1>4 DEF MagicAt, M
<1>8. LengthAt(d, o) \in Nat
  <2>1. SubSeq(d, (o + M) + 1, (o + M) + SizeLength) \in Seq(Byte)
    <3>1. o + M \in Nat /\ (o + M) + SizeLength <= Len(d)
      BY <1>0, <1>2
    <3> QED BY <1>0, <3>1, Part
  <2>2. (o + M) + SizeLength = o + H
    BY <1>0
  <2>3. SubSeq(d, o + M + 1, o + H) \in Seq(Byte)
    BY <2>1, <2>2
  <2> QED BY <2>3, NumberIsNat DEF LengthAt, M, H
<1>9. (b + o) + H <= Len(w)
  BY <1>0, <1>1, <1>2
<1>10. HeaderAt(w, b + o) <=> HeaderAt(d, o)
  BY <1>2, <1>6, <1>7, <1>9 DEF HeaderAt, H
<1>11. FrameEnd(d, o) = o + H + LengthAt(d, o) /\ FrameEnd(w, b + o) = (b + o) + H + LengthAt(d, o)
  BY <1>6 DEF FrameEnd, H
<1>12. /\ FrameEnd(d, o) \in Nat /\ FrameEnd(d, o) >= o + H /\ FrameEnd(d, o) > o
       /\ FrameEnd(w, b + o) = b + FrameEnd(d, o)
  BY <1>0, <1>8, <1>11
<1> QED BY <1>8, <1>10, <1>12 DEF H

\* Where a frame ends.
LEMMA Header ==
  ASSUME NEW d \in Seq(Byte), NEW o \in Nat, HeaderAt(d, o)
  PROVE  o + HeaderLength <= Len(d) /\ FrameEnd(d, o) \in Nat /\ FrameEnd(d, o) > o
PROOF
<1>1. o + HeaderLength <= Len(d)
  BY DEF HeaderAt
<1>2. Holds(d, 0, d)
  BY DEF Holds
<1> QED BY <1>1, <1>2, SameHeader

\* The byte at o belongs to one of the frames at the offsets fs, or begins no header.
Resolved(d, fs, o) ==
  \/ \E k \in DOMAIN fs : fs[k] <= o /\ o < FrameEnd(d, fs[k])
  \/ o + HeaderLength <= Len(d) /\ ~HeaderAt(d, o)

\* The frames at the offsets fs are what one pass finds in d from lo to hi.
Parsed(d, lo, fs, hi) ==
  /\ fs \in Seq(Nat)
  /\ \A k \in DOMAIN fs : lo <= fs[k] /\ HeaderAt(d, fs[k]) /\ FrameEnd(d, fs[k]) <= hi
  /\ \A j, k \in DOMAIN fs : j < k => FrameEnd(d, fs[j]) <= fs[k]
  /\ \A o \in Nat : lo <= o /\ o < hi => Resolved(d, fs, o)

LEMMA Joined ==
  ASSUME NEW S, NEW p \in Seq(S), NEW q \in Seq(S)
  PROVE  /\ p \o q \in Seq(S) /\ Len(p \o q) = Len(p) + Len(q) /\ DOMAIN (p \o q) = 1 .. (Len(p) + Len(q))
         /\ \A k \in 1 .. Len(p) : (p \o q)[k] = p[k]
         /\ \A k \in 1 .. (Len(p) + Len(q)) : k > Len(p) => (p \o q)[k] = q[k - Len(p)] /\ k - Len(p) \in 1 .. Len(q)
         /\ \A k \in 1 .. Len(q) : (p \o q)[Len(p) + k] = q[k] /\ Len(p) + k \in 1 .. (Len(p) + Len(q))
PROOF
<1>1. Len(p) \in Nat /\ Len(q) \in Nat
  OBVIOUS
<1>2. p \o q \in Seq(S) /\ Len(p \o q) = Len(p) + Len(q) /\ DOMAIN (p \o q) = 1 .. (Len(p) + Len(q))
  OBVIOUS
<1>3. \A k \in 1 .. Len(p) : (p \o q)[k] = p[k]
  OBVIOUS
<1>4. \A k \in 1 .. (Len(p) + Len(q)) : k > Len(p) => (p \o q)[k] = q[k - Len(p)] /\ k - Len(p) \in 1 .. Len(q)
  OBVIOUS
<1>5. ASSUME NEW k \in 1 .. Len(q)
      PROVE  (p \o q)[Len(p) + k] = q[k] /\ Len(p) + k \in 1 .. (Len(p) + Len(q))
  <2>1. Len(p) + k \in 1 .. (Len(p) + Len(q)) /\ Len(p) + k > Len(p) /\ (Len(p) + k) - Len(p) = k
    BY <1>1
  <2>2. (p \o q)[Len(p) + k] = q[(Len(p) + k) - Len(p)]
    BY <1>4, <2>1
  <2> QED BY <2>1, <2>2
<1> QED BY <1>2, <1>3, <1>4, <1>5

\* Two passes, one after the other, are one.
LEMMA ParsedOn ==
  ASSUME NEW d \in Seq(Byte), NEW lo \in Nat, NEW mid \in Nat, NEW hi \in Nat, lo <= mid, mid <= hi,
         NEW fs, NEW gs, Parsed(d, lo, fs, mid), Parsed(d, mid, gs, hi)
  PROVE  Parsed(d, lo, fs \o gs, hi)
PROOF
<1> DEFINE hs == fs \o gs
           m == Len(fs)
           n == Len(gs)
<1>1. fs \in Seq(Nat) /\ gs \in Seq(Nat) /\ m \in Nat /\ n \in Nat /\ DOMAIN fs = 1 .. m /\ DOMAIN gs = 1 .. n
  BY DEF Parsed
<1>2. /\ hs \in Seq(Nat) /\ DOMAIN hs = 1 .. (m + n)
      /\ \A k \in 1 .. m : hs[k] = fs[k] /\ k \in 1 .. (m + n)
      /\ \A k \in 1 .. (m + n) : k > m => hs[k] = gs[k - m] /\ k - m \in 1 .. n
      /\ \A k \in 1 .. n : hs[m + k] = gs[k] /\ m + k \in 1 .. (m + n)
  BY <1>1, Joined
<1> HIDE DEF hs, m, n
<1>3. /\ \A k \in 1 .. m : fs[k] \in Nat /\ lo <= fs[k] /\ HeaderAt(d, fs[k]) /\ FrameEnd(d, fs[k]) <= mid
      /\ \A k \in 1 .. n : gs[k] \in Nat /\ mid <= gs[k] /\ HeaderAt(d, gs[k]) /\ FrameEnd(d, gs[k]) <= hi
  <2>1. (\A k \in DOMAIN fs : fs[k] \in Nat) /\ (\A k \in DOMAIN gs : gs[k] \in Nat)
    BY <1>1
  <2>2. \A k \in DOMAIN fs : lo <= fs[k] /\ HeaderAt(d, fs[k]) /\ FrameEnd(d, fs[k]) <= mid
    BY Zenon DEF Parsed
  <2>3. \A k \in DOMAIN gs : mid <= gs[k] /\ HeaderAt(d, gs[k]) /\ FrameEnd(d, gs[k]) <= hi
    BY Zenon DEF Parsed
  <2> QED BY <1>1, <2>1, <2>2, <2>3, Zenon
<1>4. /\ \A k \in 1 .. m : FrameEnd(d, fs[k]) \in Nat
      /\ \A k \in 1 .. n : FrameEnd(d, gs[k]) \in Nat
  BY <1>3, Header
<1>5. ASSUME NEW k \in 1 .. (m + n)
      PROVE  lo <= hs[k] /\ HeaderAt(d, hs[k]) /\ FrameEnd(d, hs[k]) <= hi
  <2>1. k \in 1 .. m \/ k > m
    BY <1>1
  <2>2. CASE k \in 1 .. m
    <3>1. FrameEnd(d, fs[k]) <= hi
      BY <1>3, <1>4, <2>2
    <3> QED BY <1>2, <1>3, <2>2, <3>1
  <2>3. CASE k > m
    <3>1. k - m \in 1 .. n /\ hs[k] = gs[k - m]
      BY <1>2, <2>3
    <3>2. lo <= gs[k - m]
      BY <1>3, <3>1
    <3> QED BY <1>3, <3>1, <3>2
  <2> QED BY <2>1, <2>2, <2>3
<1>6. ASSUME NEW j \in 1 .. (m + n), NEW k \in 1 .. (m + n), j < k
      PROVE  FrameEnd(d, hs[j]) <= hs[k]
  <2>1. CASE k \in 1 .. m
    <3>1. j \in 1 .. m
      BY <1>1, <1>6, <2>1
    <3> QED BY <1>1, <1>2, <1>6, <2>1, <3>1 DEF Parsed
  <2>2. CASE k > m /\ j > m
    <3>1. k - m \in 1 .. n /\ hs[k] = gs[k - m] /\ j - m \in 1 .. n /\ hs[j] = gs[j - m]
      BY <1>2, <2>2
    <3>2. j - m < k - m
      BY <1>1, <1>6
    <3> QED BY <1>1, <3>1, <3>2 DEF Parsed
  <2>3. CASE k > m /\ j \in 1 .. m
    <3>1. k - m \in 1 .. n /\ hs[k] = gs[k - m] /\ hs[j] = fs[j]
      BY <1>2, <2>3
    <3>2. FrameEnd(d, fs[j]) <= mid /\ mid <= gs[k - m] /\ FrameEnd(d, fs[j]) \in Nat /\ gs[k - m] \in Nat
      BY <1>3, <1>4, <2>3, <3>1
    <3> QED BY <3>1, <3>2
  <2> QED BY <1>1, <1>6, <2>1, <2>2, <2>3
<1>7. ASSUME NEW o \in Nat, lo <= o, o < hi
      PROVE  Resolved(d, hs, o)
  <2>1. CASE o < mid
    <3>1. Resolved(d, fs, o)
      BY <1>7, <2>1 DEF Parsed
    <3>2. ASSUME NEW k \in 1 .. m, fs[k] <= o, o < FrameEnd(d, fs[k])
          PROVE  Resolved(d, hs, o)
      BY <1>2, <3>2 DEF Resolved
    <3> QED BY <1>1, <3>1, <3>2 DEF Resolved
  <2>2. CASE mid <= o
    <3>1. Resolved(d, gs, o)
      BY <1>7, <2>2 DEF Parsed
    <3>2. ASSUME NEW k \in 1 .. n, gs[k] <= o, o < FrameEnd(d, gs[k])
          PROVE  Resolved(d, hs, o)
      <4>1. m + k \in DOMAIN hs /\ hs[m + k] = gs[k]
        BY <1>2
      <4> QED BY <3>2, <4>1 DEF Resolved
    <3> QED BY <1>1, <3>1, <3>2 DEF Resolved
  <2> QED BY <2>1, <2>2
<1>8. Parsed(d, lo, hs, hi)
  BY <1>2, <1>5, <1>6, <1>7 DEF Parsed
<1> QED BY <1>8 DEF hs

\* What a pass finds in a part of w it would find in w.
LEMMA ParsedWithin ==
  ASSUME NEW w \in Seq(Byte), NEW d \in Seq(Byte), NEW b \in Nat, Holds(w, b, d),
         NEW lo \in Nat, NEW hi \in Nat, NEW fs, Parsed(d, lo, fs, hi)
  PROVE  Parsed(w, b + lo, [k \in DOMAIN fs |-> b + fs[k]], b + hi)
PROOF
<1> DEFINE hs == [k \in DOMAIN fs |-> b + fs[k]]
           n == Len(fs)
<1>1. fs \in Seq(Nat) /\ n \in Nat /\ DOMAIN fs = 1 .. n /\ DOMAIN hs = 1 .. n /\ hs \in Seq(Nat)
  <2>1. fs \in Seq(Nat)
    BY DEF Parsed
  <2>2. n \in Nat /\ DOMAIN fs = 1 .. n /\ \A k \in 1 .. n : b + fs[k] \in Nat
    BY <2>1
  <2>3. hs \in [1 .. n -> Nat]
    BY <2>2
  <2> QED BY <2>1, <2>2, <2>3
<1>2. \A k \in 1 .. n : hs[k] = b + fs[k] /\ fs[k] \in Nat
  BY <1>1
<1> HIDE DEF hs, n
<1>3. ASSUME NEW k \in 1 .. n
      PROVE  /\ lo <= fs[k] /\ HeaderAt(d, fs[k]) /\ FrameEnd(d, fs[k]) <= hi /\ FrameEnd(d, fs[k]) \in Nat
             /\ HeaderAt(w, hs[k]) /\ FrameEnd(w, hs[k]) = b + FrameEnd(d, fs[k])
  <2>1. lo <= fs[k] /\ HeaderAt(d, fs[k]) /\ FrameEnd(d, fs[k]) <= hi
    BY <1>1 DEF Parsed
  <2>2. fs[k] + HeaderLength <= Len(d) /\ fs[k] \in Nat
    BY <1>2, <2>1 DEF HeaderAt
  <2>3. /\ HeaderAt(w, b + fs[k]) <=> HeaderAt(d, fs[k])
        /\ FrameEnd(d, fs[k]) \in Nat /\ FrameEnd(w, b + fs[k]) = b + FrameEnd(d, fs[k])
    BY <2>2, SameHeader
  <2> QED BY <1>2, <2>1, <2>3
<1>4. ASSUME NEW k \in 1 .. n
      PROVE  b + lo <= hs[k] /\ FrameEnd(w, hs[k]) <= b + hi
  <2>1. /\ lo <= fs[k] /\ fs[k] \in Nat /\ FrameEnd(d, fs[k]) <= hi /\ FrameEnd(d, fs[k]) \in Nat
        /\ hs[k] = b + fs[k] /\ FrameEnd(w, hs[k]) = b + FrameEnd(d, fs[k])
    BY <1>2, <1>3
  <2>2. b + lo <= b + fs[k] /\ b + FrameEnd(d, fs[k]) <= b + hi
    BY <2>1
  <2> QED BY <2>1, <2>2
<1>5. ASSUME NEW j \in 1 .. n, NEW k \in 1 .. n, j < k
      PROVE  FrameEnd(w, hs[j]) <= hs[k]
  <2>1. FrameEnd(d, fs[j]) <= fs[k]
    BY <1>1, <1>5 DEF Parsed
  <2>2. /\ FrameEnd(d, fs[j]) \in Nat /\ fs[k] \in Nat
        /\ FrameEnd(w, hs[j]) = b + FrameEnd(d, fs[j]) /\ hs[k] = b + fs[k]
    BY <1>2, <1>3
  <2>3. b + FrameEnd(d, fs[j]) <= b + fs[k]
    BY <2>1, <2>2
  <2> QED BY <2>2, <2>3
<1>6. ASSUME NEW o \in Nat, b + lo <= o, o < b + hi
      PROVE  Resolved(w, hs, o)
  <2> DEFINE p == o - b
  <2>1. p \in Nat /\ lo <= p /\ p < hi /\ o = b + p
    BY <1>6
  <2> HIDE DEF p
  <2>2. Resolved(d, fs, p)
    BY <2>1 DEF Parsed
  <2>3. ASSUME NEW k \in 1 .. n, fs[k] <= p, p < FrameEnd(d, fs[k])
        PROVE  Resolved(w, hs, o)
    <3>1. /\ fs[k] \in Nat /\ FrameEnd(d, fs[k]) \in Nat
          /\ hs[k] = b + fs[k] /\ FrameEnd(w, hs[k]) = b + FrameEnd(d, fs[k])
      BY <1>2, <1>3
    <3>2. b + fs[k] <= b + p /\ b + p < b + FrameEnd(d, fs[k])
      BY <2>1, <2>3, <3>1
    <3>3. hs[k] <= o /\ o < FrameEnd(w, hs[k])
      BY <2>1, <3>1, <3>2
    <3> QED BY <1>1, <3>3 DEF Resolved
  <2>4. ASSUME p + HeaderLength <= Len(d), ~HeaderAt(d, p)
        PROVE  Resolved(w, hs, o)
    <3>1. ~HeaderAt(w, o)
      BY <2>1, <2>4, SameHeader
    <3>2. o + HeaderLength <= Len(w)
      <4>1. b + Len(d) <= Len(w) /\ Len(w) \in Nat /\ Len(d) \in Nat /\ HeaderLength \in Nat
        BY Codec DEF Holds
      <4> QED BY <2>1, <2>4, <4>1
    <3> QED BY <3>1, <3>2 DEF Resolved
  <2> QED BY <1>1, <2>2, <2>3, <2>4 DEF Resolved
<1>7. Parsed(w, b + lo, hs, b + hi)
  BY <1>1, <1>3, <1>4, <1>5, <1>6 DEF Parsed
<1> QED BY <1>7 DEF hs

\* A pass that ends at one of its frames has found those before it.
LEMMA ParsedUntil ==
  ASSUME NEW d \in Seq(Byte), NEW lo \in Nat, NEW hi \in Nat, NEW fs, Parsed(d, lo, fs, hi),
         NEW n \in 1 .. Len(fs)
  PROVE  Parsed(d, lo, SubSeq(fs, 1, n - 1), fs[n]) /\ fs[n] \in Nat /\ fs[n] < hi
PROOF
<1> DEFINE gs == SubSeq(fs, 1, n - 1)
<1>1. fs \in Seq(Nat) /\ Len(fs) \in Nat /\ DOMAIN fs = 1 .. Len(fs) /\ \A k \in DOMAIN fs : fs[k] \in Nat
  BY DEF Parsed
<1>2. n - 1 \in Nat /\ n - 1 <= Len(fs) /\ n \in DOMAIN fs /\ 1 .. (n - 1) \subseteq DOMAIN fs
  BY <1>1
<1>3. gs \in Seq(Nat) /\ DOMAIN gs = 1 .. (n - 1) /\ \A k \in 1 .. (n - 1) : gs[k] = fs[k]
  <2>1. /\ SubSeq(fs, 0 + 1, 0 + (n - 1)) \in Seq(Nat) /\ DOMAIN SubSeq(fs, 0 + 1, 0 + (n - 1)) = 1 .. (n - 1)
        /\ \A k \in 1 .. (n - 1) : SubSeq(fs, 0 + 1, 0 + (n - 1))[k] = fs[0 + k]
    BY <1>1, <1>2, Part
  <2>2. 0 + 1 = 1 /\ 0 + (n - 1) = n - 1 /\ \A k \in 1 .. (n - 1) : 0 + k = k
    BY <1>2
  <2> QED BY <2>1, <2>2
<1> HIDE DEF gs
<1>4. \A k \in DOMAIN fs : /\ lo <= fs[k] /\ HeaderAt(d, fs[k]) /\ FrameEnd(d, fs[k]) <= hi
                           /\ FrameEnd(d, fs[k]) \in Nat /\ FrameEnd(d, fs[k]) > fs[k]
  BY <1>1, Header DEF Parsed
<1>5. \A k \in 1 .. (n - 1) : FrameEnd(d, fs[k]) <= fs[n]
  <2>1. \A k \in 1 .. (n - 1) : k < n
    OBVIOUS
  <2> QED BY <1>2, <2>1 DEF Parsed
<1>6. \A j, k \in 1 .. (n - 1) : j < k => FrameEnd(d, gs[j]) <= gs[k]
  BY <1>2, <1>3 DEF Parsed
<1>7. fs[n] \in Nat /\ fs[n] < hi
  BY <1>1, <1>2, <1>4
<1>8. ASSUME NEW o \in Nat, lo <= o, o < fs[n]
      PROVE  Resolved(d, gs, o)
  <2>1. Resolved(d, fs, o)
    BY <1>7, <1>8 DEF Parsed
  <2>2. ASSUME NEW k \in DOMAIN fs, fs[k] <= o, o < FrameEnd(d, fs[k])
        PROVE  Resolved(d, gs, o)
    <3>1. ~(n <= k)
      <4>1. CASE k = n
        BY <1>7, <1>8, <2>2, <4>1
      <4>2. CASE n < k
        <5>1. FrameEnd(d, fs[n]) <= fs[k]
          BY <1>2, <4>2 DEF Parsed
        <5>2. FrameEnd(d, fs[n]) > fs[n] /\ FrameEnd(d, fs[n]) \in Nat /\ fs[k] \in Nat
          BY <1>1, <1>2, <1>4
        <5> QED BY <1>7, <1>8, <2>2, <5>1, <5>2
      <4> QED BY <1>1, <4>1, <4>2
    <3>2. k \in 1 .. (n - 1)
      BY <1>1, <3>1
    <3> QED BY <1>3, <2>2, <3>2 DEF Resolved
  <2> QED BY <2>1, <2>2 DEF Resolved
<1>9. Parsed(d, lo, gs, fs[n])
  BY <1>2, <1>3, <1>4, <1>5, <1>6, <1>8 DEF Parsed
<1> QED BY <1>7, <1>9 DEF gs

-----------------------------------------------------------------------------
(* scan() *)

\* scan() ends where too little is left for a header, or at an incomplete frame.
Residue(d, o) == o + HeaderLength > Len(d) \/ (HeaderAt(d, o) /\ FrameEnd(d, o) > Len(d))

\* r is what a pass over d from o on leaves.
Pass(d, o, r) ==
  /\ r \in [offset : Nat, frames : Seq(Nat)]
  /\ o <= r.offset /\ r.offset <= Len(d)
  /\ Parsed(d, o, r.frames, r.offset)
  /\ Residue(d, r.offset)

\* One byte or one frame, and then a pass over what follows.
LEMMA ParsedByte ==
  ASSUME NEW d \in Seq(Byte), NEW o \in Nat, o + HeaderLength <= Len(d), ~HeaderAt(d, o)
  PROVE  Parsed(d, o, << >>, o + 1)
PROOF
<1>1. ASSUME NEW p \in Nat, o <= p, p < o + 1
      PROVE  Resolved(d, << >>, p)
  <2>1. p = o
    BY <1>1
  <2> QED BY <2>1 DEF Resolved
<1> QED BY <1>1 DEF Parsed

LEMMA ParsedNothing ==
  ASSUME NEW d, NEW o \in Nat
  PROVE  Parsed(d, o, << >>, o)
  BY DEF Parsed

LEMMA ParsedFrame ==
  ASSUME NEW d \in Seq(Byte), NEW o \in Nat, HeaderAt(d, o)
  PROVE  Parsed(d, o, <<o>>, FrameEnd(d, o))
PROOF
<1>1. FrameEnd(d, o) \in Nat
  BY Header
<1>2. <<o>> \in Seq(Nat) /\ DOMAIN <<o>> = {1} /\ <<o>>[1] = o
  OBVIOUS
<1>3. \A p \in Nat : o <= p /\ p < FrameEnd(d, o) => Resolved(d, <<o>>, p)
  BY <1>2 DEF Resolved
<1> QED BY <1>1, <1>2, <1>3 DEF Parsed

LEMMA PassOn ==
  ASSUME NEW d \in Seq(Byte), NEW o \in Nat, NEW m \in Nat, o <= m, NEW fs, Parsed(d, o, fs, m),
         NEW r, Pass(d, m, r)
  PROVE  Parsed(d, o, fs \o r.frames, r.offset) /\ o <= r.offset
PROOF
<1>1. r.offset \in Nat /\ m <= r.offset /\ Parsed(d, m, r.frames, r.offset)
  BY DEF Pass
<1> DEFINE hi == r.offset
           gs == r.frames
<1> HIDE DEF hi, gs
<1>2. hi \in Nat /\ m <= hi /\ Parsed(d, m, gs, hi)
  BY <1>1 DEF hi, gs
<1>3. Parsed(d, o, fs \o gs, hi) /\ o <= hi
  BY <1>2, ParsedOn
<1> QED BY <1>3 DEF hi, gs

\* scan() does what one pass does.
LEMMA ScanPasses ==
  ASSUME NEW d \in Seq(Byte)
  PROVE  Pass(d, 0, Scan(d))
PROOF
<1> DEFINE L == Len(d)
           H == HeaderLength
           Stop(o) == [offset |-> o, frames |-> << >>]
           Take(f, o) == [f[FrameEnd(d, o)] EXCEPT !.frames = <<o>> \o @]
           Body(f, o) == IF o + H > L THEN Stop(o)
                         ELSE IF ~HeaderAt(d, o) THEN f[o + 1]
                         ELSE IF FrameEnd(d, o) > L THEN Stop(o)
                         ELSE Take(f, o)
           From(k, f) == f = [o \in k .. L |-> Body(f, o)]
           S == {k \in 0 .. L : \E f : From(k, f)}
<1>0. L \in Nat /\ H \in Nat \ {0}
  BY Codec
<1>1. ASSUME NEW o \in 0 .. L, ~(o + H > L)
      PROVE  /\ o + 1 \in 0 .. L /\ o + 1 > o /\ o + H <= L
             /\ HeaderAt(d, o) /\ ~(FrameEnd(d, o) > L) => FrameEnd(d, o) \in 0 .. L /\ FrameEnd(d, o) > o
  <2>1. o + 1 \in 0 .. L /\ o + 1 > o /\ o + H <= L
    BY <1>0, <1>1
  <2>2. HeaderAt(d, o) => FrameEnd(d, o) \in Nat /\ FrameEnd(d, o) > o
    BY Header
  <2> QED BY <1>0, <2>1, <2>2
<1>2. ASSUME NEW f, NEW g, NEW o \in 0 .. L, \A j \in 0 .. L : j > o => f[j] = g[j]
      PROVE  Body(f, o) = Body(g, o)
  <2>1. CASE o + H > L
    BY <2>1
  <2>2. CASE ~(o + H > L) /\ ~HeaderAt(d, o)
    <3>1. f[o + 1] = g[o + 1]
      BY <1>1, <1>2, <2>2
    <3> QED BY <2>2, <3>1
  <2>3. CASE ~(o + H > L) /\ HeaderAt(d, o) /\ FrameEnd(d, o) > L
    BY <2>3
  <2>4. CASE ~(o + H > L) /\ HeaderAt(d, o) /\ ~(FrameEnd(d, o) > L)
    <3>1. f[FrameEnd(d, o)] = g[FrameEnd(d, o)]
      BY <1>1, <1>2, <2>4
    <3> QED BY <2>4, <3>1, Zenon
  <2> QED BY <2>1, <2>2, <2>3, <2>4
<1> HIDE DEF L, H, Body
<1>3. ASSUME NEW k \in 0 .. L, \A j \in 0 .. L : j > k => j \in S
      PROVE  k \in S
  <2>1. PICK f : \A o \in 0 .. L : o > k => f[o] = Body(f, o)
    <3>1. CASE k = L
      BY <1>0, <3>1
    <3>2. CASE k # L
      <4>1. k + 1 \in 0 .. L /\ k + 1 > k
        BY <1>0, <3>2
      <4>2. PICK f : From(k + 1, f)
        BY <1>3, <4>1
      <4>3. \A o \in (k + 1) .. L : f[o] = Body(f, o)
        BY <4>2
      <4>4. \A o \in 0 .. L : o > k => o \in (k + 1) .. L
        BY <1>0
      <4> QED BY <4>3, <4>4
    <3> QED BY <3>1, <3>2
  <2> DEFINE g == [o \in k .. L |-> Body(f, o)]
  <2>2. \A o \in k .. L : o \in 0 .. L /\ g[o] = Body(f, o)
    BY <1>0
  <2>3. \A j \in 0 .. L : j > k => f[j] = g[j]
    <3>1. \A j \in 0 .. L : j > k => j \in k .. L
      BY <1>0
    <3> HIDE DEF g
    <3> QED BY <2>1, <2>2, <3>1
  <2>4. ASSUME NEW o \in k .. L
        PROVE  Body(f, o) = Body(g, o)
    <3>1. o \in 0 .. L /\ \A j \in 0 .. L : j > o => j > k
      BY <1>0
    <3> HIDE DEF g
    <3> QED BY <1>2, <2>3, <3>1
  <2>5. From(k, g)
    BY <2>4, Zenon
  <2> HIDE DEF g, From
  <2> QED BY <2>5
<1>4. 0 .. L \subseteq S
  <2> HIDE DEF S
  <2> QED BY <1>0, <1>3, DownFrom
<1>5. \E f : From(0, f)
  <2>1. 0 \in 0 .. L
    BY <1>0
  <2>2. 0 \in S
    BY <1>4, <2>1, Zenon
  <2> HIDE DEF From
  <2> QED BY <2>2, Zenon
<1> DEFINE t == CHOOSE f : From(0, f)
<1>6. From(0, t)
  BY <1>5, Zenon
<1>7. Scan(d) = t[0]
  BY Zenon DEF Scan, L, H, Body
<1> HIDE DEF t
<1>8. \A o \in 0 .. L : t[o] = Body(t, o)
  BY <1>6
<1> DEFINE R == {o \in 0 .. L : Pass(d, o, t[o])}
<1>9. ASSUME NEW o \in 0 .. L, \A j \in 0 .. L : j > o => j \in R
      PROVE  o \in R
  <2>0. o \in Nat
    BY <1>0
  <2>1. CASE t[o] = Stop(o) /\ Residue(d, o)
    <3>1. t[o] \in [offset : Nat, frames : Seq(Nat)] /\ t[o].offset = o /\ t[o].frames = << >>
      BY <2>0, <2>1
    <3>2. Pass(d, o, t[o])
      BY <1>0, <2>0, <2>1, <3>1, ParsedNothing DEF Pass, L
    <3> QED BY <3>2
  <2>2. CASE o + H > L
    <3>1. t[o] = Stop(o)
      BY <1>8, <2>2 DEF Body
    <3> QED BY <2>1, <2>2, <3>1 DEF Residue, H, L
  <2>3. CASE ~(o + H > L) /\ HeaderAt(d, o) /\ FrameEnd(d, o) > L
    <3>1. t[o] = Stop(o)
      BY <1>8, <2>3 DEF Body
    <3> QED BY <2>1, <2>3, <3>1 DEF Residue, L
  <2>4. CASE ~(o + H > L) /\ ~HeaderAt(d, o)
    <3> DEFINE r == t[o + 1]
    <3>1. t[o] = r
      BY <1>8, <2>4 DEF Body
    <3>2. o + 1 \in 0 .. L /\ o + 1 > o /\ o + H <= L
      BY <1>1, <2>4
    <3>3. Pass(d, o + 1, r)
      BY <1>9, <3>2
    <3>4. Parsed(d, o, << >>, o + 1)
      BY <2>0, <2>4, <3>2, ParsedByte DEF H, L
    <3> HIDE DEF r
    <3>5. Parsed(d, o, << >> \o r.frames, r.offset) /\ o <= r.offset
      <4> DEFINE m == o + 1
      <4>1. m \in Nat /\ o <= m
        BY <2>0
      <4>2. Pass(d, m, r) /\ Parsed(d, o, << >>, m)
        BY <3>3, <3>4
      <4>3. << >> \in Seq(Nat)
        OBVIOUS
      <4> HIDE DEF m
      <4> QED BY <2>0, <4>1, <4>2, <4>3, PassOn
    <3>6. << >> \o r.frames = r.frames
      BY <3>3 DEF Pass
    <3>7. Pass(d, o, r)
      BY <3>3, <3>5, <3>6 DEF Pass
    <3> QED BY <3>1, <3>7
  <2>5. CASE ~(o + H > L) /\ HeaderAt(d, o) /\ ~(FrameEnd(d, o) > L)
    <3> DEFINE e == FrameEnd(d, o)
               r == t[e]
               q == [r EXCEPT !.frames = <<o>> \o @]
    <3>1. t[o] = q
      BY <1>8, <2>5, Zenon DEF Body
    <3>2. e \in 0 .. L /\ e > o
      BY <1>1, <2>5
    <3>3. Pass(d, e, r)
      <4> HIDE DEF e
      <4> QED BY <1>9, <3>2
    <3>4. Parsed(d, o, <<o>>, e)
      BY <2>0, <2>5, ParsedFrame
    <3> HIDE DEF r, e
    <3>5. Parsed(d, o, <<o>> \o r.frames, r.offset) /\ o <= r.offset
      <4>1. e \in Nat /\ o <= e
        BY <1>0, <2>0, <3>2
      <4> QED BY <2>0, <3>3, <3>4, <4>1, PassOn
    <3>6. r \in [offset : Nat, frames : Seq(Nat)] /\ <<o>> \o r.frames \in Seq(Nat)
      <4>1. r \in [offset : Nat, frames : Seq(Nat)]
        BY <3>3 DEF Pass
      <4>2. <<o>> \o r.frames \in Seq(Nat)
        BY <3>5 DEF Parsed
      <4> QED BY <4>1, <4>2
    <3>7. q \in [offset : Nat, frames : Seq(Nat)] /\ q.offset = r.offset /\ q.frames = <<o>> \o r.frames
      BY <3>6
    <3> HIDE DEF q
    <3>8. Pass(d, o, q)
      BY <3>3, <3>5, <3>7 DEF Pass
    <3> QED BY <3>1, <3>8
  <2> QED BY <2>2, <2>3, <2>4, <2>5
<1>10. 0 .. L \subseteq R
  <2> HIDE DEF R
  <2> QED BY <1>0, <1>9, DownFrom
<1>11. 0 \in 0 .. L
  BY <1>0
<1> QED BY <1>7, <1>10, <1>11

-----------------------------------------------------------------------------
(* FrameCodec: the receiving peer *)

\* The buffer is what decode() has left of the input, and the callbacks that
\* returned are those of one pass over the rest.
CodecInv ==
  /\ stream \in Seq(Byte) /\ received \in 0 .. Len(stream)
  /\ buffer \in Seq(Byte) /\ Len(buffer) <= received
  /\ Holds(Input, Consumed, buffer)
  /\ Parsed(Input, 0, handled, Consumed)
  /\ threw \in BOOLEAN
  /\ ~threw => Residue(buffer, 0)

LEMMA InputIs ==
  ASSUME NEW s \in Seq(Byte), NEW n \in 0 .. Len(s)
  PROVE  /\ SubSeq(s, 1, n) \in Seq(Byte) /\ Len(SubSeq(s, 1, n)) = n
         /\ \A i \in 1 .. n : SubSeq(s, 1, n)[i] = s[i]
PROOF
<1>1. n \in Nat /\ 0 \in Nat /\ 0 + n <= Len(s) /\ 0 + 1 = 1 /\ 0 + n = n /\ \A i \in 1 .. n : 0 + i = i
  OBVIOUS
<1>2. /\ SubSeq(s, 0 + 1, 0 + n) \in Seq(Byte) /\ Len(SubSeq(s, 0 + 1, 0 + n)) = n
      /\ \A i \in 1 .. n : SubSeq(s, 0 + 1, 0 + n)[i] = s[0 + i]
  BY <1>1, Part
<1> QED BY <1>1, <1>2

\* What is sent does not change what has been received.
LEMMA TransmitKeeps ==
  ASSUME CodecInv, NEW bytes \in Seq(Byte), Transmit(bytes)
  PROVE  CodecInv'
PROOF
<1>1. stream \in Seq(Byte) /\ received \in 0 .. Len(stream) /\ Len(stream) \in Nat
  BY DEF CodecInv
<1>2. stream' = stream \o bytes /\ UNCHANGED <<received, buffer, handled, threw>>
  BY DEF Transmit
<1>3. /\ stream' \in Seq(Byte) /\ Len(stream') = Len(stream) + Len(bytes)
      /\ \A i \in 1 .. Len(stream) : stream'[i] = stream[i]
  BY <1>1, <1>2, Joined
<1>4. received' \in 0 .. Len(stream') /\ Len(bytes) \in Nat
  BY <1>1, <1>2, <1>3
<1>5. Input' = Input
  <2>1. 0 \in Nat /\ received \in Nat
    BY <1>1
  <2>2. Alike(stream', 0, stream, 0, received)
    <3>1. 0 + received <= Len(stream') /\ 0 + received <= Len(stream)
      BY <1>1, <1>3, <1>4
    <3>2. \A i \in 1 .. received : 0 + i = i /\ i \in 1 .. Len(stream)
      BY <1>1
    <3> QED BY <1>3, <3>1, <3>2 DEF Alike
  <2>3. SubSeq(stream', 0 + 1, 0 + received) = SubSeq(stream, 0 + 1, 0 + received)
    BY <1>1, <1>3, <2>1, <2>2, SamePart
  <2>4. 0 + 1 = 1 /\ 0 + received = received
    BY <2>1
  <2> QED BY <1>2, <2>3, <2>4 DEF Input
<1>6. Consumed' = Consumed
  BY <1>2 DEF Consumed
<1> QED BY <1>2, <1>3, <1>4, <1>5, <1>6 DEF CodecInv

\* decode() goes on with the pass, up to the frame at which the callback throws.
LEMMA Decoded ==
  ASSUME NEW d \in Seq(Byte), NEW n \in 0 .. Len(Scan(d).frames)
  PROVE  /\ Decode(d, n).offset \in Nat /\ Decode(d, n).offset <= Len(d)
         /\ Parsed(d, 0, Decode(d, n).frames, Decode(d, n).offset)
         /\ n = 0 => Residue(d, Decode(d, n).offset)
PROOF
<1> DEFINE s == Scan(d)
<1>1. /\ s.offset \in Nat /\ s.offset <= Len(d) /\ s.frames \in Seq(Nat)
      /\ Parsed(d, 0, s.frames, s.offset) /\ Residue(d, s.offset)
  BY ScanPasses DEF Pass
<1>2. CASE n = 0
  <2>1. Decode(d, n) = s
    BY <1>2 DEF Decode
  <2> QED BY <1>1, <2>1
<1>3. CASE n # 0
  <2>1. Decode(d, n) = [offset |-> s.frames[n], frames |-> SubSeq(s.frames, 1, n - 1)]
    BY <1>3 DEF Decode
  <2>2. Decode(d, n).offset = s.frames[n] /\ Decode(d, n).frames = SubSeq(s.frames, 1, n - 1)
    BY <2>1
  <2> DEFINE fs == s.frames
             hi == s.offset
  <2>3. hi \in Nat /\ hi <= Len(d) /\ fs \in Seq(Nat) /\ Parsed(d, 0, fs, hi) /\ n \in 1 .. Len(fs) /\ 0 \in Nat
    BY <1>1, <1>3
  <2> HIDE DEF fs, hi
  <2>4. Parsed(d, 0, SubSeq(fs, 1, n - 1), fs[n]) /\ fs[n] \in Nat /\ fs[n] < hi
    BY <2>3, ParsedUntil
  <2>5. fs[n] <= Len(d)
    BY <2>3, <2>4
  <2> QED BY <1>3, <2>2, <2>4, <2>5 DEF fs
<1> QED BY <1>2, <1>3

\* commit() and decode().
LEMMA ReceiveKeeps ==
  ASSUME CodecInv, NEW n \in Nat \ {0}, Receive(n)
  PROVE  CodecInv'
PROOF
<1> DEFINE b == received - Len(buffer)
           chunk == SubSeq(stream, received + 1, received + n)
           data == buffer \o chunk
<1>1. /\ stream \in Seq(Byte) /\ received \in Nat /\ received <= Len(stream) /\ Len(stream) \in Nat
      /\ buffer \in Seq(Byte) /\ Len(buffer) \in Nat /\ Len(buffer) <= received
      /\ b \in Nat /\ b + Len(buffer) = received /\ b <= received /\ Consumed = b
      /\ ~threw
  BY DEF CodecInv, Receive, Consumed
<1>2. /\ received + n <= Len(stream) /\ received' = received + n /\ stream' = stream
      /\ received' \in 0 .. Len(stream') /\ received' \in Nat
  BY <1>1 DEF Receive
<1>3. PICK t \in 0 .. Len(Scan(data).frames) :
        /\ buffer' = SubSeq(data, Decode(data, t).offset + 1, Len(data))
        /\ handled' = handled \o [k \in DOMAIN Decode(data, t).frames |-> b + Decode(data, t).frames[k]]
        /\ threw' = (t # 0)
  BY DEF Receive
<1>4. chunk \in Seq(Byte) /\ Len(chunk) = n /\ \A i \in 1 .. n : chunk[i] = stream[received + i]
  BY <1>1, <1>2, Part
<1> HIDE DEF chunk
<1>5. /\ data \in Seq(Byte) /\ Len(data) = Len(buffer) + n
      /\ \A i \in 1 .. Len(buffer) : data[i] = buffer[i]
      /\ \A i \in 1 .. (Len(buffer) + n) : i > Len(buffer) => data[i] = chunk[i - Len(buffer)] /\ i - Len(buffer) \in 1 .. n
  <2> DEFINE p == buffer
             q == chunk
  <2>0. p \in Seq(Byte) /\ q \in Seq(Byte)
    BY <1>1, <1>4
  <2> HIDE DEF p, q
  <2>1. /\ p \o q \in Seq(Byte) /\ Len(p \o q) = Len(p) + Len(q)
        /\ \A i \in 1 .. Len(p) : (p \o q)[i] = p[i]
        /\ \A i \in 1 .. (Len(p) + Len(q)) : i > Len(p) => (p \o q)[i] = q[i - Len(p)] /\ i - Len(p) \in 1 .. Len(q)
    BY <2>0, Joined
  <2>2. /\ data \in Seq(Byte) /\ Len(data) = Len(buffer) + Len(chunk)
        /\ \A i \in 1 .. Len(buffer) : data[i] = buffer[i]
        /\ \A i \in 1 .. (Len(buffer) + Len(chunk)) : i > Len(buffer) =>
             data[i] = chunk[i - Len(buffer)] /\ i - Len(buffer) \in 1 .. Len(chunk)
    BY <2>1, Zenon DEF p, q
  <2> HIDE DEF data
  <2> QED BY <1>4, <2>2
<1> HIDE DEF data, b
<1>6. /\ Input \in Seq(Byte) /\ Len(Input) = received /\ \A i \in 1 .. received : Input[i] = stream[i]
  <2>1. received \in 0 .. Len(stream)
    BY <1>1
  <2> QED BY <1>1, <2>1, InputIs DEF Input
<1>7. /\ Input' \in Seq(Byte) /\ Len(Input') = received + n /\ \A i \in 1 .. (received + n) : Input'[i] = stream[i]
  BY <1>1, <1>2, InputIs DEF Input
<1>8. Holds(Input', 0, Input)
  <2>1. 0 + Len(Input) <= Len(Input')
    BY <1>1, <1>6, <1>7
  <2>2. \A i \in 1 .. received : 0 + i = i /\ i \in 1 .. (received + n)
    BY <1>1
  <2> QED BY <1>6, <1>7, <2>1, <2>2 DEF Holds
<1>9. Holds(Input', b, data)
  <2>1. b + Len(data) <= Len(Input')
    BY <1>1, <1>5, <1>7
  <2>2. ASSUME NEW i \in 1 .. Len(data)
        PROVE  Input'[b + i] = data[i]
    <3>1. b + i \in 1 .. (received + n) /\ i \in 1 .. (Len(buffer) + n)
      BY <1>1, <1>5
    <3>2. Input'[b + i] = stream[b + i]
      BY <1>7, <3>1
    <3>3. CASE i \in 1 .. Len(buffer)
      <4>1. Holds(Input, b, buffer)
        BY <1>1 DEF CodecInv
      <4>2. Input[b + i] = buffer[i]
        BY <3>3, <4>1 DEF Holds
      <4>3. b + i \in 1 .. received
        BY <1>1, <3>3
      <4> QED BY <1>5, <1>6, <3>2, <3>3, <4>2, <4>3
    <3>4. CASE i > Len(buffer)
      <4>1. data[i] = chunk[i - Len(buffer)] /\ i - Len(buffer) \in 1 .. n
        BY <1>5, <3>1, <3>4
      <4>2. chunk[i - Len(buffer)] = stream[received + (i - Len(buffer))]
        BY <1>4, <4>1
      <4>3. received + (i - Len(buffer)) = b + i
        BY <1>1, <3>1
      <4> QED BY <3>2, <4>1, <4>2, <4>3
    <3> QED BY <1>1, <3>1, <3>3, <3>4
  <2> QED BY <2>1, <2>2 DEF Holds
<1> DEFINE off == Decode(data, t).offset
           fs == Decode(data, t).frames
           gs == [k \in DOMAIN fs |-> b + fs[k]]
<1>10. off \in Nat /\ off <= Len(data) /\ Parsed(data, 0, fs, off) /\ (t = 0 => Residue(data, off))
  BY <1>5, Decoded
<1> HIDE DEF off, fs
<1>11. buffer' = SubSeq(data, off + 1, Len(data)) /\ handled' = handled \o gs
  BY <1>3 DEF off, fs
<1>12. /\ buffer' \in Seq(Byte) /\ Len(buffer') = Len(data) - off /\ Len(buffer') \in Nat
       /\ \A i \in 1 .. Len(buffer') : buffer'[i] = data[off + i]
  <2> DEFINE m == Len(data) - off
  <2>1. m \in Nat /\ off + m = Len(data) /\ off + m <= Len(data)
    BY <1>1, <1>5, <1>10
  <2> HIDE DEF m
  <2>2. /\ SubSeq(data, off + 1, off + m) \in Seq(Byte) /\ Len(SubSeq(data, off + 1, off + m)) = m
        /\ \A i \in 1 .. m : SubSeq(data, off + 1, off + m)[i] = data[off + i]
    BY <1>5, <1>10, <2>1, Part
  <2>3. buffer' = SubSeq(data, off + 1, off + m)
    BY <1>11, <2>1
  <2>4. Len(buffer') = m
    BY <2>2, <2>3
  <2> QED BY <2>1, <2>2, <2>3, <2>4 DEF m
<1>13. Consumed' = b + off /\ Len(buffer') <= received' /\ b + off \in Nat
  BY <1>1, <1>2, <1>5, <1>10, <1>12 DEF Consumed
<1>14. Holds(data, off, buffer')
  BY <1>1, <1>5, <1>10, <1>12 DEF Holds
<1>15. Holds(Input', b + off, buffer')
  <2>1. (b + off) + Len(buffer') <= Len(Input')
    BY <1>1, <1>5, <1>7, <1>10, <1>12
  <2>2. ASSUME NEW i \in 1 .. Len(buffer')
        PROVE  Input'[(b + off) + i] = buffer'[i]
    <3>1. off + i \in 1 .. Len(data) /\ (b + off) + i = b + (off + i)
      BY <1>1, <1>5, <1>10, <1>12
    <3>2. Input'[b + (off + i)] = data[off + i]
      BY <1>9, <3>1 DEF Holds
    <3> QED BY <1>12, <3>1, <3>2
  <2> QED BY <2>1, <2>2 DEF Holds
<1>16. Parsed(Input', 0, handled', b + off)
  <2> DEFINE hs == [k \in DOMAIN handled |-> 0 + handled[k]]
  <2>1. Parsed(Input, 0, handled, b)
    BY <1>1 DEF CodecInv
  <2>2. Parsed(Input', 0 + 0, hs, 0 + b)
    BY <1>1, <1>6, <1>7, <1>8, <2>1, ParsedWithin
  <2>3. hs = handled
    <3>1. handled \in Seq(Nat)
      BY <2>1 DEF Parsed
    <3>2. handled = [k \in DOMAIN handled |-> handled[k]] /\ \A k \in DOMAIN handled : 0 + handled[k] = handled[k]
      BY <3>1
    <3> QED BY <3>2
  <2>4. Parsed(Input', 0, handled, b)
    <3>1. 0 + 0 = 0 /\ 0 + b = b
      BY <1>1
    <3> HIDE DEF hs
    <3> QED BY <2>2, <2>3, <3>1
  <2>5. Parsed(Input', b + 0, gs, b + off)
    BY <1>1, <1>5, <1>7, <1>9, <1>10, ParsedWithin
  <2>6. b + 0 = b /\ 0 <= b /\ b <= b + off
    BY <1>1, <1>10
  <2> HIDE DEF gs
  <2>7. Parsed(Input', b, gs, b + off)
    BY <2>5, <2>6
  <2>8. Parsed(Input', 0, handled \o gs, b + off)
    <3> DEFINE w == Input'
               hi == b + off
    <3>1. w \in Seq(Byte) /\ hi \in Nat /\ b <= hi /\ Parsed(w, 0, handled, b) /\ Parsed(w, b, gs, hi)
      BY <1>7, <1>13, <2>4, <2>6, <2>7
    <3> HIDE DEF w, hi
    <3>2. Parsed(w, 0, handled \o gs, hi)
      BY <1>1, <2>6, <3>1, ParsedOn
    <3> QED BY <3>2 DEF w, hi
  <2> QED BY <1>11, <2>8
<1>17. ASSUME ~threw'
       PROVE  Residue(buffer', 0)
  <2>1. Residue(data, off)
    BY <1>3, <1>10, <1>17
  <2>2. HeaderLength \in Nat /\ off + 0 = off /\ Len(data) \in Nat
    BY <1>1, <1>5, <1>10, Codec
  <2>3. CASE off + HeaderLength > Len(data)
    <3>1. 0 + HeaderLength > Len(buffer')
      BY <1>5, <1>10, <1>12, <2>2, <2>3
    <3> QED BY <3>1 DEF Residue
  <2>4. CASE ~(off + HeaderLength > Len(data)) /\ HeaderAt(data, off) /\ FrameEnd(data, off) > Len(data)
    <3>1. 0 + HeaderLength <= Len(buffer')
      BY <1>5, <1>10, <1>12, <2>2, <2>4
    <3> DEFINE c == buffer'
    <3>2. c \in Seq(Byte) /\ Holds(data, off, c) /\ 0 + HeaderLength <= Len(c) /\ 0 \in Nat
      BY <1>12, <1>14, <3>1
    <3> HIDE DEF c
    <3>3. /\ HeaderAt(data, off + 0) <=> HeaderAt(c, 0)
          /\ FrameEnd(c, 0) \in Nat /\ FrameEnd(data, off + 0) = off + FrameEnd(c, 0)
      BY <1>5, <1>10, <3>2, SameHeader
    <3>4. HeaderAt(c, 0) /\ off + FrameEnd(c, 0) > Len(data) /\ FrameEnd(c, 0) \in Nat
      BY <2>2, <2>4, <3>3
    <3>5. FrameEnd(c, 0) > Len(data) - off
      BY <1>10, <2>2, <3>4
    <3>6. FrameEnd(buffer', 0) > Len(buffer') /\ HeaderAt(buffer', 0)
      BY <1>12, <3>4, <3>5 DEF c
    <3> QED BY <3>6 DEF Residue
  <2> QED BY <2>1, <2>3, <2>4 DEF Residue
<1>18. threw' \in BOOLEAN
  BY <1>3
<1>19. stream' \in Seq(Byte)
  BY <1>1, <1>2
<1> QED BY <1>2, <1>12, <1>13, <1>15, <1>16, <1>17, <1>18, <1>19 DEF CodecInv

-----------------------------------------------------------------------------
(* FrameCodec: the length field *)

LEMMA Fields ==
  ASSUME NEW n \in Nat
  PROVE  /\ LengthField(n) \in Seq(Byte) /\ Len(LengthField(n)) = SizeLength
         /\ \A k \in 1 .. SizeLength : LengthField(n)[k] = (n \div Power[SizeLength - k]) % Base
PROOF
<1>1. Base \in Nat \ {0, 1} /\ SizeLength \in Nat
  BY Codec
<1>2. ASSUME NEW k \in 1 .. SizeLength
      PROVE  (n \div Power[SizeLength - k]) % Base \in Byte
  <2> DEFINE p == Power[SizeLength - k]
  <2>1. p \in Nat \ {0}
    BY <1>1, Powers
  <2> HIDE DEF p
  <2>2. n \div p \in Nat
    BY <2>1
  <2>3. (n \div p) % Base \in 0 .. (Base - 1)
    BY <1>1, <2>2
  <2> QED BY <2>3 DEF Byte, p
<1>3. LengthField(n) \in [1 .. SizeLength -> Byte]
  BY <1>2 DEF LengthField
<1>4. LengthField(n) \in Seq(Byte) /\ Len(LengthField(n)) = SizeLength
  BY <1>1, <1>3
<1> QED BY <1>4 DEF LengthField

LEMMA Division ==
  ASSUME NEW x \in Nat, NEW b \in Nat \ {0}
  PROVE  /\ x \div b \in Nat /\ x % b \in Nat /\ x % b < b /\ x = b * (x \div b) + (x % b)
         /\ b * (x \div b) <= x /\ x < b * (x \div b) + b
PROOF
<1>1. x \div b \in Nat /\ x % b \in 0 .. (b - 1)
  OBVIOUS
<1>2. x = b * (x \div b) + (x % b)
  OBVIOUS
<1> DEFINE y == b * (x \div b)
           r == x % b
<1>3. y \in Nat
  BY <1>1
<1> HIDE DEF y, r
<1>4. x = y + r /\ r \in 0 .. (b - 1)
  BY <1>1, <1>2 DEF y, r
<1>5. r \in Nat /\ r < b /\ y <= x /\ x < y + b
  BY <1>3, <1>4
<1> QED BY <1>1, <1>2, <1>5 DEF y, r

LEMMA Times ==
  ASSUME NEW k \in Nat, NEW m \in Nat, NEW n \in Nat, m <= n
  PROVE  k * m \in Nat /\ k * n \in Nat /\ k * m <= k * n
PROOF
<1>1. PICK e \in Nat : n = m + e
  <2>1. n - m \in Nat /\ n = m + (n - m)
    OBVIOUS
  <2> QED BY <2>1
<1>2. k * n = k * m + k * e
  BY <1>1
<1>3. k * m \in Nat /\ k * e \in Nat
  BY <1>1
<1> QED BY <1>2, <1>3

\* To divide by p and then by b is to divide by b * p.
LEMMA Quotient ==
  ASSUME NEW n \in Nat, NEW p \in Nat \ {0}, NEW b \in Nat \ {0}
  PROVE  n \div p = (n \div (b * p)) * b + ((n \div p) % b)
PROOF
<1> DEFINE x == n \div p
           y == x \div b
           z == n \div (b * p)
<1>0. b * p \in Nat \ {0} /\ p \in Nat /\ b \in Nat
  OBVIOUS
<1>1. x \in Nat /\ p * x <= n /\ n < p * x + p
  BY Division
<1>2. x % b \in Nat /\ y \in Nat /\ x = b * y + (x % b) /\ b * y <= x /\ x < b * y + b
  <2> HIDE DEF x
  <2> QED BY <1>1, Division
<1>3. z \in Nat /\ (b * p) * z <= n /\ n < (b * p) * z + b * p
  BY <1>0, Division
<1> HIDE DEF x, y, z
<1>4. ~ (z < y)
  <2> SUFFICES ASSUME z < y
               PROVE  FALSE
    OBVIOUS
  <2>1. z + 1 \in Nat /\ z + 1 <= y
    BY <1>2, <1>3
  <2>2. (b * p) * (z + 1) <= (b * p) * y /\ (b * p) * y \in Nat
    BY <1>0, <1>2, <2>1, Times
  <2>3. (b * p) * (z + 1) = (b * p) * z + b * p
    BY <1>0, <1>3
  <2>4. (b * p) * y = p * (b * y) /\ b * y \in Nat
    BY <1>0, <1>2
  <2>5. p * (b * y) <= p * x
    BY <1>0, <1>1, <1>2, <2>4, Times
  <2> DEFINE u == (b * p) * z + b * p
             v == p * (b * y)
             w == p * x
  <2>6. u <= v /\ v <= w /\ w <= n /\ n < u /\ u \in Nat /\ v \in Nat /\ w \in Nat
    BY <1>0, <1>1, <1>3, <2>2, <2>3, <2>4, <2>5
  <2> HIDE DEF u, v, w
  <2> QED BY <2>6
<1>5. ~ (y < z)
  <2> SUFFICES ASSUME y < z
               PROVE  FALSE
    OBVIOUS
  <2>1. y + 1 \in Nat /\ y + 1 <= z
    BY <1>2, <1>3
  <2>2. b * (y + 1) <= b * z /\ b * z \in Nat
    BY <1>0, <1>3, <2>1, Times
  <2>3. b * (y + 1) = b * y + b
    BY <1>0, <1>2
  <2>4. x + 1 \in Nat /\ x + 1 <= b * z
    <3> DEFINE u == b * y + b
               v == b * z
    <3>1. x < u /\ u <= v /\ v \in Nat /\ u \in Nat
      BY <1>0, <1>2, <2>2, <2>3
    <3> HIDE DEF u, v
    <3>2. x + 1 \in Nat /\ x + 1 <= v
      BY <1>1, <3>1
    <3> QED BY <3>2 DEF v
  <2>5. p * (x + 1) <= p * (b * z) /\ p * (b * z) \in Nat /\ p * (x + 1) \in Nat
    BY <1>0, <2>2, <2>4, Times
  <2>6. p * (x + 1) = p * x + p /\ p * (b * z) = (b * p) * z
    BY <1>0, <1>1, <1>3
  <2> DEFINE u == p * (x + 1)
             v == p * (b * z)
  <2>7. n < u /\ u <= v /\ v <= n /\ u \in Nat /\ v \in Nat
    BY <1>0, <1>1, <1>3, <2>5, <2>6
  <2> HIDE DEF u, v
  <2> QED BY <2>7
<1>6. z = y
  BY <1>2, <1>3, <1>4, <1>5
<1>7. z * b = b * y
  BY <1>2, <1>6
<1> QED BY <1>2, <1>7 DEF x, z

\* The receiver reads the length that the sender has written.
LEMMA NumberOfField ==
  ASSUME NEW n \in Nat, n < Power[SizeLength]
  PROVE  Number(LengthField(n)) = n
PROOF
<1> DEFINE N == SizeLength
           s == LengthField(n)
           Left(k) == n \div Power[N - k]
<1>0. /\ N \in Nat /\ Base \in Nat \ {0} /\ s \in Seq(Byte) /\ Len(s) = N
      /\ \A k \in 1 .. N : s[k] = Left(k) % Base
  BY Codec, Fields
<1> HIDE DEF s
<1>1. PICK t : /\ t[0] = 0 /\ \A k \in 1 .. N : t[k] = t[k - 1] * Base + s[k]
               /\ Number(s) = t[N]
  BY <1>0, Reading
<1>2. \A k \in 0 .. N : N - k \in 0 .. N /\ Power[N - k] \in Nat \ {0}
  BY <1>0, Powers
<1> DEFINE R == {k \in 0 .. N : t[k] = Left(k)}
<1>3. ASSUME NEW k \in 0 .. N, \A j \in 0 .. N : j < k => j \in R
      PROVE  k \in R
  <2>1. CASE k = 0
    <3> DEFINE p == Power[N]
    <3>1. p \in Nat \ {0} /\ N - k = N /\ n < p
      BY <1>0, <1>2, <2>1
    <3> HIDE DEF p
    <3>2. n \div p \in Nat /\ p * (n \div p) <= n
      BY <3>1, Division
    <3>3. n \div p = 0
      <4> DEFINE q == n \div p
      <4> HIDE DEF q
      <4>1. q \in Nat /\ p * q <= n /\ p \in Nat
        BY <3>1, <3>2 DEF q
      <4>2. CASE q # 0
        <5>1. 1 <= q /\ 1 \in Nat
          BY <4>1, <4>2
        <5>2. p * 1 <= p * q
          BY <4>1, <5>1, Times
        <5> DEFINE w == p * q
        <5>3. w \in Nat
          BY <4>1
        <5>4. p <= w /\ w <= n
          BY <4>1, <5>2
        <5> HIDE DEF w
        <5> QED BY <3>1, <4>1, <5>3, <5>4
      <4> QED BY <4>2 DEF q
    <3> QED BY <1>1, <2>1, <3>1, <3>3 DEF p
  <2>2. CASE k # 0
    <3> DEFINE p == Power[N - k]
    <3>1. /\ k - 1 \in 0 .. N /\ k - 1 < k /\ k \in 1 .. N /\ N - (k - 1) \in 1 .. N
          /\ (N - (k - 1)) - 1 = N - k /\ p \in Nat \ {0}
      BY <1>0, <1>2, <2>2
    <3>2. Power[N - (k - 1)] = Base * Power[(N - (k - 1)) - 1]
      BY <3>1, Powers
    <3>3. Power[N - (k - 1)] = Base * p
      BY <3>1, <3>2
    <3>4. t[k - 1] = Left(k - 1)
      BY <1>3, <3>1
    <3>5. t[k - 1] = n \div (Base * p)
      BY <3>3, <3>4
    <3>6. t[k] = t[k - 1] * Base + s[k] /\ s[k] = (n \div p) % Base
      BY <1>0, <1>1, <3>1
    <3> HIDE DEF p
    <3>7. n \div p = (n \div (Base * p)) * Base + ((n \div p) % Base)
      BY <1>0, <3>1, Quotient
    <3>8. t[k] = n \div p
      BY <3>5, <3>6, <3>7
    <3> QED BY <3>8 DEF p
  <2> QED BY <2>1, <2>2
<1>4. 0 .. N \subseteq R
  <2> HIDE DEF R, N
  <2> QED BY <1>0, <1>3, UpTo
<1>5. N \in 0 .. N /\ N - N = 0
  BY <1>0
<1>6. t[N] = n \div Power[0]
  BY <1>4, <1>5
<1>7. n \div 1 = n
  OBVIOUS
<1> QED BY <1>1, <1>6, <1>7, Powers DEF s

-----------------------------------------------------------------------------
(* FrameCodec: the sending peer *)

LEMMA SamePrefix ==
  ASSUME NEW w \in Seq(Byte), NEW d \in Seq(Byte), Holds(w, 0, d), NEW o \in Nat, o + HeaderLength <= Len(d)
  PROVE  /\ HeaderAt(w, o) <=> HeaderAt(d, o)
         /\ FrameEnd(w, o) = FrameEnd(d, o)
         /\ FrameEnd(d, o) \in Nat /\ FrameEnd(d, o) >= o + HeaderLength /\ FrameEnd(d, o) > o
PROOF
<1>1. /\ HeaderAt(w, 0 + o) <=> HeaderAt(d, o)
      /\ FrameEnd(w, 0 + o) = 0 + FrameEnd(d, o)
      /\ FrameEnd(d, o) \in Nat /\ FrameEnd(d, o) >= o + HeaderLength /\ FrameEnd(d, o) > o
  BY SameHeader
<1>2. 0 + o = o
  OBVIOUS
<1>3. HeaderAt(w, o) <=> HeaderAt(d, o)
  BY <1>1, <1>2
<1>4. FrameEnd(w, o) = 0 + FrameEnd(d, o)
  BY <1>1, <1>2
<1>5. FrameEnd(w, o) = FrameEnd(d, o)
  BY <1>1, <1>4
<1> QED BY <1>1, <1>3, <1>5

\* After the first a bytes of w there is a header that announces n bytes.
Writes(w, a, n) ==
  /\ n \in Nat /\ n < Power[SizeLength]
  /\ a + HeaderLength <= Len(w)
  /\ \A i \in 1 .. Len(Magic) : w[a + i] = Magic[i]
  /\ \A i \in 1 .. SizeLength : w[(a + Len(Magic)) + i] = LengthField(n)[i]

\* n bytes after the first a of w are the sequence s.
LEMMA ReadAs ==
  ASSUME NEW w \in Seq(Byte), NEW s \in Seq(Byte), NEW a \in Nat, a + Len(s) <= Len(w),
         \A i \in 1 .. Len(s) : w[a + i] = s[i]
  PROVE  SubSeq(w, a + 1, a + Len(s)) = s
PROOF
<1> DEFINE n == Len(s)
           x == SubSeq(w, a + 1, a + n)
<1>1. n \in Nat /\ DOMAIN s = 1 .. n /\ a + n <= Len(w)
  OBVIOUS
<1>2. x \in Seq(Byte) /\ DOMAIN x = 1 .. n /\ \A i \in 1 .. n : x[i] = w[a + i]
  BY <1>1, Part
<1>3. x = [i \in 1 .. n |-> x[i]] /\ s = [i \in 1 .. n |-> s[i]]
  <2>1. s \in Seq(Byte)
    OBVIOUS
  <2> HIDE DEF x, n
  <2> QED BY <1>1, <1>2, <2>1
<1>4. \A i \in 1 .. n : x[i] = s[i]
  BY <1>2
<1> HIDE DEF x, n
<1>5. x = s
  BY <1>3, <1>4
<1> QED BY <1>5 DEF x, n

LEMMA Written ==
  ASSUME NEW w \in Seq(Byte), NEW a \in Nat, NEW n, Writes(w, a, n)
  PROVE  MagicAt(w, a) /\ LengthAt(w, a) = n
PROOF
<1> DEFINE M == Len(Magic)
           s == LengthField(n)
<1>1. /\ M \in Nat /\ SizeLength \in Nat /\ HeaderLength = M + SizeLength /\ Magic \in Seq(Byte)
      /\ n \in Nat /\ n < Power[SizeLength] /\ Len(w) \in Nat
  BY Codec DEF HeaderLength, Writes
<1>2. s \in Seq(Byte) /\ Len(s) = SizeLength /\ Number(s) = n
  BY <1>1, Fields, NumberOfField
<1>3. /\ a + HeaderLength <= Len(w)
      /\ \A i \in 1 .. M : w[a + i] = Magic[i]
      /\ \A i \in 1 .. SizeLength : w[(a + M) + i] = s[i]
  BY DEF Writes
<1>4. SubSeq(w, a + 1, a + M) = Magic
  <2>1. a + Len(Magic) <= Len(w)
    BY <1>1, <1>3
  <2> QED BY <1>1, <1>3, <2>1, ReadAs
<1> HIDE DEF s
<1>5. SubSeq(w, a + M + 1, a + HeaderLength) = s
  <2> DEFINE c == a + M
  <2>1. c \in Nat /\ c + SizeLength <= Len(w) /\ c + SizeLength = a + HeaderLength
    BY <1>1, <1>3
  <2>2. \A i \in 1 .. Len(s) : w[c + i] = s[i]
    BY <1>2, <1>3
  <2>3. c + Len(s) <= Len(w)
    BY <1>2, <2>1
  <2> HIDE DEF c
  <2>4. SubSeq(w, c + 1, c + Len(s)) = s
    BY <1>2, <2>1, <2>2, <2>3, ReadAs
  <2>5. SubSeq(w, c + 1, a + HeaderLength) = s
    BY <1>2, <2>1, <2>4
  <2> QED BY <2>5 DEF c
<1>6. LengthAt(w, a) = n
  BY <1>2, <1>5 DEF LengthAt
<1> QED BY <1>4, <1>6 DEF MagicAt

\* What encode() writes, and a header alone.
LEMMA Segment ==
  ASSUME NEW n \in Nat, n < Power[SizeLength], NEW x \in Seq(Byte)
  PROVE  /\ Magic \o LengthField(n) \in Seq(Byte) /\ Len(Magic \o LengthField(n)) = HeaderLength
         /\ Writes(Magic \o LengthField(n), 0, n)
         /\ Magic \o LengthField(n) \o x \in Seq(Byte)
         /\ Len(Magic \o LengthField(n) \o x) = HeaderLength + Len(x)
         /\ Writes(Magic \o LengthField(n) \o x, 0, n)
PROOF
<1> DEFINE M == Len(Magic)
           s == LengthField(n)
           h == Magic \o s
           y == h \o x
<1>1. /\ M \in Nat /\ SizeLength \in Nat /\ HeaderLength = M + SizeLength /\ Magic \in Seq(Byte)
      /\ s \in Seq(Byte) /\ Len(s) = SizeLength
  BY Codec, Fields DEF HeaderLength
<1> HIDE DEF s
<1>2. /\ h \in Seq(Byte) /\ Len(h) = HeaderLength
      /\ \A i \in 1 .. M : h[i] = Magic[i]
      /\ \A i \in 1 .. SizeLength : h[M + i] = s[i]
  <2> DEFINE p == Magic
  <2>1. p \in Seq(Byte) /\ s \in Seq(Byte)
    BY <1>1
  <2> HIDE DEF p
  <2>2. /\ p \o s \in Seq(Byte) /\ Len(p \o s) = Len(p) + Len(s)
        /\ \A i \in 1 .. Len(p) : (p \o s)[i] = p[i]
        /\ \A i \in 1 .. Len(s) : (p \o s)[Len(p) + i] = s[i]
    BY <2>1, Joined
  <2> QED BY <1>1, <2>2 DEF p
<1> HIDE DEF h
<1>3. /\ y \in Seq(Byte) /\ Len(y) = HeaderLength + Len(x)
      /\ \A i \in 1 .. HeaderLength : y[i] = h[i]
  <2>1. /\ h \o x \in Seq(Byte) /\ Len(h \o x) = Len(h) + Len(x)
        /\ \A i \in 1 .. Len(h) : (h \o x)[i] = h[i]
    <3>1. h \in Seq(Byte) /\ x \in Seq(Byte)
      BY <1>2
    <3> QED BY <3>1, Joined
  <2> QED BY <1>2, <2>1
<1>4. Len(x) \in Nat
  OBVIOUS
<1> HIDE DEF y
<1>5. \A i \in 1 .. M : 0 + i = i /\ i \in 1 .. HeaderLength
  BY <1>1
<1>6. \A i \in 1 .. SizeLength : (0 + M) + i = M + i /\ M + i \in 1 .. HeaderLength
  BY <1>1
<1>7. Writes(h, 0, n)
  BY <1>1, <1>2, <1>5, <1>6 DEF Writes, s
<1>8. Writes(y, 0, n)
  <2>1. 0 + HeaderLength <= Len(y)
    BY <1>1, <1>3, <1>4
  <2>2. \A i \in 1 .. M : y[0 + i] = Magic[i]
    BY <1>2, <1>3, <1>5
  <2>3. \A i \in 1 .. SizeLength : y[(0 + M) + i] = s[i]
    BY <1>2, <1>3, <1>6
  <2> QED BY <2>1, <2>2, <2>3 DEF Writes, s
<1> QED BY <1>2, <1>3, <1>7, <1>8 DEF y, h, s

\* d ends with an oversized header.
Trailing(d) ==
  \E n \in Nat : n > MaxMessageSize /\ HeaderLength <= Len(d) /\ Writes(d, Len(d) - HeaderLength, n)

\* fs are the frames of d, and no header begins outside of them, except perhaps
\* after the first byte of an oversized header at the end of d.
Framed(d, fs) ==
  /\ fs \in Seq(Nat)
  /\ \A k \in DOMAIN fs : HeaderAt(d, fs[k]) /\ FrameEnd(d, fs[k]) <= Len(d)
  /\ \A j, k \in DOMAIN fs : j < k => FrameEnd(d, fs[j]) <= fs[k]
  /\ \A o \in Nat : o < Len(d) => Resolved(d, fs, o) \/ (Trailing(d) /\ Len(d) < o + HeaderLength)

\* Between an oversized header and the header that follows it none begins.
LEMMA NoHeaderBetween ==
  ASSUME NEW w \in Seq(Byte), NEW a \in Nat, NEW m, Writes(w, a, m), m > MaxMessageSize,
         NEW n, Writes(w, a + HeaderLength, n), NEW j \in 1 .. (HeaderLength - 1)
  PROVE  ~HeaderAt(w, a + j) /\ (a + j) + HeaderLength <= Len(w)
PROOF
<1> DEFINE M == Len(Magic)
           o == a + j
<1>1. /\ M \in Nat \ {0} /\ SizeLength = M /\ HeaderLength = M + M /\ Magic \in Seq(Byte) /\ o \in Nat
      /\ Len(w) \in Nat /\ DOMAIN Magic = 1 .. M
      /\ \A i, k \in 1 .. M : Magic[i] = Magic[k] => i = k
  <2>1. Magic \in Seq(Byte) /\ Len(Magic) = SizeLength /\ SizeLength \in Nat \ {0} /\ IsInjective(Magic)
    BY CodecAssumption
  <2>2. DOMAIN Magic = 1 .. Len(Magic)
    BY <2>1
  <2>3. \A i, k \in 1 .. M : Magic[i] = Magic[k] => i = k
    BY <2>1, <2>2 DEF IsInjective
  <2>4. HeaderLength = M + M
    BY <2>1 DEF HeaderLength
  <2>5. j \in Nat
    BY <2>1, <2>4
  <2> QED BY <2>1, <2>2, <2>3, <2>4, <2>5
<1>2. /\ (a + HeaderLength) + HeaderLength <= Len(w)
      /\ \A i \in 1 .. M : w[a + i] = Magic[i]
      /\ \A i \in 1 .. M : w[(a + HeaderLength) + i] = Magic[i]
  BY DEF Writes
<1>3. o + HeaderLength <= Len(w)
  BY <1>1, <1>2
<1>4. ASSUME HeaderAt(w, o)
      PROVE  FALSE
  <2>1. \A i \in 1 .. M : w[o + i] = Magic[i]
    <3>1. SubSeq(w, o + 1, o + M) = Magic
      BY <1>4 DEF HeaderAt, MagicAt
    <3>2. o + M <= Len(w)
      BY <1>1, <1>3
    <3> HIDE DEF o, M
    <3>3. \A i \in 1 .. M : SubSeq(w, o + 1, o + M)[i] = w[o + i]
      BY <1>1, <3>2, Part
    <3> QED BY <3>1, <3>3
  <2>2. CASE j < M
    <3>1. j + 1 \in 1 .. M /\ 1 \in 1 .. M /\ o + 1 = a + (j + 1)
      BY <1>1, <2>2
    <3>2. Magic[j + 1] = Magic[1]
      BY <1>2, <2>1, <3>1
    <3>3. j + 1 = 1
      BY <1>1, <3>1, <3>2
    <3> QED BY <1>1, <3>3
  <2>3. CASE j = M
    <3>1. o + M = a + HeaderLength /\ o + HeaderLength = (a + HeaderLength) + M /\ a + HeaderLength \in Nat
      BY <1>1, <2>3
    <3> DEFINE c == a + HeaderLength
    <3>2. c \in Nat /\ c + Len(Magic) <= Len(w) /\ \A i \in 1 .. Len(Magic) : w[c + i] = Magic[i]
      BY <1>1, <1>2, <3>1
    <3> HIDE DEF c
    <3>3. SubSeq(w, c + 1, c + Len(Magic)) = Magic
      BY <1>1, <3>2, ReadAs
    <3>4. SubSeq(w, o + M + 1, o + HeaderLength) = Magic
      BY <3>1, <3>3 DEF c
    <3>5. LengthAt(w, o) = Number(Magic)
      BY <3>4 DEF LengthAt
    <3>6. LengthAt(w, o) <= MaxMessageSize /\ Number(Magic) > MaxMessageSize
      BY <1>4, CodecAssumption DEF HeaderAt
    <3>7. MaxMessageSize \in Nat /\ Number(Magic) \in Nat
      BY <1>1, Codec, NumberIsNat
    <3> QED BY <3>5, <3>6, <3>7
  <2>4. CASE j > M
    <3> DEFINE i == (HeaderLength - j) + 1
    <3>1. i \in 1 .. M /\ 1 \in 1 .. M /\ i # 1 /\ o + i = (a + HeaderLength) + 1
      BY <1>1, <2>4
    <3> HIDE DEF i
    <3>2. Magic[i] = Magic[1]
      BY <1>2, <2>1, <3>1
    <3> QED BY <1>1, <3>1, <3>2
  <2> QED BY <1>1, <2>2, <2>3, <2>4
<1> QED BY <1>3, <1>4

\* A segment that begins with a header goes on with the stream.
LEMMA Extended ==
  ASSUME NEW d \in Seq(Byte), NEW x \in Seq(Byte), NEW n, Writes(x, 0, n), NEW fs, Framed(d, fs)
  PROVE  /\ d \o x \in Seq(Byte) /\ Len(d \o x) = Len(d) + Len(x)
         /\ \A k \in DOMAIN fs : /\ HeaderAt(d \o x, fs[k])
                                 /\ FrameEnd(d \o x, fs[k]) = FrameEnd(d, fs[k])
         /\ \A o \in Nat : o < Len(d) => Resolved(d \o x, fs, o)
         /\ Writes(d \o x, Len(d), n)
PROOF
<1> DEFINE w == d \o x
           L == Len(d)
<1>1. /\ w \in Seq(Byte) /\ Len(w) = L + Len(x) /\ L \in Nat /\ Len(x) \in Nat
      /\ \A i \in 1 .. L : w[i] = d[i]
      /\ \A i \in 1 .. Len(x) : w[L + i] = x[i]
  BY Joined
<1>2. /\ HeaderLength \in Nat \ {0} /\ Len(Magic) \in Nat /\ SizeLength \in Nat
      /\ HeaderLength = Len(Magic) + SizeLength
  BY Codec DEF HeaderLength
<1>3. /\ n \in Nat /\ n < Power[SizeLength] /\ 0 + HeaderLength <= Len(x)
      /\ \A i \in 1 .. Len(Magic) : x[0 + i] = Magic[i]
      /\ \A i \in 1 .. SizeLength : x[(0 + Len(Magic)) + i] = LengthField(n)[i]
  BY DEF Writes
<1> HIDE DEF w, L
<1>4. Writes(w, L, n)
  <2>1. L + HeaderLength <= Len(w)
    BY <1>1, <1>2, <1>3
  <2>2. ASSUME NEW i \in 1 .. Len(Magic)
        PROVE  w[L + i] = Magic[i]
    <3>1. 0 + i = i /\ i \in 1 .. Len(x)
      BY <1>1, <1>2, <1>3
    <3> QED BY <1>1, <1>3, <3>1
  <2>3. ASSUME NEW i \in 1 .. SizeLength
        PROVE  w[(L + Len(Magic)) + i] = LengthField(n)[i]
    <3>1. (L + Len(Magic)) + i = L + ((0 + Len(Magic)) + i) /\ (0 + Len(Magic)) + i \in 1 .. Len(x)
      BY <1>1, <1>2, <1>3
    <3>2. w[L + ((0 + Len(Magic)) + i)] = x[(0 + Len(Magic)) + i]
      BY <1>1, <3>1
    <3> QED BY <1>3, <3>1, <3>2
  <2> QED BY <1>3, <2>1, <2>2, <2>3 DEF Writes
<1>5. Holds(w, 0, d)
  <2>1. 0 + L <= Len(w) /\ \A i \in 1 .. L : 0 + i = i
    BY <1>1
  <2> QED BY <1>1, <2>1 DEF Holds, L
<1>6. /\ fs \in Seq(Nat) /\ \A k \in DOMAIN fs : fs[k] \in Nat
      /\ \A k \in DOMAIN fs : HeaderAt(d, fs[k]) /\ FrameEnd(d, fs[k]) <= L
      /\ \A o \in Nat : o < L => Resolved(d, fs, o) \/ (Trailing(d) /\ L < o + HeaderLength)
  BY DEF Framed, L
<1>7. ASSUME NEW k \in DOMAIN fs
      PROVE  HeaderAt(w, fs[k]) /\ FrameEnd(w, fs[k]) = FrameEnd(d, fs[k])
  <2>1. fs[k] \in Nat /\ HeaderAt(d, fs[k])
    BY <1>6
  <2>2. fs[k] + HeaderLength <= Len(d)
    BY <2>1 DEF HeaderAt
  <2> QED BY <1>1, <1>5, <2>1, <2>2, SamePrefix
<1>8. ASSUME NEW o \in Nat, o < L
      PROVE  Resolved(w, fs, o)
  <2>1. CASE \E k \in DOMAIN fs : fs[k] <= o /\ o < FrameEnd(d, fs[k])
    <3>1. PICK k \in DOMAIN fs : fs[k] <= o /\ o < FrameEnd(d, fs[k])
      BY <2>1
    <3>2. fs[k] <= o /\ o < FrameEnd(w, fs[k])
      BY <1>7, <3>1
    <3> QED BY <3>2 DEF Resolved
  <2>2. CASE o + HeaderLength <= Len(d) /\ ~HeaderAt(d, o)
    <3>1. ~HeaderAt(w, o)
      BY <1>1, <1>5, <2>2, SamePrefix
    <3>2. o + HeaderLength <= Len(w)
      BY <1>1, <1>2, <2>2 DEF L
    <3> QED BY <3>1, <3>2 DEF Resolved
  <2>3. CASE Trailing(d) /\ L < o + HeaderLength
    <3>1. PICK m \in Nat : m > MaxMessageSize /\ HeaderLength <= L /\ Writes(d, L - HeaderLength, m)
      BY <2>3 DEF Trailing, L
    <3> DEFINE a == L - HeaderLength
               j == o - a
    <3>2. a \in Nat /\ a + HeaderLength = L /\ j \in 1 .. (HeaderLength - 1) /\ a + j = o
      BY <1>1, <1>2, <1>8, <2>3, <3>1
    <3>3. Writes(d, a, m)
      BY <3>1
    <3> HIDE DEF a, j
    <3>4. Writes(w, a, m)
      <4>1. a + HeaderLength <= Len(w)
        BY <1>1, <3>2
      <4>2. \A i \in 1 .. Len(Magic) : a + i \in 1 .. L
        BY <1>1, <1>2, <3>2
      <4>3. \A i \in 1 .. SizeLength : (a + Len(Magic)) + i \in 1 .. L
        BY <1>1, <1>2, <3>2
      <4>4. \A i \in 1 .. Len(Magic) : w[a + i] = Magic[i]
        BY <1>1, <3>3, <4>2 DEF Writes
      <4>5. \A i \in 1 .. SizeLength : w[(a + Len(Magic)) + i] = LengthField(m)[i]
        BY <1>1, <3>3, <4>3 DEF Writes
      <4> QED BY <3>3, <4>1, <4>4, <4>5 DEF Writes
    <3>5. Writes(w, a + HeaderLength, n)
      BY <1>4, <3>2
    <3>6. ~HeaderAt(w, a + j) /\ (a + j) + HeaderLength <= Len(w)
      BY <1>1, <3>1, <3>2, <3>4, <3>5, NoHeaderBetween
    <3>7. ~HeaderAt(w, o) /\ o + HeaderLength <= Len(w)
      BY <3>2, <3>6
    <3> QED BY <3>7 DEF Resolved
  <2>4. Resolved(d, fs, o) \/ (Trailing(d) /\ L < o + HeaderLength)
    BY <1>6, <1>8
  <2> QED BY <2>1, <2>2, <2>3, <2>4 DEF Resolved
<1> QED BY <1>1, <1>4, <1>7, <1>8 DEF w, L

LEMMA FrameSent ==
  ASSUME NEW d \in Seq(Byte), NEW x \in Seq(Byte), NEW n, n <= MaxMessageSize, Writes(x, 0, n),
         Len(x) = HeaderLength + n, NEW fs, Framed(d, fs)
  PROVE  Framed(d \o x, Append(fs, Len(d)))
PROOF
<1> DEFINE w == d \o x
           L == Len(d)
           gs == Append(fs, L)
           m == Len(fs)
<1>1. /\ w \in Seq(Byte) /\ Len(w) = L + Len(x)
      /\ \A k \in DOMAIN fs : HeaderAt(w, fs[k]) /\ FrameEnd(w, fs[k]) = FrameEnd(d, fs[k])
      /\ \A o \in Nat : o < L => Resolved(w, fs, o)
      /\ Writes(w, L, n)
  BY Extended
<1> HIDE DEF w
<1>2. /\ fs \in Seq(Nat) /\ m \in Nat /\ DOMAIN fs = 1 .. m /\ L \in Nat /\ n \in Nat
      /\ \A k \in DOMAIN fs : fs[k] \in Nat
      /\ \A k \in DOMAIN fs : HeaderAt(d, fs[k]) /\ FrameEnd(d, fs[k]) <= L
      /\ \A j, k \in DOMAIN fs : j < k => FrameEnd(d, fs[j]) <= fs[k]
  BY DEF Framed, Writes
<1>3. /\ gs \in Seq(Nat) /\ DOMAIN gs = 1 .. (m + 1) /\ gs[m + 1] = L
      /\ \A k \in 1 .. m : gs[k] = fs[k]
  BY <1>2
<1> HIDE DEF gs, m
<1>4. HeaderLength \in Nat /\ Len(w) = L + HeaderLength + n /\ L + HeaderLength <= Len(w)
  BY <1>1, <1>2, Codec
<1>5. MagicAt(w, L) /\ LengthAt(w, L) = n
  BY <1>1, <1>2, Written
<1> HIDE DEF L
<1>6. HeaderAt(w, L) /\ FrameEnd(w, L) = Len(w)
  BY <1>4, <1>5 DEF HeaderAt, FrameEnd
<1>7. \A k \in 1 .. (m + 1) : k \in 1 .. m \/ k = m + 1
  BY <1>2
<1>8. ASSUME NEW k \in DOMAIN gs
      PROVE  HeaderAt(w, gs[k]) /\ FrameEnd(w, gs[k]) <= Len(w)
  <2>1. CASE k \in 1 .. m
    <3>1. gs[k] = fs[k] /\ HeaderAt(w, fs[k]) /\ FrameEnd(w, fs[k]) <= L
      BY <1>1, <1>2, <1>3, <2>1
    <3>2. FrameEnd(w, fs[k]) \in Nat
      BY <1>1, <1>2, <2>1, <3>1, Header
    <3>3. FrameEnd(w, fs[k]) <= Len(w)
      BY <1>2, <1>4, <3>1, <3>2
    <3> QED BY <3>1, <3>3
  <2>2. CASE k = m + 1
    BY <1>2, <1>3, <1>4, <1>6, <2>2
  <2> QED BY <1>3, <1>7, <2>1, <2>2
<1>9. ASSUME NEW j \in DOMAIN gs, NEW k \in DOMAIN gs, j < k
      PROVE  FrameEnd(w, gs[j]) <= gs[k]
  <2>1. j \in 1 .. m
    BY <1>2, <1>3, <1>9
  <2>2. gs[j] = fs[j] /\ FrameEnd(w, fs[j]) = FrameEnd(d, fs[j]) /\ FrameEnd(d, fs[j]) <= L
    BY <1>1, <1>2, <1>3, <2>1
  <2>3. CASE k \in 1 .. m
    <3>1. gs[k] = fs[k] /\ FrameEnd(d, fs[j]) <= fs[k]
      BY <1>2, <1>3, <1>9, <2>1, <2>3
    <3> QED BY <2>2, <3>1
  <2>4. CASE k = m + 1
    BY <1>3, <2>2, <2>4
  <2> QED BY <1>3, <1>7, <2>3, <2>4
<1>10. ASSUME NEW o \in Nat, o < Len(w)
       PROVE  Resolved(w, gs, o)
  <2>1. CASE o < L
    <3>1. Resolved(w, fs, o)
      BY <1>1, <2>1
    <3>2. CASE \E k \in DOMAIN fs : fs[k] <= o /\ o < FrameEnd(w, fs[k])
      <4>1. PICK k \in DOMAIN fs : fs[k] <= o /\ o < FrameEnd(w, fs[k])
        BY <3>2
      <4>2. k \in DOMAIN gs /\ gs[k] = fs[k]
        BY <1>2, <1>3, <4>1
      <4> QED BY <4>1, <4>2 DEF Resolved
    <3> QED BY <3>1, <3>2 DEF Resolved
  <2>2. CASE L <= o
    <3>1. m + 1 \in DOMAIN gs /\ gs[m + 1] <= o /\ o < FrameEnd(w, gs[m + 1])
      BY <1>2, <1>3, <1>6, <1>10, <2>2
    <3> QED BY <3>1 DEF Resolved
  <2> QED BY <1>2, <2>1, <2>2
<1>11. Framed(w, gs)
  BY <1>3, <1>8, <1>9, <1>10 DEF Framed
<1> QED BY <1>11 DEF w, gs, L

LEMMA OversizedSent ==
  ASSUME NEW d \in Seq(Byte), NEW x \in Seq(Byte), NEW n, n > MaxMessageSize, Writes(x, 0, n),
         Len(x) = HeaderLength, NEW fs, Framed(d, fs)
  PROVE  Framed(d \o x, fs)
PROOF
<1> DEFINE w == d \o x
           L == Len(d)
<1>1. /\ w \in Seq(Byte) /\ Len(w) = L + Len(x)
      /\ \A k \in DOMAIN fs : HeaderAt(w, fs[k]) /\ FrameEnd(w, fs[k]) = FrameEnd(d, fs[k])
      /\ \A o \in Nat : o < L => Resolved(w, fs, o)
      /\ Writes(w, L, n)
  BY Extended
<1> HIDE DEF w
<1>2. /\ fs \in Seq(Nat) /\ L \in Nat /\ n \in Nat /\ MaxMessageSize \in Nat
      /\ \A k \in DOMAIN fs : fs[k] \in Nat
      /\ \A k \in DOMAIN fs : HeaderAt(d, fs[k]) /\ FrameEnd(d, fs[k]) <= L
      /\ \A j, k \in DOMAIN fs : j < k => FrameEnd(d, fs[j]) <= fs[k]
  BY Codec DEF Framed, Writes
<1>3. HeaderLength \in Nat \ {0} /\ Len(w) = L + HeaderLength
  BY <1>1, <1>2, Codec
<1>4. MagicAt(w, L) /\ LengthAt(w, L) = n
  BY <1>1, <1>2, Written
<1> HIDE DEF L
<1>5. ~HeaderAt(w, L)
  BY <1>2, <1>4 DEF HeaderAt
<1>6. Trailing(w)
  <2>1. Len(w) - HeaderLength = L /\ HeaderLength <= Len(w)
    BY <1>2, <1>3
  <2> QED BY <1>1, <1>2, <2>1 DEF Trailing
<1>7. ASSUME NEW k \in DOMAIN fs
      PROVE  HeaderAt(w, fs[k]) /\ FrameEnd(w, fs[k]) <= Len(w)
  <2>1. fs[k] \in Nat /\ HeaderAt(w, fs[k]) /\ FrameEnd(w, fs[k]) <= L
    BY <1>1, <1>2
  <2>2. FrameEnd(w, fs[k]) \in Nat
    BY <1>1, <2>1, Header
  <2>3. FrameEnd(w, fs[k]) <= Len(w)
    BY <1>2, <1>3, <2>1, <2>2
  <2> QED BY <2>1, <2>3
<1>8. \A j, k \in DOMAIN fs : j < k => FrameEnd(w, fs[j]) <= fs[k]
  BY <1>1, <1>2
<1>9. ASSUME NEW o \in Nat, o < Len(w)
      PROVE  Resolved(w, fs, o) \/ (Trailing(w) /\ Len(w) < o + HeaderLength)
  <2>1. CASE o < L
    BY <1>1, <2>1
  <2>2. CASE o = L
    <3>1. o + HeaderLength <= Len(w)
      BY <1>2, <1>3, <2>2
    <3> QED BY <1>5, <2>2, <3>1 DEF Resolved
  <2>3. CASE L < o
    <3>1. Len(w) < o + HeaderLength
      BY <1>2, <1>3, <2>3
    <3> QED BY <1>6, <3>1
  <2> QED BY <1>2, <2>1, <2>2, <2>3
<1>10. Framed(w, fs)
  BY <1>2, <1>7, <1>8, <1>9 DEF Framed
<1> QED BY <1>10 DEF w

-----------------------------------------------------------------------------
(* FrameCodec: what was sent is what is handled *)

\* A header in the stream belongs to a frame.
LEMMA InAFrame ==
  ASSUME NEW w \in Seq(Byte), NEW fs, Framed(w, fs), NEW o \in Nat, HeaderAt(w, o)
  PROVE  \E k \in DOMAIN fs : fs[k] <= o /\ o < FrameEnd(w, fs[k])
PROOF
<1>1. o + HeaderLength <= Len(w) /\ HeaderLength \in Nat \ {0} /\ Len(w) \in Nat
  BY Codec DEF HeaderAt
<1>2. o < Len(w) /\ ~(Len(w) < o + HeaderLength)
  BY <1>1
<1>3. Resolved(w, fs, o)
  BY <1>2 DEF Framed
<1> QED BY <1>3 DEF Resolved

LEMMA HandledAreSent ==
  ASSUME NEW w \in Seq(Byte), NEW d \in Seq(Byte), Holds(w, 0, d), NEW fs, Framed(w, fs),
         NEW c \in Nat, c <= Len(d), NEW hs, Parsed(d, 0, hs, c)
  PROVE  \A k \in DOMAIN hs : k \in DOMAIN fs /\ hs[k] = fs[k]
PROOF
<1> DEFINE m == Len(hs)
           S == {k \in 0 .. m : k = 0 \/ (k \in DOMAIN fs /\ hs[k] = fs[k])}
<1>1. /\ hs \in Seq(Nat) /\ m \in Nat /\ DOMAIN hs = 1 .. m /\ \A k \in DOMAIN hs : hs[k] \in Nat
      /\ \A k \in DOMAIN hs : HeaderAt(d, hs[k]) /\ FrameEnd(d, hs[k]) <= c
      /\ \A j, k \in DOMAIN hs : j < k => FrameEnd(d, hs[j]) <= hs[k]
      /\ \A o \in Nat : 0 <= o /\ o < c => Resolved(d, hs, o)
  BY DEF Parsed
<1>2. /\ fs \in Seq(Nat) /\ Len(fs) \in Nat /\ DOMAIN fs = 1 .. Len(fs) /\ \A k \in DOMAIN fs : fs[k] \in Nat
      /\ \A k \in DOMAIN fs : HeaderAt(w, fs[k])
      /\ \A j, k \in DOMAIN fs : j < k => FrameEnd(w, fs[j]) <= fs[k]
  BY DEF Framed
<1>3. HeaderLength \in Nat \ {0} /\ Len(d) \in Nat
  BY Codec
<1>4. ASSUME NEW o \in Nat, o + HeaderLength <= Len(d)
      PROVE  /\ HeaderAt(w, o) <=> HeaderAt(d, o)
             /\ FrameEnd(w, o) = FrameEnd(d, o)
             /\ FrameEnd(d, o) \in Nat /\ FrameEnd(d, o) >= o + HeaderLength /\ FrameEnd(d, o) > o
  BY <1>4, SamePrefix
<1>5. ASSUME NEW k \in 0 .. m, \A j \in 0 .. m : j < k => j \in S
      PROVE  k \in S
  <2>1. CASE k = 0
    BY <2>1
  <2>2. CASE k # 0
    <3>1. k \in DOMAIN hs /\ k \in 1 .. m
      BY <1>1, <2>2
    <3>2. ASSUME NEW j \in Nat, j # 0, j < k
          PROVE  j \in DOMAIN hs /\ j \in DOMAIN fs /\ hs[j] = fs[j]
      <4>1. j \in 0 .. m /\ j \in 1 .. m
        BY <1>1, <3>2
      <4> QED BY <1>1, <1>5, <3>2, <4>1
    <3> DEFINE h == hs[k]
    <3>3. h \in Nat /\ HeaderAt(d, h) /\ FrameEnd(d, h) <= c
      BY <1>1, <3>1
    <3>4. h + HeaderLength <= Len(d)
      BY <3>3 DEF HeaderAt
    <3>5. HeaderAt(w, h) /\ FrameEnd(d, h) \in Nat /\ FrameEnd(d, h) > h
      BY <1>4, <3>3, <3>4
    <3>6. PICK i \in DOMAIN fs : fs[i] <= h /\ h < FrameEnd(w, fs[i])
      BY <3>3, <3>5, InAFrame
    <3>7. ~(i < k)
      <4> SUFFICES ASSUME i < k
                   PROVE  FALSE
        OBVIOUS
      <4>1. i \in Nat /\ i # 0
        BY <1>2, <3>6
      <4>2. i \in DOMAIN hs /\ hs[i] = fs[i]
        BY <3>2, <4>1
      <4>3. FrameEnd(d, hs[i]) <= h
        BY <1>1, <3>1, <4>2
      <4>4. hs[i] \in Nat /\ hs[i] + HeaderLength <= Len(d)
        BY <1>1, <4>2 DEF HeaderAt
      <4>5. FrameEnd(w, fs[i]) = FrameEnd(d, hs[i]) /\ FrameEnd(d, hs[i]) \in Nat
        BY <1>4, <4>2, <4>4
      <4> HIDE DEF h
      <4> QED BY <3>3, <3>6, <4>3, <4>5
    <3>8. k \in DOMAIN fs
      BY <1>2, <3>1, <3>6, <3>7
    <3> DEFINE f == fs[k]
    <3>9. f <= h /\ f \in Nat
      <4>1. CASE i = k
        BY <1>2, <3>6, <4>1
      <4>2. CASE i # k
        <5>1. k < i
          BY <1>2, <3>1, <3>6, <3>7, <4>2
        <5>2. FrameEnd(w, f) <= fs[i]
          BY <1>2, <3>6, <3>8, <5>1
        <5>3. f \in Nat /\ HeaderAt(w, f) /\ fs[i] \in Nat
          BY <1>2, <3>6, <3>8
        <5> HIDE DEF f, h
        <5>4. FrameEnd(w, f) \in Nat /\ FrameEnd(w, f) > f
          BY <5>3, Header
        <5> QED BY <3>3, <3>6, <5>2, <5>3, <5>4
      <4> QED BY <4>1, <4>2
    <3>10. HeaderAt(w, f)
      BY <1>2, <3>8
    <3> HIDE DEF f, h
    <3>11. f + HeaderLength <= Len(d) /\ f < c
      BY <1>3, <3>3, <3>4, <3>5, <3>9
    <3>12. HeaderAt(d, f)
      BY <1>4, <3>9, <3>10, <3>11
    <3>13. Resolved(d, hs, f)
      BY <1>1, <3>9, <3>11
    <3>14. PICK j \in DOMAIN hs : hs[j] <= f /\ f < FrameEnd(d, hs[j])
      BY <3>12, <3>13 DEF Resolved
    <3>15. ~(j < k)
      <4> SUFFICES ASSUME j < k
                   PROVE  FALSE
        OBVIOUS
      <4>1. j \in Nat /\ j # 0
        BY <1>1, <3>14
      <4>2. j \in DOMAIN fs /\ hs[j] = fs[j]
        BY <3>2, <4>1
      <4>3. FrameEnd(w, fs[j]) <= f
        BY <1>2, <3>8, <4>2 DEF f
      <4>4. hs[j] \in Nat /\ hs[j] + HeaderLength <= Len(d)
        BY <1>1, <3>14 DEF HeaderAt
      <4>5. FrameEnd(w, fs[j]) = FrameEnd(d, hs[j]) /\ FrameEnd(d, hs[j]) \in Nat
        BY <1>4, <4>2, <4>4
      <4> QED BY <3>9, <3>14, <4>3, <4>5
    <3>16. ~(k < j)
      <4> SUFFICES ASSUME k < j
                   PROVE  FALSE
        OBVIOUS
      <4>1. FrameEnd(d, h) <= hs[j] /\ hs[j] \in Nat
        BY <1>1, <3>1, <3>14 DEF h
      <4> QED BY <3>3, <3>5, <3>9, <3>14, <4>1
    <3>17. j = k
      BY <1>1, <3>1, <3>14, <3>15, <3>16
    <3>18. h <= f
      BY <3>14, <3>17 DEF h
    <3>19. h = f
      BY <3>3, <3>9, <3>18
    <3> QED BY <3>8, <3>19 DEF h, f
  <2> QED BY <2>1, <2>2
<1>6. 0 .. m \subseteq S
  <2> HIDE DEF S, m
  <2> QED BY <1>1, <1>5, UpTo
<1>7. \A k \in DOMAIN hs : k \in 0 .. m /\ k # 0
  BY <1>1
<1> QED BY <1>6, <1>7

\* A frame that was read completely has been handled: else the buffer begins with it.
LEMMA ReadAreHandled ==
  ASSUME NEW w \in Seq(Byte), NEW d \in Seq(Byte), Holds(w, 0, d), NEW fs, Framed(w, fs),
         NEW c \in Nat, c <= Len(d), NEW hs, Parsed(d, 0, hs, c),
         NEW b \in Seq(Byte), Holds(d, c, b), c + Len(b) = Len(d), Residue(b, 0),
         NEW k \in DOMAIN fs, FrameEnd(w, fs[k]) <= Len(d)
  PROVE  k \in DOMAIN hs
PROOF
<1> DEFINE m == Len(hs)
           l == m + 1
           f == fs[l]
<1>1. /\ hs \in Seq(Nat) /\ m \in Nat /\ DOMAIN hs = 1 .. m /\ \A j \in DOMAIN hs : hs[j] \in Nat
      /\ \A j \in DOMAIN hs : HeaderAt(d, hs[j]) /\ FrameEnd(d, hs[j]) <= c
      /\ \A o \in Nat : 0 <= o /\ o < c => Resolved(d, hs, o)
  BY DEF Parsed
<1>2. /\ fs \in Seq(Nat) /\ Len(fs) \in Nat /\ DOMAIN fs = 1 .. Len(fs) /\ \A j \in DOMAIN fs : fs[j] \in Nat
      /\ \A j \in DOMAIN fs : HeaderAt(w, fs[j])
      /\ \A i, j \in DOMAIN fs : i < j => FrameEnd(w, fs[i]) <= fs[j]
  BY DEF Framed
<1>3. HeaderLength \in Nat \ {0} /\ Len(d) \in Nat /\ Len(b) \in Nat
  BY Codec
<1>4. ASSUME NEW o \in Nat, o + HeaderLength <= Len(d)
      PROVE  /\ HeaderAt(w, o) <=> HeaderAt(d, o)
             /\ FrameEnd(w, o) = FrameEnd(d, o)
             /\ FrameEnd(d, o) \in Nat /\ FrameEnd(d, o) >= o + HeaderLength /\ FrameEnd(d, o) > o
  BY <1>4, SamePrefix
<1>5. \A j \in DOMAIN hs : j \in DOMAIN fs /\ hs[j] = fs[j]
  BY HandledAreSent
<1>6. ASSUME NEW j \in DOMAIN fs
      PROVE  fs[j] \in Nat /\ FrameEnd(w, fs[j]) \in Nat /\ FrameEnd(w, fs[j]) > fs[j]
  BY <1>2, Header
<1>7. ASSUME NEW j \in DOMAIN hs
      PROVE  FrameEnd(w, fs[j]) <= c
  <2>1. hs[j] = fs[j] /\ hs[j] \in Nat /\ HeaderAt(d, hs[j]) /\ FrameEnd(d, hs[j]) <= c
    BY <1>1, <1>5
  <2>2. hs[j] + HeaderLength <= Len(d)
    BY <2>1 DEF HeaderAt
  <2>3. FrameEnd(w, hs[j]) = FrameEnd(d, hs[j])
    BY <1>4, <2>1, <2>2
  <2> QED BY <2>1, <2>3
<1> SUFFICES ASSUME k \notin DOMAIN hs
             PROVE  FALSE
  OBVIOUS
<1>8. l \in DOMAIN fs /\ l <= k
  BY <1>1, <1>2
<1>9. f \in Nat /\ FrameEnd(w, f) \in Nat /\ FrameEnd(w, f) > f /\ HeaderAt(w, f)
  BY <1>2, <1>6, <1>8
<1>10. FrameEnd(w, f) <= Len(d)
  <2>1. CASE l = k
    BY <2>1
  <2>2. CASE l # k
    <3>1. l < k
      BY <1>1, <1>2, <1>8, <2>2
    <3>2. FrameEnd(w, f) <= fs[k] /\ fs[k] \in Nat /\ FrameEnd(w, fs[k]) \in Nat /\ FrameEnd(w, fs[k]) > fs[k]
      BY <1>2, <1>6, <1>8, <3>1
    <3> HIDE DEF f
    <3> QED BY <1>3, <1>9, <3>2
  <2> QED BY <2>1, <2>2
<1>11. FrameEnd(w, f) >= f + HeaderLength
  <2>1. Holds(w, 0, w) /\ f + HeaderLength <= Len(w)
    BY <1>9 DEF Holds, HeaderAt
  <2> HIDE DEF f
  <2> QED BY <1>9, <2>1, SamePrefix
<1> HIDE DEF f
<1>12. f + HeaderLength <= Len(d)
  BY <1>3, <1>9, <1>10, <1>11
<1>13. ~(f < c)
  <2> SUFFICES ASSUME f < c
               PROVE  FALSE
    OBVIOUS
  <2>1. HeaderAt(d, f) /\ Resolved(d, hs, f)
    BY <1>1, <1>4, <1>9, <1>12
  <2>2. PICK j \in DOMAIN hs : hs[j] <= f /\ f < FrameEnd(d, hs[j])
    BY <2>1 DEF Resolved
  <2>3. hs[j] = fs[j] /\ j \in DOMAIN fs /\ j < l
    BY <1>1, <1>5, <2>2
  <2>4. FrameEnd(w, fs[j]) <= f
    BY <1>2, <1>8, <2>3 DEF f
  <2>5. hs[j] \in Nat /\ hs[j] + HeaderLength <= Len(d)
    BY <1>1, <2>2 DEF HeaderAt
  <2>6. FrameEnd(w, hs[j]) = FrameEnd(d, hs[j]) /\ FrameEnd(d, hs[j]) \in Nat
    BY <1>4, <2>5
  <2> QED BY <1>9, <2>2, <2>3, <2>4, <2>6
<1>14. ~(0 + HeaderLength > Len(b))
  BY <1>3, <1>9, <1>12, <1>13
<1>15. HeaderAt(b, 0) /\ FrameEnd(b, 0) > Len(b)
  BY <1>14 DEF Residue
<1>16. 0 + HeaderLength <= Len(b) /\ c + HeaderLength <= Len(d)
  BY <1>3, <1>14
<1>17. HeaderAt(d, c) /\ FrameEnd(d, c) > Len(d) /\ FrameEnd(d, c) \in Nat
  <2>1. /\ HeaderAt(d, c + 0) <=> HeaderAt(b, 0)
        /\ FrameEnd(b, 0) \in Nat /\ FrameEnd(d, c + 0) = c + FrameEnd(b, 0)
    BY <1>16, SameHeader
  <2>2. c + 0 = c
    OBVIOUS
  <2>3. FrameEnd(d, c) = c + FrameEnd(b, 0) /\ HeaderAt(d, c)
    BY <1>15, <2>1, <2>2
  <2> QED BY <1>3, <1>15, <2>1, <2>3
<1>18. HeaderAt(w, c) /\ FrameEnd(w, c) = FrameEnd(d, c)
  BY <1>4, <1>16, <1>17
<1>19. PICK i \in DOMAIN fs : fs[i] <= c /\ c < FrameEnd(w, fs[i])
  BY <1>18, InAFrame
<1>20. i \notin DOMAIN hs /\ fs[i] \in Nat /\ FrameEnd(w, fs[i]) \in Nat
  BY <1>6, <1>7, <1>19
<1>21. i = l
  <2>1. CASE l < i
    <3>1. FrameEnd(w, f) <= fs[i]
      BY <1>2, <1>8, <2>1 DEF f
    <3> QED BY <1>9, <1>13, <1>19, <1>20, <3>1
  <2>2. i \in Nat /\ i >= l /\ l \in Nat
    BY <1>1, <1>2, <1>19, <1>20
  <2> HIDE DEF l
  <2> QED BY <2>1, <2>2
<1>22. f = c
  BY <1>9, <1>13, <1>19, <1>21 DEF f
<1> QED BY <1>3, <1>10, <1>17, <1>18, <1>22

-----------------------------------------------------------------------------
(* FrameCodec: theorems *)

\* What the sending peer has done.
SentInv ==
  /\ frames \in Seq(Nat) /\ noise \in 0 .. MaxNoise /\ Len(stream) <= MaxStream
  /\ noise = 0 => Framed(stream, frames)

LEMMA CodecStart ==
  ASSUME stream = << >>, frames = << >>, noise = 0, received = 0, buffer = << >>, handled = << >>, threw = FALSE
  PROVE  CodecInv /\ SentInv
PROOF
<1>1. << >> \in Seq(Byte) /\ << >> \in Seq(Nat) /\ Len(<< >>) = 0 /\ 0 \in 0 .. 0 /\ DOMAIN << >> = {}
  OBVIOUS
<1>2. Input \in Seq(Byte) /\ Len(Input) = 0
  <2>1. received \in 0 .. Len(stream) /\ stream \in Seq(Byte)
    BY <1>1
  <2> QED BY <1>1, <2>1, InputIs DEF Input
<1>3. Consumed = 0
  <2>1. Len(buffer) = 0 /\ 0 - 0 = 0
    BY <1>1
  <2> QED BY <2>1 DEF Consumed
<1>4. Holds(Input, 0, << >>)
  <2>1. 0 + 0 <= 0 /\ 1 .. 0 = {}
    OBVIOUS
  <2> QED BY <1>1, <1>2, <2>1 DEF Holds
<1>5. Parsed(Input, 0, << >>, 0)
  BY ParsedNothing
<1>6. Residue(<< >>, 0)
  <2>1. 0 + HeaderLength > 0
    BY Codec
  <2> QED BY <1>1, <2>1 DEF Residue
<1>7. CodecInv
  <2>1. stream \in Seq(Byte) /\ buffer \in Seq(Byte) /\ received \in 0 .. Len(stream)
    BY <1>1
  <2>2. Len(buffer) <= received
    BY <1>1
  <2>3. Holds(Input, Consumed, buffer) /\ Parsed(Input, 0, handled, Consumed)
    BY <1>3, <1>4, <1>5
  <2>4. Residue(buffer, 0) /\ threw \in BOOLEAN
    BY <1>6
  <2> QED BY <2>1, <2>2, <2>3, <2>4 DEF CodecInv
<1>8. Framed(<< >>, << >>)
  <2>1. ~ \E o \in Nat : o < 0
    OBVIOUS
  <2> QED BY <1>1, <2>1 DEF Framed
<1>9. SentInv
  BY <1>1, <1>8, Codec DEF SentInv
<1> QED BY <1>7, <1>9

LEMMA SendFrameKeeps ==
  ASSUME CodecInv, SentInv, NEW payload \in Payloads, SendFrame(payload)
  PROVE  CodecInv' /\ SentInv'
PROOF
<1> DEFINE n == Len(payload)
           x == Encode(payload)
<1>1. payload \in Seq(Byte) /\ n \in Nat /\ n <= MaxMessageSize
  <2>1. PICK m \in 0 .. MaxMessageSize : payload \in [1 .. m -> Byte]
    BY DEF Payloads
  <2>2. payload \in Seq(Byte) /\ Len(payload) = m
    BY <2>1
  <2> QED BY <2>1, <2>2, Codec
<1>2. n < Power[SizeLength]
  <2>1. MaxMessageSize < Power[SizeLength] /\ MaxMessageSize \in Nat
    BY CodecAssumption
  <2>2. Power[SizeLength] \in Nat
    <3>1. SizeLength \in 0 .. SizeLength
      BY Codec
    <3> QED BY <3>1, Powers
  <2> QED BY <1>1, <2>1, <2>2
<1> HIDE DEF n
<1>3. x \in Seq(Byte) /\ Len(x) = HeaderLength + n /\ Writes(x, 0, n)
  BY <1>1, <1>2, Segment DEF Encode, n
<1> HIDE DEF x
<1>4. Transmit(x) /\ frames' = Append(frames, Len(stream)) /\ noise' = noise
  BY DEF SendFrame, x
<1>5. CodecInv'
  BY <1>3, <1>4, TransmitKeeps
<1>6. stream \in Seq(Byte) /\ stream' = stream \o x /\ Len(stream) + Len(x) <= MaxStream /\ Len(stream) \in Nat
  BY <1>4 DEF CodecInv, Transmit
<1>7. frames' \in Seq(Nat) /\ noise' \in 0 .. MaxNoise
  BY <1>4, <1>6 DEF SentInv
<1>8. Len(stream') <= MaxStream
  <2>1. Len(stream \o x) = Len(stream) + Len(x)
    BY <1>3, <1>6, Joined
  <2> QED BY <1>6, <2>1
<1>9. noise = 0 => Framed(stream \o x, Append(frames, Len(stream)))
  BY <1>1, <1>3, <1>6, FrameSent DEF SentInv
<1>10. noise' = 0 => Framed(stream', frames')
  BY <1>4, <1>6, <1>9
<1>11. SentInv'
  BY <1>7, <1>8, <1>10 DEF SentInv
<1> QED BY <1>5, <1>11

LEMMA SendOversizedKeeps ==
  ASSUME CodecInv, SentInv, NEW n \in (MaxMessageSize + 1) .. (Power[SizeLength] - 1), SendOversized(n)
  PROVE  CodecInv' /\ SentInv'
PROOF
<1> DEFINE x == Magic \o LengthField(n)
<1>1. n \in Nat /\ n < Power[SizeLength] /\ n > MaxMessageSize
  <2>1. SizeLength \in 0 .. SizeLength /\ MaxMessageSize \in Nat
    BY Codec
  <2>2. Power[SizeLength] \in Nat
    BY <2>1, Powers
  <2> QED BY <2>1, <2>2
<1>2. x \in Seq(Byte) /\ Len(x) = HeaderLength /\ Writes(x, 0, n)
  <2>1. << >> \in Seq(Byte)
    OBVIOUS
  <2> QED BY <1>1, <2>1, Segment
<1> HIDE DEF x
<1>3. Transmit(x) /\ frames' = frames /\ noise' = noise
  BY DEF SendOversized, x
<1>4. CodecInv'
  BY <1>2, <1>3, TransmitKeeps
<1>5. stream \in Seq(Byte) /\ stream' = stream \o x /\ Len(stream) + Len(x) <= MaxStream
  BY <1>3 DEF CodecInv, Transmit
<1>6. Len(stream') <= MaxStream
  <2>1. Len(stream \o x) = Len(stream) + Len(x)
    BY <1>2, <1>5, Joined
  <2> QED BY <1>5, <2>1
<1>7. noise = 0 => Framed(stream \o x, frames)
  BY <1>1, <1>2, <1>5, OversizedSent DEF SentInv
<1>8. noise' = 0 => Framed(stream', frames')
  BY <1>3, <1>5, <1>7
<1>9. SentInv'
  BY <1>3, <1>6, <1>8 DEF SentInv
<1> QED BY <1>4, <1>9

LEMMA SendNoiseKeeps ==
  ASSUME CodecInv, SentInv, NEW b \in Byte, SendNoise(b)
  PROVE  CodecInv' /\ SentInv'
PROOF
<1> DEFINE x == <<b>>
<1>1. x \in Seq(Byte) /\ Len(x) = 1
  OBVIOUS
<1> HIDE DEF x
<1>2. Transmit(x) /\ frames' = frames /\ noise' = noise + 1 /\ noise < MaxNoise
  BY DEF SendNoise, x
<1>3. CodecInv'
  BY <1>1, <1>2, TransmitKeeps
<1>4. stream \in Seq(Byte) /\ stream' = stream \o x /\ Len(stream) + Len(x) <= MaxStream
  BY <1>2 DEF CodecInv, Transmit
<1>5. Len(stream') <= MaxStream
  <2>1. Len(stream \o x) = Len(stream) + Len(x)
    BY <1>1, <1>4, Joined
  <2> QED BY <1>4, <2>1
<1>6. noise' \in 0 .. MaxNoise /\ noise' # 0
  BY <1>2, Codec DEF SentInv
<1>7. SentInv'
  BY <1>2, <1>5, <1>6 DEF SentInv
<1> QED BY <1>3, <1>7

LEMMA CodecInvariant == CodecSpec => [](CodecInv /\ SentInv)
PROOF
<1>1. CodecInit => CodecInv /\ SentInv
  BY CodecStart DEF CodecInit
<1>2. CodecInit' => (CodecInv /\ SentInv)'
  BY <1>1, PTL
<1>3. (CodecInv /\ SentInv) /\ [CodecNext]_codecVars => (CodecInv /\ SentInv)'
  <2> SUFFICES ASSUME CodecInv, SentInv, [CodecNext]_codecVars
               PROVE  CodecInv' /\ SentInv'
    OBVIOUS
  <2>1. ASSUME NEW payload \in Payloads, SendFrame(payload)
        PROVE  CodecInv' /\ SentInv'
    BY <2>1, SendFrameKeeps
  <2>2. ASSUME NEW n \in (MaxMessageSize + 1) .. (Power[SizeLength] - 1), SendOversized(n)
        PROVE  CodecInv' /\ SentInv'
    BY <2>2, SendOversizedKeeps
  <2>3. ASSUME NEW b \in Byte, SendNoise(b)
        PROVE  CodecInv' /\ SentInv'
    BY <2>3, SendNoiseKeeps
  <2>4. ASSUME NEW n \in 1 .. MaxStream, Receive(n)
        PROVE  CodecInv' /\ SentInv'
    <3>1. n \in Nat \ {0}
      BY Codec
    <3>2. CodecInv'
      BY <2>4, <3>1, ReceiveKeeps
    <3>3. SentInv'
      BY <2>4 DEF SentInv, Receive
    <3> QED BY <3>2, <3>3
  <2>5. CASE Reconnect
    <3>1. CodecInit'
      BY <2>5 DEF Reconnect, CodecInit
    <3> QED BY <1>2, <3>1
  <2>6. CASE UNCHANGED codecVars
    <3>1. CodecInv'
      BY <2>6 DEF codecVars, CodecInv, Input, Consumed
    <3>2. SentInv'
      BY <2>6 DEF codecVars, SentInv
    <3> QED BY <3>1, <3>2
  <2> QED BY <2>1, <2>2, <2>3, <2>4, <2>5, <2>6 DEF CodecNext
<1> QED BY <1>1, <1>3, PTL DEF CodecSpec

\* The framing keeps to its types.
THEOREM CodecTypeCorrect == CodecSpec => []CodecTypeOK
PROOF
<1>1. CodecInv /\ SentInv => CodecTypeOK
  <2> SUFFICES ASSUME CodecInv, SentInv
               PROVE  CodecTypeOK
    OBVIOUS
  <2>1. handled \in Seq(Nat)
    BY DEF CodecInv, Parsed
  <2> QED BY <2>1 DEF CodecInv, SentInv, CodecTypeOK
<1> QED BY <1>1, CodecInvariant, PTL

\* However reads cut the stream and wherever a callback throws, decode() hands out
\* the frames of one pass over the whole stream.
THEOREM ParseCorrect == CodecSpec => []OnePassParse
PROOF
<1>1. CodecInv => OnePassParse
  <2> SUFFICES ASSUME CodecInv
               PROVE  OnePassParse
    OBVIOUS
  <2>1. Parsed(Input, 0, handled, Consumed) /\ Consumed \in Nat
    BY DEF CodecInv, Consumed
  <2>2. /\ handled \in Seq(Nat) /\ DOMAIN handled = 1 .. Len(handled)
        /\ \A k \in DOMAIN handled : HeaderAt(Input, handled[k]) /\ FrameEnd(Input, handled[k]) <= Consumed
        /\ \A j, k \in DOMAIN handled : j < k => FrameEnd(Input, handled[j]) <= handled[k]
        /\ \A o \in Nat : 0 <= o /\ o < Consumed => Resolved(Input, handled, o)
    BY <2>1 DEF Parsed
  <2>3. ASSUME NEW k \in DOMAIN handled, k > 1
        PROVE  FrameEnd(Input, handled[k - 1]) <= handled[k]
    <3>1. k - 1 \in DOMAIN handled /\ k - 1 < k
      BY <2>2, <2>3
    <3> QED BY <2>2, <3>1
  <2>4. ASSUME NEW o \in 0 .. (Consumed - 1), HeaderAt(Input, o)
        PROVE  \E k \in DOMAIN handled : handled[k] <= o /\ o < FrameEnd(Input, handled[k])
    <3>1. o \in Nat /\ 0 <= o /\ o < Consumed
      BY <2>1
    <3>2. Resolved(Input, handled, o)
      BY <2>2, <3>1
    <3> QED BY <2>4, <3>2 DEF Resolved
  <2> QED BY <2>2, <2>3, <2>4 DEF OnePassParse
<1> QED BY <1>1, CodecInvariant, PTL

\* What decode() leaves in the buffer is less than one admissible frame.
THEOREM ResidueCorrect == CodecSpec => []ResidueIsOneFrame
PROOF
<1>1. CodecInv => ResidueIsOneFrame
  <2> SUFFICES ASSUME CodecInv, ~threw
               PROVE  Len(buffer) < HeaderLength \/ (HeaderAt(buffer, 0) /\ Len(buffer) < FrameEnd(buffer, 0))
    BY DEF ResidueIsOneFrame
  <2>1. Residue(buffer, 0) /\ buffer \in Seq(Byte) /\ Len(buffer) \in Nat /\ HeaderLength \in Nat
    BY Codec DEF CodecInv
  <2>2. CASE 0 + HeaderLength > Len(buffer)
    BY <2>1, <2>2
  <2>3. CASE HeaderAt(buffer, 0) /\ FrameEnd(buffer, 0) > Len(buffer)
    <3>1. FrameEnd(buffer, 0) \in Nat
      BY <2>1, <2>3, Header
    <3> QED BY <2>1, <2>3, <3>1
  <2> QED BY <2>1, <2>2, <2>3 DEF Residue
<1> QED BY <1>1, CodecInvariant, PTL

\* A peer that sends only frames and oversized headers has its frames handled in
\* order, all of those that were read completely unless a callback threw.
THEOREM SentCorrect == CodecSpec => []SentFramesHandled
PROOF
<1>1. CodecInv /\ SentInv => SentFramesHandled
  <2> SUFFICES ASSUME CodecInv, SentInv, noise = 0
               PROVE  /\ IsPrefix(handled, frames)
                      /\ ~threw => \A k \in DOMAIN frames :
                                     FrameEnd(stream, frames[k]) <= received => k \in DOMAIN handled
    BY DEF SentFramesHandled
  <2>1. /\ stream \in Seq(Byte) /\ received \in 0 .. Len(stream) /\ Len(stream) \in Nat /\ received \in Nat
        /\ buffer \in Seq(Byte) /\ Len(buffer) \in Nat /\ Len(buffer) <= received
        /\ Framed(stream, frames) /\ Holds(Input, Consumed, buffer) /\ Parsed(Input, 0, handled, Consumed)
        /\ ~threw => Residue(buffer, 0)
    BY DEF CodecInv, SentInv
  <2>2. /\ Input \in Seq(Byte) /\ Len(Input) = received
        /\ \A i \in 1 .. received : Input[i] = stream[i]
    BY <2>1, InputIs DEF Input
  <2>3. Holds(stream, 0, Input)
    <3>1. 0 + received <= Len(stream) /\ \A i \in 1 .. received : 0 + i = i
      BY <2>1
    <3> QED BY <2>2, <3>1 DEF Holds
  <2>4. Consumed \in Nat /\ Consumed <= Len(Input) /\ Consumed + Len(buffer) = Len(Input)
    BY <2>1, <2>2 DEF Consumed
  <2>5. \A k \in DOMAIN handled : k \in DOMAIN frames /\ handled[k] = frames[k]
    BY <2>1, <2>2, <2>3, <2>4, HandledAreSent
  <2>6. IsPrefix(handled, frames)
    <3> DEFINE m == Len(handled)
    <3>1. /\ handled \in Seq(Nat) /\ m \in Nat /\ DOMAIN handled = 1 .. m
          /\ frames \in Seq(Nat) /\ Len(frames) \in Nat /\ DOMAIN frames = 1 .. Len(frames)
      BY <2>1 DEF Parsed, SentInv
    <3>2. m <= Len(frames)
      <4>1. CASE m = 0
        BY <3>1, <4>1
      <4>2. CASE m # 0
        <5>1. m \in DOMAIN handled
          BY <3>1, <4>2
        <5>2. m \in DOMAIN frames
          BY <2>5, <5>1
        <5> QED BY <3>1, <5>2
      <4> QED BY <4>1, <4>2
    <3>3. Alike(handled, 0, frames, 0, m)
      <4>1. 0 + m <= m /\ 0 + m <= Len(frames) /\ \A i \in 1 .. m : 0 + i = i
        BY <3>1, <3>2
      <4> QED BY <2>5, <3>1, <4>1 DEF Alike
    <3> HIDE DEF m
    <3>4. SubSeq(handled, 0 + 1, 0 + m) = SubSeq(frames, 0 + 1, 0 + m)
      <4> DEFINE p == handled
                 q == frames
      <4>1. p \in Seq(Nat) /\ q \in Seq(Nat) /\ m \in Nat /\ 0 \in Nat /\ Alike(p, 0, q, 0, m)
        BY <3>1, <3>3
      <4> HIDE DEF p, q
      <4>2. SubSeq(p, 0 + 1, 0 + m) = SubSeq(q, 0 + 1, 0 + m)
        BY <4>1, SamePart
      <4> QED BY <4>2 DEF p, q
    <3>5. 0 + 1 = 1 /\ 0 + m = m
      BY <3>1
    <3> QED BY <3>2, <3>4, <3>5 DEF IsPrefix, m
  <2>7. ASSUME ~threw, NEW k \in DOMAIN frames, FrameEnd(stream, frames[k]) <= received
        PROVE  k \in DOMAIN handled
    BY <2>1, <2>2, <2>3, <2>4, <2>7, ReadAreHandled
  <2> QED BY <2>6, <2>7
<1> QED BY <1>1, CodecInvariant, PTL

=============================================================================
