----------------------------- MODULE FrameCodec -----------------------------
(***************************************************************************)
(* The framing of the byte stream (src/src/common/frame_codec.h) between   *)
(* two peers: encode() on the sending side; on the receiving side a        *)
(* read_buffer_ to which each completed read commits some bytes before     *)
(* decode() is called (Session::doRead() and TcpClient::doRead()).         *)
(*                                                                         *)
(* Reads cut the stream anywhere.  The peer may also send bytes that are   *)
(* no frame, the callback may throw, and the connection may be replaced.   *)
(* A byte is a digit: the magic and the length field are short, the        *)
(* length is still read most significant digit first.  Offsets count from  *)
(* 0, as in the code.                                                      *)
(***************************************************************************)
EXTENDS Naturals, Sequences, FiniteSets, SequencesExt

CONSTANTS Base,            \* the number of byte values (code: 256)
          Magic,           \* kMagic, most significant byte first
          SizeLength,      \* kSizeLength
          MaxMessageSize,  \* kMaxMessageSize
          MaxStream,       \* bound: bytes sent on one connection
          MaxNoise         \* bound: bytes sent outside frames and headers

Byte == 0 .. Base - 1

HeaderLength == Len(Magic) + SizeLength

\* The value of the digits of s, most significant first.
Number(s) ==
  LET value[k \in 0 .. Len(s)] == IF k = 0 THEN 0 ELSE value[k - 1] * Base + s[k]
  IN  value[Len(s)]

Power[k \in 0 .. SizeLength] == IF k = 0 THEN 1 ELSE Base * Power[k - 1]

\* What 0xDEADBEEF has and a shorter magic must be given: its bytes are all
\* different, it is as long as a length field and, read as one, excessive.  So no
\* header begins between an oversized header and the frame that follows it.
ASSUME CodecAssumption ==
  /\ Base \in Nat \ {0, 1} /\ SizeLength \in Nat \ {0} /\ MaxMessageSize \in Nat
  /\ MaxStream \in Nat /\ MaxNoise \in Nat
  /\ Magic \in Seq(Byte) /\ Magic # << >> /\ IsInjective(Magic)
  /\ Len(Magic) = SizeLength /\ Number(Magic) > MaxMessageSize
  /\ MaxMessageSize < Power[SizeLength]

VARIABLES stream,    \* the bytes sent on this connection
          frames,    \* offsets in stream of the frames that encode() made
          noise,     \* the number of bytes of stream that belong to no frame or header
          received,  \* how many bytes of stream have been read
          buffer,    \* read_buffer_
          handled,   \* offsets in stream of the frames whose callback returned
          threw      \* the callback threw during the last decode()

codecVars == <<stream, frames, noise, received, buffer, handled, threw>>

CodecInit ==
  /\ stream = << >> /\ frames = << >> /\ noise = 0
  /\ received = 0 /\ buffer = << >> /\ handled = << >> /\ threw = FALSE

-----------------------------------------------------------------------------
(* The sending peer *)

\* The length field that announces n payload bytes, in network byte order.
LengthField(n) == [k \in 1 .. SizeLength |-> (n \div Power[SizeLength - k]) % Base]

\* Mutant: the length in the byte order of a little-endian host.
EncodeNative(payload) == Magic \o Reverse(LengthField(Len(payload))) \o payload

\* encode(), for a payload that is not too long; else it throws and nothing is sent.
Encode(payload) == Magic \o LengthField(Len(payload)) \o payload

Transmit(bytes) ==
  /\ Len(stream) + Len(bytes) <= MaxStream
  /\ stream' = stream \o bytes
  /\ UNCHANGED <<received, buffer, handled, threw>>

Payloads == UNION {[1 .. n -> Byte] : n \in 0 .. MaxMessageSize}

SendFrame(payload) ==
  /\ Transmit(Encode(payload))
  /\ frames' = Append(frames, Len(stream))
  /\ UNCHANGED noise

\* A malformed header, which announces more than kMaxMessageSize bytes.
SendOversized(n) ==
  /\ Transmit(Magic \o LengthField(n))
  /\ UNCHANGED <<frames, noise>>

SendNoise(b) ==
  /\ noise < MaxNoise
  /\ Transmit(<<b>>)
  /\ noise' = noise + 1
  /\ UNCHANGED frames

-----------------------------------------------------------------------------
(* The receiving peer *)

MagicAt(data, o) == SubSeq(data, o + 1, o + Len(Magic)) = Magic

LengthAt(data, o) == Number(SubSeq(data, o + Len(Magic) + 1, o + HeaderLength))

\* A header that scan() takes for the beginning of a frame.
HeaderAt(data, o) ==
  o + HeaderLength <= Len(data) /\ MagicAt(data, o) /\ LengthAt(data, o) <= MaxMessageSize

FrameEnd(data, o) == o + HeaderLength + LengthAt(data, o)

\* Mutant: a rejected header is skipped as a whole.
ScanSkipsHeader(data) ==
  LET from[o \in 0 .. Len(data)] ==
        IF o + HeaderLength > Len(data) THEN [offset |-> o, frames |-> << >>]
        ELSE IF ~MagicAt(data, o) THEN from[o + 1]
        ELSE IF LengthAt(data, o) > MaxMessageSize THEN from[o + HeaderLength]
        ELSE IF FrameEnd(data, o) > Len(data) THEN [offset |-> o, frames |-> << >>]
        ELSE [from[FrameEnd(data, o)] EXCEPT !.frames = <<o>> \o @]
  IN  from[0]

\* Mutant: an excessive length is waited for.
ScanWaits(data) ==
  LET from[o \in 0 .. Len(data)] ==
        IF o + HeaderLength > Len(data) THEN [offset |-> o, frames |-> << >>]
        ELSE IF ~MagicAt(data, o) THEN from[o + 1]
        ELSE IF FrameEnd(data, o) > Len(data) THEN [offset |-> o, frames |-> << >>]
        ELSE [from[FrameEnd(data, o)] EXCEPT !.frames = <<o>> \o @]
  IN  from[0]

\* scan(): the frames it dispatches, and the first byte it has not resolved.  A
\* byte that begins no header is skipped alone; an incomplete frame ends the scan.
Scan(data) ==
  LET from[o \in 0 .. Len(data)] ==
        IF o + HeaderLength > Len(data) THEN [offset |-> o, frames |-> << >>]
        ELSE IF ~HeaderAt(data, o) THEN from[o + 1]
        ELSE IF FrameEnd(data, o) > Len(data) THEN [offset |-> o, frames |-> << >>]
        ELSE [from[FrameEnd(data, o)] EXCEPT !.frames = <<o>> \o @]
  IN  from[0]

\* decode() of data when the callback throws at its n-th frame (n = 0: never).
\* Whatever scan() has resolved is consumed on every exit.
Decode(data, n) ==
  LET scan == Scan(data)
  IN  IF n = 0 THEN scan
      ELSE [offset |-> scan.frames[n], frames |-> SubSeq(scan.frames, 1, n - 1)]

\* A read completes with the next n bytes: commit() and decode().  A handler that
\* an exception leaves starts no further read.
Receive(n) ==
  /\ ~threw
  /\ received + n <= Len(stream)
  /\ received' = received + n
  /\ LET data == buffer \o SubSeq(stream, received + 1, received + n)
         base == received - Len(buffer)
     IN  \E t \in 0 .. Len(Scan(data).frames) :
           LET result == Decode(data, t)
           IN  /\ buffer' = SubSeq(data, result.offset + 1, Len(data))
               /\ handled' = handled \o [k \in DOMAIN result.frames |-> base + result.frames[k]]
               /\ threw' = (t # 0)
  /\ UNCHANGED <<stream, frames, noise>>

\* The connection is given up, whatever is under way on it: disconnect() clears
\* the buffer and the next connection is a new stream.
Reconnect ==
  /\ stream' = << >> /\ frames' = << >> /\ noise' = 0
  /\ received' = 0 /\ buffer' = << >> /\ handled' = << >> /\ threw' = FALSE

CodecNext ==
  \/ \E payload \in Payloads : SendFrame(payload)
  \/ \E n \in (MaxMessageSize + 1) .. (Power[SizeLength] - 1) : SendOversized(n)
  \/ \E b \in Byte : SendNoise(b)
  \/ \E n \in 1 .. MaxStream : Receive(n)
  \/ Reconnect

CodecSpec == CodecInit /\ [][CodecNext]_codecVars

-----------------------------------------------------------------------------
(* Properties *)

\* The bytes that have been read, and how many of them decode() has consumed.
Input    == SubSeq(stream, 1, received)
Consumed == received - Len(buffer)

\* Type invariant of the codec's users.
CodecTypeOK ==
  /\ stream \in Seq(Byte) /\ Len(stream) <= MaxStream
  /\ frames \in Seq(Nat) /\ noise \in 0 .. MaxNoise
  /\ received \in 0 .. Len(stream)
  /\ buffer \in Seq(Byte) /\ handled \in Seq(Nat) /\ threw \in BOOLEAN

\* However reads cut the stream, and wherever a callback throws, the frames that
\* are handled are those of one pass over the whole stream: each is a complete
\* frame, they do not overlap, none is handled twice, and no header that was
\* passed over lies outside them (the decode contract of frame_codec.h).
OnePassParse ==
  LET Covers(k, o) == handled[k] <= o /\ o < FrameEnd(Input, handled[k])
  IN  /\ \A k \in DOMAIN handled :
           /\ HeaderAt(Input, handled[k]) /\ FrameEnd(Input, handled[k]) <= Consumed
           /\ k > 1 => FrameEnd(Input, handled[k - 1]) <= handled[k]
      /\ \A o \in 0 .. (Consumed - 1) :
           HeaderAt(Input, o) => \E k \in DOMAIN handled : Covers(k, o)

\* As long as the peer sends only frames and oversized headers, the frames that
\* are handled are the ones that were sent, in order, whatever their payloads
\* contain; unless the callback threw, none that was read completely is missing
\* ("a valid frame following a malformed one is still recovered").
SentFramesHandled ==
  noise = 0 =>
    /\ IsPrefix(handled, frames)
    /\ ~threw => \A k \in DOMAIN frames :
                   FrameEnd(stream, frames[k]) <= received => k \in DOMAIN handled

\* What decode() leaves in the buffer is less than a header or the beginning of
\* one admissible frame, so that no peer makes the buffer grow beyond one frame
\* (Oversized-frame protection of frame_codec.h).
ResidueIsOneFrame ==
  ~threw =>
    \/ Len(buffer) < HeaderLength
    \/ HeaderAt(buffer, 0) /\ Len(buffer) < FrameEnd(buffer, 0)

=============================================================================
