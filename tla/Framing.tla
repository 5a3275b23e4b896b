-------------------------------- MODULE Framing --------------------------------
(***************************************************************************)
(* The framing of a SAPIENT stream (peat-sapient/src/codec.rs) between the *)
(* end that encodes and the end that decodes: a length in four bytes, then *)
(* the payload. TCP cuts the stream anywhere.                              *)
(*                                                                         *)
(* A byte is << i, k >>, the k-th byte of the i-th frame; what its value   *)
(* is matters only to a reader that is out of step. FramedRead, which      *)
(* drives the decoder, is external: it reads only when the decoder asks    *)
(* for more, and stops at the first error.                                 *)
(***************************************************************************)
EXTENDS Integers, SequencesExt

CONSTANTS
  Size,          \* sizes of the payloads encoded
  MaxFrameBytes, \* MAX_FRAME_BYTES
  LengthModulus, \* 2^32: the length is cast to u32
  ReadCapacity,  \* the most bytes one read returns
  MaxFrames      \* bound of the frames encoded, for TLC

ASSUME FramingAssumption ==
  /\ Size \subseteq Nat
  /\ MaxFrameBytes \in Nat /\ LengthModulus \in Nat \ {0}
  /\ ReadCapacity \in Nat \ {0} /\ MaxFrames \in Nat

HeaderBytes == 4

VARIABLES
  frames,  \* the frames encoded: size, and is the payload a message?
  wire,    \* bytes written and not yet read
  buffer,  \* the buffer of the decoder
  decoded, \* the numbers of the frames decoded; 0 for what never was a frame
  reader,  \* "reading", "failed" or "ended"
  writer   \* "open" or "closed"

framingVars == << frames, wire, buffer, decoded, reader, writer >>

FramingInit ==
  /\ frames = << >> /\ wire = << >> /\ buffer = << >> /\ decoded = << >>
  /\ reader = "reading" /\ writer = "open"

-----------------------------------------------------------------------------

FrameBytes(i, size) == [k \in 1..(HeaderBytes + size) |-> << i, k >>]

\* encode(): no limit is checked on the way out.
Encode(size, valid) ==
  /\ writer = "open"
  /\ Len(frames) < MaxFrames
  /\ frames' = Append(frames, [size |-> size, valid |-> valid])
  /\ wire' = wire \o FrameBytes(Len(frames) + 1, size)
  /\ UNCHANGED << buffer, decoded, reader, writer >>

\* What the first four bytes say: the length of a frame if they are its header,
\* whatever four bytes can say if they are not.
Declared ==
  LET i == buffer[1][1]
  IN  IF \A k \in 1..HeaderBytes : buffer[k] = << i, k >>
        THEN {frames[i].size % LengthModulus}
        ELSE 0..(LengthModulus - 1)

\* A slip used by the configurations: the limit is off by one.
TooLargeByTwo(length) == length > MaxFrameBytes + 1

TooLarge(length) == length > MaxFrameBytes

Whole(length) == Len(buffer) >= HeaderBytes + length

\* The decoder has an answer other than "more".
Decodable ==
  /\ Len(buffer) >= HeaderBytes
  /\ \E length \in Declared : TooLarge(length) \/ Whole(length)

FrameTooLarge ==
  /\ reader = "reading"
  /\ Len(buffer) >= HeaderBytes
  /\ \E length \in Declared : TooLarge(length)
  /\ reader' = "failed"
  /\ UNCHANGED << frames, wire, buffer, decoded, writer >>

Payload(i) == [k \in 1..frames[i].size |-> << i, HeaderBytes + k >>]

\* The frame whose payload these bytes are, 0 if they are none.
FrameOf(bytes) ==
  LET i == IF bytes = << >> THEN buffer[1][1] ELSE bytes[1][1]
  IN  IF bytes = Payload(i) THEN i ELSE 0

\* A slip used by the configurations: the length is peeked at and left there.
DecodeKeepingHeader ==
  /\ reader = "reading"
  /\ Len(buffer) >= HeaderBytes
  /\ \E length \in Declared :
       /\ ~TooLarge(length) /\ Whole(length)
       /\ buffer' = SubSeq(buffer, length + 1, Len(buffer))
       /\ decoded' = Append(decoded, FrameOf(SubSeq(buffer, 1, length)))
  /\ UNCHANGED << frames, wire, reader, writer >>

\* A complete frame: it leaves the buffer, and is a message or an error. Bytes
\* that are no frame's payload may be either.
Decode ==
  /\ reader = "reading"
  /\ Len(buffer) >= HeaderBytes
  /\ \E length \in Declared :
       LET i == FrameOf(SubSeq(buffer, HeaderBytes + 1, HeaderBytes + length))
       IN  /\ ~TooLarge(length) /\ Whole(length)
           /\ buffer' = SubSeq(buffer, HeaderBytes + length + 1, Len(buffer))
           /\ \/ /\ i > 0 => frames[i].valid
                 /\ decoded' = Append(decoded, i)
                 /\ UNCHANGED reader
              \/ /\ i > 0 => ~frames[i].valid
                 /\ reader' = "failed"
                 /\ UNCHANGED decoded
  /\ UNCHANGED << frames, wire, writer >>

\* The decoder wants more, and the socket has n bytes.
Read(n) ==
  /\ reader = "reading"
  /\ ~Decodable
  /\ n \in 1..ReadCapacity /\ n <= Len(wire)
  /\ buffer' = buffer \o SubSeq(wire, 1, n)
  /\ wire' = SubSeq(wire, n + 1, Len(wire))
  /\ UNCHANGED << frames, decoded, reader, writer >>

\* The writing end closes, or the connection breaks and loses some of the tail.
CloseStream(kept) ==
  /\ writer = "open"
  /\ kept \in 0..Len(wire)
  /\ wire' = SubSeq(wire, 1, kept)
  /\ writer' = "closed"
  /\ UNCHANGED << frames, buffer, decoded, reader >>

\* A slip used by the configurations: half a frame is waited for for ever.
EndOfStreamWaiting ==
  /\ reader = "reading"
  /\ writer = "closed" /\ wire = << >> /\ buffer = << >>
  /\ reader' = "ended"
  /\ UNCHANGED << frames, wire, buffer, decoded, writer >>

\* recv() at the end of the stream: an error if it ends within a frame.
EndOfStream ==
  /\ reader = "reading"
  /\ writer = "closed" /\ wire = << >>
  /\ ~Decodable
  /\ reader' = IF buffer = << >> THEN "ended" ELSE "failed"
  /\ UNCHANGED << frames, wire, buffer, decoded, writer >>

FramingNext ==
  \/ \E size \in Size, valid \in BOOLEAN : Encode(size, valid)
  \/ FrameTooLarge \/ Decode \/ EndOfStream
  \/ \E n \in 1..ReadCapacity : Read(n)
  \/ \E kept \in 0..Len(wire) : CloseStream(kept)

FramingSpec == FramingInit /\ [][FramingNext]_framingVars

\* The reading task is polled while it can go on.
FairFramingSpec ==
  FramingSpec
  /\ WF_framingVars(FrameTooLarge \/ Decode \/ EndOfStream \/ \E n \in 1..ReadCapacity : Read(n))

-----------------------------------------------------------------------------
(***************************************************************************)
(* Properties.                                                             *)
(***************************************************************************)

\* No size has been cut to its low bits.
Faithful == \A i \in DOMAIN frames : frames[i].size < LengthModulus

\* What is buffered and on its way; and the byte that was written after a byte.
Pending == buffer \o wire

Width(i) == HeaderBytes + frames[i].size

After(byte) == IF byte[2] < Width(byte[1]) THEN << byte[1], byte[2] + 1 >>
                                           ELSE << byte[1] + 1, 1 >>

\* However the stream is cut, the frames decoded are the first ones encoded, in
\* order, each a message within the limit, and none follows one that is not.
\* Until the reader fails, what is buffered and on its way begins with the first
\* frame that is not decoded and goes on byte for byte as it was written, to the
\* last byte written as long as the connection does not break. All this as long
\* as no payload outgrew its length field (codec.rs:26, 38, 49-76).
DecodedArePrefix ==
  Faithful =>
    /\ \A i \in DOMAIN decoded :
         /\ decoded[i] = i
         /\ i \in DOMAIN frames
         /\ frames[i].valid /\ frames[i].size <= MaxFrameBytes
    /\ reader = "reading" =>
         /\ Pending # << >> => Pending[1] = << Len(decoded) + 1, 1 >>
         /\ \A j \in 1..(Len(Pending) - 1) : Pending[j + 1] = After(Pending[j])
         /\ writer = "open" =>
              IF Pending = << >> THEN Len(decoded) = Len(frames)
              ELSE Pending[Len(Pending)] = << Len(frames), Width(Len(frames)) >>

\* A length within the limit is all the decoder waits for: the buffer never
\* holds more than one frame and one read (codec.rs:13-15, 58-68).
BufferBounded == Len(buffer) < HeaderBytes + MaxFrameBytes + ReadCapacity

\* The reading task of a stream that is closed comes to its end, so that its
\* owner cleans up; and what is encoded is decoded, or the reader fails, or ends
\* because the tail was lost (codec.rs:49-76, connection.rs:105-120).
ReaderProgresses ==
  /\ writer = "closed" ~> reader # "reading"
  /\ \A i \in 1..MaxFrames :
       i \in DOMAIN frames ~> i <= Len(decoded) \/ reader # "reading"

=============================================================================
