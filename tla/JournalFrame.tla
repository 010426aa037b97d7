---------------------------- MODULE JournalFrame ----------------------------
(* The frame envelope of the journal and its chunk container                  *)
(* (journal_frame.rs).  A header is [kind, at, run, totals], the last two     *)
(* optional.  A result is [ok |-> TRUE, ...] or an error                      *)
(* [ok |-> FALSE, why].                                                       *)
EXTENDS Bytes

CONSTANTS Sentinel, Magic,     \* PAYLOAD_CONTAINER_SENTINEL, _MAGIC
          MaxContainerChunks,  \* MAX_CONTAINER_CHUNKS
          Headers, Bodies,     \* what is written: headers, sequences of chunks
          MaxDamage

VARIABLES frame, wire, damage

frameVars == <<frame, wire, damage>>

FrameOk(r) == [ok |-> TRUE] @@ r

FrameErr(why) == [ok |-> FALSE, why |-> why]

-----------------------------------------------------------------------------
(* The chunk container. *)
ContainerV1 == 1

ContainerHeaderLen == 1 + Len(Magic) + 1 + LenBytes

(* The first reason not to encode, or none. *)
PayloadContainerLen(chunks) ==
  LET bad == {i \in DOMAIN chunks : Len(chunks[i]) = 0 \/ Len(chunks[i]) >= ByteBase ^ LenBytes}
  IN CASE chunks = <<>> -> FrameErr("Empty")
       [] Len(chunks) > MaxContainerChunks -> FrameErr("TooManyChunks")
       [] bad # {} -> FrameErr(IF Len(chunks[Min(bad)]) = 0 THEN "EmptyChunk" ELSE "ChunkTooLarge")
       [] OTHER -> FrameOk([len |-> FoldLeft(LAMBDA n, c : n + LenBytes + Len(c),
                                             ContainerHeaderLen, chunks)])

EncodePayloadChunks(chunks) ==
  <<Sentinel>> \o Magic \o <<ContainerV1>> \o LeBytes(Len(chunks), LenBytes)
  \o FlattenSeq([i \in DOMAIN chunks |-> LeBytes(Len(chunks[i]), LenBytes) \o chunks[i]])

\* Mutant: what follows the last chunk is ignored.
RECURSIVE ReadChunksLax(_, _, _)
ReadChunksLax(chunks, rest, count) ==
  LET len == FromLe(SubSeq(rest, 1, LenBytes))
      tail == SkipBytes(rest, LenBytes)
  IN IF count = 0 THEN FrameOk([chunks |-> chunks])
     ELSE IF Len(rest) < LenBytes THEN FrameErr("Truncated")
     ELSE IF len = 0 THEN FrameErr("EmptyChunk")
     ELSE IF len > Len(tail) THEN FrameErr("Truncated")
     ELSE ReadChunksLax(Append(chunks, SubSeq(tail, 1, len)), SkipBytes(tail, len), count - 1)

(* The chunks of rest, of which count remain to be read. *)
RECURSIVE ReadChunks(_, _, _)
ReadChunks(chunks, rest, count) ==
  LET len == FromLe(SubSeq(rest, 1, LenBytes))
      tail == SkipBytes(rest, LenBytes)
  IN IF count = 0
     THEN IF rest = <<>> THEN FrameOk([chunks |-> chunks]) ELSE FrameErr("TrailingBytes")
     ELSE IF Len(rest) < LenBytes THEN FrameErr("Truncated")
     ELSE IF len = 0 THEN FrameErr("EmptyChunk")
     ELSE IF len > Len(tail) THEN FrameErr("Truncated")
     ELSE ReadChunks(Append(chunks, SubSeq(tail, 1, len)), SkipBytes(tail, len), count - 1)

(* The container is required: no other payload is taken for a chunk. *)
DecodePayloadChunks(payload) ==
  LET versionAt == Len(Magic) + 2
      count == FromLe(SubSeq(payload, versionAt + 1, ContainerHeaderLen))
      rest == SkipBytes(payload, ContainerHeaderLen)
  IN IF payload = <<>> \/ Head(payload) # Sentinel THEN FrameErr("MissingSentinel")
     ELSE IF Len(payload) < ContainerHeaderLen THEN FrameErr("Truncated")
     ELSE IF SubSeq(payload, 2, versionAt - 1) # Magic THEN FrameErr("InvalidMagic")
     ELSE IF payload[versionAt] # ContainerV1 THEN FrameErr("UnknownVersion")
     ELSE IF count = 0 THEN FrameErr("Empty")
     ELSE IF count > MaxContainerChunks THEN FrameErr("TooManyChunks")
     ELSE IF count > Len(rest) \div LenBytes THEN FrameErr("Truncated")
     ELSE ReadChunks(<<>>, rest, count)

-----------------------------------------------------------------------------
(* The header. *)
FormatV1 == 1

FormatV2 == 2

FrameKinds == <<"Rows", "Ddl", "Empty">>

KindByte(kind) == (CHOOSE i \in DOMAIN FrameKinds : FrameKinds[i] = kind) - 1

EmptyHeader == [kind |-> "Empty", at |-> 0, run |-> None, totals |-> None]

(* The flags: bit 0 for the run identity, bit 1 for the totals. *)
EncodeHeader(h, version) ==
  <<version, KindByte(h.kind), Len(h.run) + 2 * Len(h.totals)>>
  \o LeBytes(h.at, WordBytes)
  \o FlattenSeq([i \in DOMAIN h.run |-> <<Len(h.run[i])>> \o h.run[i]])
  \o FlattenSeq([i \in DOMAIN h.totals |->
       LeBytes(h.totals[i].rows, WordBytes) \o LeBytes(h.totals[i].cum, WordBytes)])

RunIdTooLong(h) == \E i \in DOMAIN h.run : Len(h.run[i]) >= ByteBase

(* The legacy frame, of one opaque payload. *)
EncodeV1(h, payload) ==
  CASE h.kind = "Empty" /\ payload # <<>> -> FrameErr("EmptyFrameWithPayload")
    [] RunIdTooLong(h) -> FrameErr("RunIdTooLong")
    [] OTHER -> FrameOk([bytes |-> EncodeHeader(h, FormatV1) \o payload])

EncodeFrame(h, chunks) ==
  LET len == PayloadContainerLen(chunks)
  IN CASE h.kind = "Empty" /\ chunks # <<>> -> FrameErr("EmptyFrameWithPayload")
       [] h.kind # "Empty" /\ ~len.ok -> len
       [] RunIdTooLong(h) -> FrameErr("RunIdTooLong")
       [] OTHER -> FrameOk([bytes |-> EncodeHeader(h, FormatV2)
                             \o IF h.kind = "Empty" THEN <<>> ELSE EncodePayloadChunks(chunks)])

(* The fields after the time, as the flags tell; what is left is the payload. *)
DecodeFields(kind, at, flags, rest) ==
  LET hasRun == flags % 2 = 1
      hasTotals == flags \div 2 = 1
      idLen == rest[1]
      run == IF hasRun THEN Some(SubSeq(rest, 2, idLen + 1)) ELSE None
      after == IF hasRun THEN SkipBytes(rest, idLen + 1) ELSE rest
      word(n) == FromLe(SubSeq(after, n * WordBytes + 1, (n + 1) * WordBytes))
      payload == IF hasTotals THEN SkipBytes(after, 2 * WordBytes) ELSE after
  IN IF hasRun /\ (rest = <<>> \/ Len(rest) <= idLen) THEN FrameErr("Truncated")
     ELSE IF hasRun /\ ~IsUtf8(The(run)) THEN FrameErr("RunIdNotUtf8")
     ELSE IF hasTotals /\ Len(after) < 2 * WordBytes THEN FrameErr("Truncated")
     ELSE IF kind = "Empty" /\ payload # <<>> THEN FrameErr("EmptyFrameWithPayload")
     ELSE FrameOk([header |-> [kind |-> kind, at |-> at, run |-> run,
                     totals |-> IF hasTotals THEN Some([rows |-> word(0), cum |-> word(1)]) ELSE None],
                   payload |-> payload])

(* A flag that this reader does not know is refused. *)
FlagsOf(byte) == IF byte < 4 THEN FrameOk([flags |-> byte]) ELSE FrameErr("UnknownFlags")

DecodeFrame(bytes) ==
  IF bytes = <<>> THEN FrameErr("Truncated")
  ELSE IF bytes[1] \notin {FormatV1, FormatV2} THEN FrameErr("UnknownFormat")
  ELSE IF Len(bytes) < 2 THEN FrameErr("Truncated")
  ELSE IF bytes[2] + 1 \notin DOMAIN FrameKinds THEN FrameErr("UnknownKind")
  ELSE IF Len(bytes) < 3 THEN FrameErr("Truncated")
  ELSE IF ~FlagsOf(bytes[3]).ok THEN FlagsOf(bytes[3])
  ELSE IF Len(bytes) < 3 + WordBytes THEN FrameErr("Truncated")
  ELSE DecodeFields(FrameKinds[bytes[2] + 1],
                    Signed(FromLe(SubSeq(bytes, 4, 3 + WordBytes)), WordBytes),
                    FlagsOf(bytes[3]).flags, SkipBytes(bytes, 3 + WordBytes))

(* The one decode of the consumers of chunks. *)
DecodeChunks(bytes) ==
  LET d == DecodeFrame(bytes)
      c == DecodePayloadChunks(d.payload)
      result(chunks) == FrameOk([header |-> d.header, chunks |-> chunks])
  IN IF ~d.ok THEN d
     ELSE IF d.header.kind = "Empty" THEN result(<<>>)
     ELSE IF bytes[1] = FormatV1 THEN result(<<d.payload>>)
     ELSE IF c.ok THEN result(c.chunks) ELSE c

-----------------------------------------------------------------------------
(* A frame is written once; afterwards its bytes may be cut, added to, or     *)
(* altered.  frame is what the writer was given, and whether it took it.      *)
FrameInit == frame = None /\ wire = <<>> /\ damage = {}

(* A legacy frame has the bytes of its chunks for its payload. *)
EncodeAs(version, h, chunks) ==
  IF version = FormatV1 THEN EncodeV1(h, FlattenSeq(chunks)) ELSE EncodeFrame(h, chunks)

WriteFrame(version, h, chunks) ==
  LET encoded == EncodeAs(version, h, chunks)
  IN /\ frame = None
     /\ frame' = Some([version |-> version, header |-> h, chunks |-> chunks, taken |-> encoded.ok])
     /\ wire' = IF encoded.ok THEN encoded.bytes ELSE <<>>
     /\ UNCHANGED damage

FrameTaken == IsSome(frame) /\ The(frame).taken

(* What may happen to the bytes between the writer and a reader. *)
Harm(kind) == FrameTaken /\ Cardinality(damage) < MaxDamage /\ damage' = damage \cup {kind} /\ UNCHANGED frame

CutWire(n) == n < Len(wire) /\ wire' = SubSeq(wire, 1, n) /\ Harm(<<"cut", n>>)

ExtendWire(b) == wire' = Append(wire, b) /\ Harm(<<"extend", Len(wire) + 1>>)

AlterWire(i, b) == b # wire[i] /\ wire' = [wire EXCEPT ![i] = b] /\ Harm(<<"alter", i>>)

FrameNext ==
  \/ \E v \in {FormatV1, FormatV2}, h \in Headers, chunks \in Bodies : WriteFrame(v, h, chunks)
  \/ \E n \in 0..Len(wire) : CutWire(n)
  \/ \E b \in 0..(ByteBase - 1) : ExtendWire(b) \/ \E i \in DOMAIN wire : AlterWire(i, b)

-----------------------------------------------------------------------------
(* What is read from an undamaged frame is what was written, and the writer   *)
(* refuses only what has no encoding: an empty entry with a payload, a run    *)
(* identity or a chunk past its length field, no chunk or an empty one        *)
(* (journal_frame.rs, encode_frame and decode_chunks).                        *)
FrameRoundTrip ==
  LET f == The(frame)
      v1 == f.version = FormatV1
      lens == {Len(f.chunks[i]) : i \in DOMAIN f.chunks}
      encodable ==
        /\ ~RunIdTooLong(f.header)
        /\ IF f.header.kind = "Empty" THEN f.chunks = <<>> \/ (v1 /\ lens = {0})
           ELSE v1 \/ (Len(f.chunks) \in 1..MaxContainerChunks /\ lens \subseteq 1..(ByteBase ^ LenBytes - 1))
      read == IF f.header.kind = "Empty" THEN <<>> ELSE IF v1 THEN <<FlattenSeq(f.chunks)>> ELSE f.chunks
  IN IsSome(frame) /\ damage = {} =>
       /\ f.taken <=> encodable
       /\ f.taken => DecodeChunks(wire) = FrameOk([header |-> f.header, chunks |-> read])

(* A frame of the current version that lost its end, or has bytes after it,   *)
(* or whose container header was altered, is refused and never read as        *)
(* something else (journal_frame.rs:54-57, "fails closed").                   *)
DamageCaught ==
  LET f == The(frame)
      from == Len(EncodeHeader(f.header, f.version))
      harmless(d) == d[1] = "alter" /\ d[2] \notin (from + 1)..(from + ContainerHeaderLen)
  IN Cardinality(damage) = 1 /\ f.version = FormatV2 /\ ~(\E d \in damage : harmless(d))
       => ~DecodeChunks(wire).ok

(* Whatever happened to the bytes, a reader that accepts them reads the frame *)
(* they encode: no two byte strings decode to the same frame of a version,    *)
(* and no unknown flag, kind or version is skipped (journal_frame.rs:363-365, *)
(* "never best-effort skips").                                                *)
AcceptedIsExact ==
  LET d == DecodeChunks(wire)
  IN d.ok => EncodeAs(wire[1], d.header, d.chunks) = FrameOk([bytes |-> wire])

(* A reader gets the frame that was written, or none.                         *)
FramesExact == FrameRoundTrip /\ DamageCaught /\ AcceptedIsExact
=============================================================================
