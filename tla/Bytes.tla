-------------------------------- MODULE Bytes --------------------------------
(* Bytes of the codecs: numbers 0..ByteBase-1.  A u32 takes LenBytes of them, *)
(* an i64, u64 or f64 WordBytes, least significant first.                     *)
EXTENDS Rows

CONSTANTS ByteBase, LenBytes, WordBytes,
          NotUtf8   \* bytes that no UTF-8 text has

LeBytes(v, width) == [i \in 1..width |-> (v \div ByteBase ^ (i - 1)) % ByteBase]

FromLe(bytes) == FoldLeft(LAMBDA a, i : a + bytes[i] * ByteBase ^ (i - 1), 0, [i \in DOMAIN bytes |-> i])

(* Two's complement. *)
Signed(v, width) == IF 2 * v < ByteBase ^ width THEN v ELSE v - ByteBase ^ width

SkipBytes(bytes, n) == SubSeq(bytes, n + 1, Len(bytes))

IsUtf8(bytes) == ToSet(bytes) \cap NotUtf8 = {}
=============================================================================
