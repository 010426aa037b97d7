----------------------------- MODULE CellValues -----------------------------
(* The typed cells that a number stands for in the other engine modules:      *)
(* their comparators (value.rs, predicate.rs), the keys operators store them  *)
(* under (op/partition.rs, op/join_util.rs), the flat buffer of a row         *)
(* (value.rs), the lowering of literals to predicates (builder.rs) and the    *)
(* LIKE matcher (predicate.rs).                                               *)
(* A cell is [t, v].  The v of an Int is a number below Int63 in size, of a   *)
(* Str or Json a sequence of bytes, of a Float [neg, mag]: the sign bit and   *)
(* the magnitude in halves, Inf and above it NaN at the top.                  *)
EXTENDS Rows

CONSTANTS
  Int63,       (* 2^63: Ints lie in -Int63 .. Int63 - 1                       *)
  FloatMags,   (* the finite magnitudes of Floats, in halves                  *)
  CellTexts,   (* the byte sequences of Str and Json cells                    *)
  LikePatterns, LikeTexts

VARIABLES
  probe,       (* the cells, or the pattern, looked at                        *)
  probeKind    (* "cells", "rows", "like", or "none" for no probe             *)

cellVars == <<probe, probeKind>>

Inf == 4 * Int63 + 2

NaN == Inf + 1

Cell(t, v) == [t |-> t, v |-> v]

FloatCell(neg, mag) == Cell("Float", [neg |-> neg, mag |-> mag])

Cells ==
  {Cell("Absent", 0), Cell("Null", 0)} \cup {Cell("Bool", b) : b \in 0..1}
  \cup {Cell("Int", i) : i \in (-Int63)..(Int63 - 1)}
  \cup {FloatCell(neg, mag) : neg \in BOOLEAN, mag \in FloatMags \cup {Inf, NaN}}
  \cup {Cell(t, s) : t \in {"Str", "Json"}, s \in CellTexts}

Texts == {c \in Cells : c.t \in {"Str", "Json"}}

-----------------------------------------------------------------------------
(* Comparators. *)

(* total_cmp: the order of the bits, read as sign and magnitude. *)
TotalCmp(f, g) ==
  LET bits(x) == IF x.neg THEN -1 - x.mag ELSE x.mag
  IN CompareValues(bits(f), bits(g))

(* The exact order of an Int and a Float, of which only the integral part is  *)
(* ever converted.                                                            *)
CompareIntF64(x, f) ==
  LET whole == IF f.neg THEN -(f.mag \div 2) ELSE f.mag \div 2
      fraction == f.mag % 2 # 0
  IN CASE f.mag = NaN -> IF f.neg THEN 1 ELSE -1
       [] f.mag # NaN /\ ~f.neg /\ f.mag >= 2 * Int63 -> -1
       [] f.mag # NaN /\ f.neg /\ f.mag > 2 * Int63 -> 1
       [] OTHER -> IF x # whole THEN CompareValues(x, whole)
                   ELSE IF fraction /\ ~f.neg THEN -1
                   ELSE IF (fraction /\ f.neg) \/ (x = 0 /\ f.neg) THEN 1
                   ELSE 0

(* Bytes in order, the shorter of two that agree first. *)
CompareBytes(s, u) ==
  LET differ == {i \in DOMAIN s \cap DOMAIN u : s[i] # u[i]}
      i == Min(differ)
  IN IF differ = {} THEN CompareValues(Len(s), Len(u)) ELSE CompareValues(s[i], u[i])

CompareSameType(a, b) ==
  CASE a.t \in {"Absent", "Null", "Bool", "Int"} -> CompareValues(a.v, b.v)
    [] a.t = "Float" -> TotalCmp(a.v, b.v)
    [] OTHER -> CompareBytes(a.v, b.v)

(* Absent, then Null, then values of one type; other pairs panic. *)
Comparable(a, b) ==
  \/ a.t = b.t
  \/ {a.t, b.t} \cap {"Absent", "Null"} # {}
  \/ {a.t, b.t} = {"Int", "Float"}

CompareNumbers(a, b) ==
  IF a.t = "Int" THEN CompareIntF64(a.v, b.v) ELSE -CompareIntF64(b.v, a.v)

CompareCells(a, b) ==
  LET low(c) == CASE c.t = "Absent" -> 0 [] c.t = "Null" -> 1 [] OTHER -> 2
  IN CASE low(a) < 2 \/ low(b) < 2 -> CompareValues(low(a), low(b))
       [] low(a) = 2 /\ low(b) = 2 /\ a.t = b.t -> CompareSameType(a, b)
       [] OTHER -> CompareNumbers(a, b)

(* Join equality. *)
CellsEqual(a, b) == {a.t, b.t} \cap {"Absent", "Null"} = {} /\ CompareCells(a, b) = 0

(* Predicate identity, total. *)
CellsIdentical(a, b) ==
  CASE a.t = b.t -> CompareSameType(a, b) = 0
    [] {a.t, b.t} = {"Int", "Float"} -> CompareNumbers(a, b) = 0
    [] OTHER -> FALSE

PredicateTypeRank(c) ==
  CASE c.t = "Absent" -> 0
    [] c.t = "Null" -> 1
    [] c.t = "Bool" -> 2
    [] c.t \in {"Int", "Float"} -> 3
    [] c.t = "Str" -> 4
    [] c.t = "Json" -> 5

(* The order of range predicates and of the push index: total. *)
ComparePredicateValues(a, b) ==
  IF Comparable(a, b) THEN CompareCells(a, b)
  ELSE CompareValues(PredicateTypeRank(a), PredicateTypeRank(b))

-----------------------------------------------------------------------------
(* Keys. *)

\* Mutant: minus zero is taken for the integer zero.
FloatIntClassSigned(f) ==
  IF f.mag \in {Inf, NaN} \/ f.mag % 2 # 0 \/ f.mag > 2 * Int63 \/ (~f.neg /\ f.mag = 2 * Int63)
  THEN None
  ELSE Some(IF f.neg THEN -(f.mag \div 2) ELSE f.mag \div 2)

(* The Int a Float equals exactly, if any; minus zero equals none. *)
FloatIntClass(f) ==
  IF f.mag \in {Inf, NaN} \/ f.mag % 2 # 0 THEN None
  ELSE IF f.mag = 0 THEN (IF f.neg THEN None ELSE Some(0))
  ELSE IF f.mag > 2 * Int63 \/ (~f.neg /\ f.mag = 2 * Int63) THEN None
  ELSE Some(IF f.neg THEN -(f.mag \div 2) ELSE f.mag \div 2)

(* The key of a hash map: a Float that equals an Int has the Int's. *)
CanonVal(c) ==
  IF c.t = "Float" /\ IsSome(FloatIntClass(c.v)) THEN Cell("Int", The(FloatIntClass(c.v))) ELSE c

CanonicalKey(row, key) == [i \in DOMAIN key |-> CanonVal(row[key[i]])]

CanonicalKeyOfConstraint(c) == [i \in DOMAIN c |-> CanonVal(c[i][2])]

(* The tokens a cell adds to a state key; sep, the tags and the lengths may   *)
(* also occur as bytes of a text.                                             *)
KeySep == 0

EncodeValue(c) ==
  LET k == CanonVal(c)
      tag == CASE c.t = "Absent" -> 1 [] c.t = "Null" -> 2 [] c.t = "Bool" -> 3
               [] k.t = "Int" -> 4 [] k.t = "Float" -> 5 [] c.t = "Str" -> 6 [] c.t = "Json" -> 7
  IN CASE k.t \in {"Absent", "Null"} -> <<tag>>
       [] k.t \in {"Bool", "Int"} -> <<tag, k.v>>
       [] k.t = "Float" -> <<tag, IF k.v.neg THEN 1 ELSE 0, k.v.mag>>
       [] OTHER -> <<tag, Len(k.v)>> \o k.v

EncodeStateKey(values) == FlattenSeq([i \in DOMAIN values |-> <<KeySep>> \o EncodeValue(values[i])])

PartitionKeyUnchanged(old, new, key) ==
  \A i \in DOMAIN key : CompareCells(old[key[i]], new[key[i]]) = 0

-----------------------------------------------------------------------------
(* The flat row: a directory of tagged payloads, then the texts; a text's     *)
(* payload is its place in the whole buffer.                                  *)
RowHdr == 4

CellStride == 9

DirEnd(n) == RowHdr + n * CellStride

IsText(c) == c.t \in {"Str", "Json"}

PushCell(w, c) ==
  IF IsText(c)
  THEN [w EXCEPT !.dir = Append(@, <<c.t, <<DirEnd(w.n) + Len(w.text), Len(c.v)>> >>), !.text = @ \o c.v]
  ELSE [w EXCEPT !.dir = Append(@, <<c.t, c.v>>)]

FromOwnedCells(cells) == FoldLeft(PushCell, [n |-> Len(cells), dir |-> <<>>, text |-> <<>>], cells)

(* A byte that is no UTF-8. *)
BadByte == 255

(* From a borrowed row: every text is validated before anything is written. *)
TryFromRowRef(cells) ==
  IF \E i \in DOMAIN cells : IsText(cells[i]) /\ BadByte \in ToSet(cells[i].v) THEN None
  ELSE Some(FromOwnedCells(cells))

DecodeCell(row, raw) ==
  LET at == raw[2][1] - DirEnd(row.n)
  IN IF raw[1] \in {"Str", "Json"} THEN Cell(raw[1], SubSeq(row.text, at + 1, at + raw[2][2]))
     ELSE Cell(raw[1], raw[2])

(* Reading past the last cell panics (col) or finds nothing (get). *)
GetCell(row, c) == IF c > row.n THEN None ELSE Some(DecodeCell(row, row.dir[c]))

CompareCell(a, b, c) ==
  LET ra == a.dir[c]
      rb == b.dir[c]
  IN CASE ra[1] = rb[1] /\ ra[1] = "Int" -> CompareValues(ra[2], rb[2])
       [] ra[1] = rb[1] /\ ra[1] = "Float" -> TotalCmp(ra[2], rb[2])
       [] OTHER -> CompareCells(DecodeCell(a, ra), DecodeCell(b, rb))

-----------------------------------------------------------------------------
(* Literals: a Number is a Float in the query, an Int once lowered if it can. *)
NumberToOwned(f) ==
  IF /\ f.mag \notin {Inf, NaN} /\ f.mag % 2 = 0
     /\ f.mag < 2 * Int63 \/ (f.neg /\ f.mag = 2 * Int63)
  THEN Cell("Int", IF f.neg THEN -(f.mag \div 2) ELSE f.mag \div 2)
  ELSE Cell("Float", f)

SameClass(a, b) == a.t = b.t /\ a.t \notin {"Absent", "Null"}

(* Whether a comparison of two literals may be folded. *)
GuardOrderingConst(op, a, b) == op \in {"Lt", "Le", "Gt", "Ge"} => SameClass(a, b)

(* IN: linear search with predicate identity. *)
SetContains(values, c) == \E i \in DOMAIN values : CellsIdentical(values[i], c)

-----------------------------------------------------------------------------
(* LIKE.  A compiled pattern is a sequence of tokens: <<"Lit", run>>, a run   *)
(* of bytes, <<"One">> and <<"Any">>.                                         *)
OneByte == <<"One">>

AnyRun == <<"Any">>

PushLit(toks, bytes) ==
  IF toks # <<>> /\ Last(toks)[1] = "Lit"
  THEN Append(Front(toks), <<"Lit", Last(toks)[2] \o bytes>>)
  ELSE Append(toks, <<"Lit", bytes>>)

(* An escaped wildcard is a literal; a backslash before anything else, or at  *)
(* the end, is one too.  Adjacent Anys collapse.                              *)
RECURSIVE CompileFrom(_, _)
CompileFrom(p, toks) ==
  LET rest(n) == SubSeq(p, n + 1, Len(p))
  IN IF p = <<>> THEN toks
     ELSE CASE p[1] = "\\" /\ Len(p) = 1 -> PushLit(toks, p)
            [] p[1] = "\\" /\ Len(p) > 1 ->
                 CompileFrom(rest(2), PushLit(toks, IF p[2] \in {"%", "_", "\\"} THEN <<p[2]>>
                                                    ELSE <<p[1], p[2]>>))
            [] p[1] = "%" -> CompileFrom(rest(1), IF toks # <<>> /\ Last(toks) = AnyRun THEN toks
                                                  ELSE Append(toks, AnyRun))
            [] p[1] = "_" -> CompileFrom(rest(1), Append(toks, OneByte))
            [] OTHER -> CompileFrom(rest(1), PushLit(toks, <<p[1]>>))

CompileLike(pattern) == CompileFrom(pattern, <<>>)

LowerAscii(b) == CASE b = "A" -> "a" [] b = "B" -> "b" [] OTHER -> b

SameBytes(s, u, fold) ==
  IF fold THEN [i \in DOMAIN s |-> LowerAscii(s[i])] = [i \in DOMAIN u |-> LowerAscii(u[i])] ELSE s = u

\* Mutant: a run may not end the text.
LitMatchesInside(text, from, run, fold) ==
  /\ from + Len(run) < Len(text)
  /\ SameBytes(SubSeq(text, from + 1, from + Len(run)), run, fold)

LitMatches(text, from, run, fold) ==
  /\ from + Len(run) <= Len(text)
  /\ SameBytes(SubSeq(text, from + 1, from + Len(run)), run, fold)

(* ti tokens and si bytes are done; star is where the last Any was met.  A    *)
(* mismatch lets that Any take one byte more.                                 *)
RECURSIVE LikeFrom(_, _, _, _, _, _)

LikeRetry(toks, text, fold, star) ==
  /\ IsSome(star)
  /\ The(star)[2] + 1 <= Len(text)
  /\ LikeFrom(toks, text, fold, The(star)[1], The(star)[2] + 1, Some(<<The(star)[1], The(star)[2] + 1>>))

LikeFrom(toks, text, fold, ti, si, star) ==
  LET tok == toks[ti + 1]
      retry == LikeRetry(toks, text, fold, star)
  IN CASE ti = Len(toks) -> si = Len(text) \/ retry
       [] ti < Len(toks) /\ tok = AnyRun -> LikeFrom(toks, text, fold, ti + 1, si, Some(<<ti + 1, si>>))
       [] ti < Len(toks) /\ tok = OneByte ->
            IF si < Len(text) THEN LikeFrom(toks, text, fold, ti + 1, si + 1, star) ELSE retry
       [] OTHER -> IF LitMatches(text, si, tok[2], fold)
                   THEN LikeFrom(toks, text, fold, ti + 1, si + Len(tok[2]), star) ELSE retry

LikeMatches(pattern, text, fold) == LikeFrom(CompileLike(pattern), text, fold, 0, 0, None)

-----------------------------------------------------------------------------
(* A probe is a pattern, or a cell and then the cells it is looked at with. *)
CellInit(kinds) ==
  /\ probeKind \in kinds
  /\ \/ probeKind = "none" /\ probe = <<>>
     \/ probeKind = "cells" /\ probe \in {<<a>> : a \in Cells}
     \/ probeKind = "rows" /\ probe \in {<<a>> : a \in Texts}
     \/ probeKind = "like" /\ probe \in LikePatterns

CellNext ==
  /\ probeKind # "like" /\ Len(probe) = 1
  /\ \/ probeKind = "cells" /\ \E b \in Cells : probe' = Append(probe, b)
     \/ probeKind = "rows" /\ \E b \in Cells, c \in Texts : probe' = probe \o <<b, c>>
  /\ UNCHANGED probeKind

-----------------------------------------------------------------------------
(* Properties. *)

(* The order of cells is total over every type: antisymmetric, transitive     *)
(* even where Ints and Floats mix above the Floats' precision, and its        *)
(* equality is predicate identity (compare_int_f64, values_identical,         *)
(* compare_predicate_values).                                                 *)
OrderLaws ==
  probeKind = "cells" /\ Len(probe) = 2 =>
    LET a == probe[1]
        b == probe[2]
        cmp(x, y) == ComparePredicateValues(x, y)
    IN /\ cmp(a, b) = -cmp(b, a)
       /\ (cmp(a, b) = 0) = CellsIdentical(a, b)
       /\ cmp(a, b) <= 0 => \A c \in Cells : cmp(b, c) <= 0 => cmp(a, c) <= 0

(* The keys under which joins group rows and limiters store state are equal   *)
(* exactly when the cells are: what the comparator calls one partition is one *)
(* slot, and no two tuples share a slot whatever bytes their texts hold       *)
(* (float_int_class, CanonVal, encode_state_key).  A number literal denotes   *)
(* its own value, minus zero aside (number_to_owned).                         *)
KeysAgree ==
  probeKind = "cells" /\ Len(probe) = 2 =>
    LET a == probe[1]
        b == probe[2]
    IN /\ (CanonVal(a) = CanonVal(b)) = CellsIdentical(a, b)
       /\ \A c, d \in Texts :
            /\ (EncodeStateKey(<<a, c>>) = EncodeStateKey(<<b, d>>)) = (CellsIdentical(a, b) /\ c = d)
            /\ (EncodeStateKey(<<c, a>>) = EncodeStateKey(<<d, b>>)) = (CellsIdentical(a, b) /\ c = d)
       /\ a.t = "Float" => CellsIdentical(a, NumberToOwned(a.v)) \/ a = FloatCell(TRUE, 0)

(* A flat row gives back the cells it was made from, wherever its texts lie,  *)
(* and its raw comparison is the comparison of the cells (RowWriter,          *)
(* decode_cell, compare_cell).                                                *)
RowsFaithful ==
  probeKind = "rows" /\ Len(probe) = 3 =>
    LET row == FromOwnedCells(probe)
    IN /\ \A i \in 1..3 : GetCell(row, i) = Some(probe[i])
       /\ GetCell(row, 4) = None
       /\ \A c \in Cells :
            Comparable(probe[2], c) =>
              CompareCell(row, FromOwnedCells(<<probe[3], c>>), 2) = CompareCells(probe[2], c)

(* LIKE by its definition: a % stands for any bytes, a _ for one, a backslash *)
(* takes the meaning from a wildcard or a backslash after it.                 *)
RECURSIVE LikeMeaning(_, _, _)
LikeMeaning(p, text, fold) ==
  LET escape == Len(p) > 1 /\ p[1] = "\\" /\ p[2] \in {"%", "_", "\\"}
      rest(s, n) == SubSeq(s, n + 1, Len(s))
      eat(b, n) == text # <<>> /\ SameBytes(<<text[1]>>, <<b>>, fold) /\ LikeMeaning(rest(p, n), rest(text, 1), fold)
  IN CASE p = <<>> -> text = <<>>
       [] p # <<>> /\ p[1] = "%" -> \E n \in 0..Len(text) : LikeMeaning(rest(p, 1), rest(text, n), fold)
       [] p # <<>> /\ p[1] = "_" -> text # <<>> /\ LikeMeaning(rest(p, 1), rest(text, 1), fold)
       [] escape -> eat(p[2], 2)
       [] OTHER -> eat(p[1], 1)

(* The compiled matcher, which remembers only its last %, accepts exactly     *)
(* what LIKE means (LikeMatcher::matches).                                    *)
LikeExact ==
  probeKind = "like" =>
    \A text \in LikeTexts, fold \in BOOLEAN :
      LikeMatches(probe, text, fold) = LikeMeaning(probe, text, fold)

(* The representations of a cell agree on which cells are equal and which is  *)
(* the smaller: the order, the keys, and the bytes of a row.                  *)
CellsAgree == OrderLaws /\ KeysAgree /\ RowsFaithful
=============================================================================
