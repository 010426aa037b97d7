-------------------------------- MODULE Rows --------------------------------
(* Rows, sort orders, constraints and fetch requests of the Rust engine.  A  *)
(* row is a tuple of cells.  A cell is a number or Null, which sorts first:   *)
(* the typed comparison of cells is the subject of module CellValues.  An     *)
(* optional value is a sequence of length zero or one.                        *)
EXTENDS Integers, Sequences, FiniteSets, SequencesExt

Null == -1

(* A cell that a partial row does not have: below Null, equal to nothing. *)
Absent == -2

None == <<>>

Some(x) == <<x>>

IsSome(o) == o # None

The(o) == o[1]

OrElse(o, p) == IF IsSome(o) THEN o ELSE p

(* F(x), with x computed before F begins: a long chain of steps is then not   *)
(* evaluated from its end.                                                    *)
Given(x, F(_)) == CHOOSE y \in {F(v) : v \in {x}} : TRUE

(* Keeps the optional value when it passes the test. *)
FilterOption(o, Test(_)) == SelectSeq(o, Test)

(* The longest prefix whose elements all pass. *)
TakeWhile(s, Test(_)) ==
  LET bad == {i \in DOMAIN s : ~Test(s[i])}
  IN IF bad = {} THEN s ELSE SubSeq(s, 1, Min(bad) - 1)

(* The consecutive pieces of at most size elements. *)
Chunks(s, size) ==
  [i \in 1..((Len(s) + size - 1) \div size) |->
     SubSeq(s, (i - 1) * size + 1, IF i * size < Len(s) THEN i * size ELSE Len(s))]

FirstN(s, n) == SubSeq(s, 1, IF n < Len(s) THEN n ELSE Len(s))

CompareValues(a, b) == IF a < b THEN -1 ELSE IF a > b THEN 1 ELSE 0

(* Join equality: Null equals nothing. *)
ValuesEqual(a, b) == a \notin {Null, Absent} /\ a = b

(* Predicate identity: Null is identical to Null. *)
ValuesIdentical(a, b) == a = b

(* A sort is a sequence of pairs <<column, ascending>>. *)
ApplyDir(asc, ord) == IF asc THEN ord ELSE -ord

CompareRows(sort, a, b) ==
  LET cell(i) == ApplyDir(sort[i][2], CompareValues(a[sort[i][1]], b[sort[i][1]]))
      differ == {i \in DOMAIN sort : cell(i) # 0}
  IN IF differ = {} THEN 0 ELSE cell(Min(differ))

CompareRowsRev(sort, reverse, a, b) ==
  IF reverse THEN CompareRows(sort, b, a) ELSE CompareRows(sort, a, b)

SamePk(pk, a, b) == \A i \in DOMAIN pk : ValuesIdentical(a[pk[i]], b[pk[i]])

(* A set of rows in the order of a sort that tells them all apart. *)
SortedRows(rows, sort) ==
  LET before(r) == Cardinality({x \in rows : CompareRows(sort, x, r) < 0})
  IN [i \in 1..Cardinality(rows) |-> CHOOSE r \in rows : before(r) = i - 1]

(* A key is a sequence of columns. *)
Project(row, key) == [i \in DOMAIN key |-> row[key[i]]]

(* A constraint is a sequence of pairs <<column, value>>. *)
ConstraintCols(c) == {c[i][1] : i \in DOMAIN c}

ConstraintValue(c, col) ==
  c[CHOOSE i \in DOMAIN c : c[i][1] = col][2]

ConstraintMatches(row, c) == \A i \in DOMAIN c : ValuesEqual(row[c[i][1]], c[i][2])

ConstraintMatchesPrimaryKey(c, pk) ==
  /\ Len(c) = Len(pk)
  /\ \A i \in DOMAIN pk : pk[i] \in ConstraintCols(c)

ConstraintsAreCompatible(a, b) ==
  \A i \in DOMAIN a, j \in DOMAIN b :
    a[i][1] = b[j][1] => ValuesEqual(a[i][2], b[j][2])

(* The extra constraint overrides the base in place, then adds its own columns. *)
MergeConstraints(base, extra) ==
  [i \in DOMAIN base |->
     IF base[i][1] \in ConstraintCols(extra)
     THEN <<base[i][1], ConstraintValue(extra, base[i][1])>>
     ELSE base[i]]
  \o SelectSeq(extra, LAMBDA e : e[1] \notin ConstraintCols(base))

(* None when a value of the from key is Null: such a row joins nothing. *)
BuildJoinConstraint(row, fromKey, toKey) ==
  IF \E i \in DOMAIN fromKey : row[fromKey[i]] = Null
  THEN None
  ELSE Some([i \in DOMAIN fromKey |-> <<toKey[i], row[fromKey[i]]>>])

(* A fetch request: the constraint is optional, start is an optional record   *)
(* [row, at] where at says whether the start row itself belongs to the range. *)
FetchRequest(constraint, start, reverse) ==
  [c |-> constraint, multi |-> <<>>, start |-> start, rev |-> reverse]

FetchAll == FetchRequest(None, None, FALSE)

WithConstraint(c) == FetchRequest(Some(c), None, FALSE)

HasMulti(req) == \E i \in DOMAIN req.multi : req.multi[i] # <<>>

Start(row, at) == Some([row |-> row, at |-> at])

(* Source changes.  Edit carries the new row and the old one. *)
SrcAdd(row) == [t |-> "Add", row |-> row]

SrcRemove(row) == [t |-> "Remove", row |-> row]

SrcEdit(row, old) == [t |-> "Edit", row |-> row, old |-> old]
=============================================================================
