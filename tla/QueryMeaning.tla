---------------------------- MODULE QueryMeaning ----------------------------
(* What a query asks for, said of the rows of the tables alone: no operator,  *)
(* no state, no order of events.  The result has the shape of a materialised  *)
(* view, so that what the engine maintains can be compared with it.  db maps  *)
(* each table to its set of rows.                                             *)
EXTENDS QueryAst, ReduceOp

(* A comparison with Null or with a missing cell does not hold; IS is         *)
(* identity.                                                                  *)
Compares(op, v, w) ==
  CASE op = "Eq" -> v = w
    [] op = "Ne" -> v # w
    [] op = "Lt" -> v < w
    [] op = "Le" -> v <= w
    [] op = "Gt" -> v > w
    [] op = "Ge" -> v >= w

SimpleHolds(c, row) ==
  LET v == IF c.left[1] = "col" THEN row[c.left[2]] ELSE LitValue(c.left)
  IN CASE c.op = "Is" -> v = LitValue(c.right)
       [] c.op = "IsNot" -> v # LitValue(c.right)
       [] c.op = "In" -> v \notin {Null, Absent} /\ v \in c.right[2]
       [] c.op = "NotIn" -> v \notin {Null, Absent} /\ v \notin c.right[2]
       [] OTHER -> v \notin {Null, Absent} /\ c.right[1] # "null" /\ Compares(c.op, v, c.right[2])

Joined(rel, parent, row) ==
  \A i \in DOMAIN rel.pf : parent[rel.pf[i]] # Null /\ parent[rel.pf[i]] = row[rel.cf[i]]

RECURSIVE Holds(_, _, _), Selected(_, _)

(* The rows of a subquery that belong to a parent. *)
KidsOf(db, rel, parent) == {r \in Selected(db, rel.sub) : Joined(rel, parent, r)}

(* A gate asks whether there is a child, or whether their number is as asked. *)
GateHolds(db, csq, row) ==
  LET kids == KidsOf(db, csq.rel, row)
      counted == Project(row, csq.rel.pf) \o <<Cardinality(kids)>>
      there == /\ kids # {}
               /\ csq.rel.sub.limit # Some(0)
               /\ csq.rel.sub.having = None \/ Holds(db, The(csq.rel.sub.having), counted)
  IN there # csq.not

Holds(db, cond, row) ==
  CASE cond.k = "simple" -> SimpleHolds(cond, row)
    [] cond.k = "and" -> \A i \in DOMAIN cond.conds : Holds(db, cond.conds[i], row)
    [] cond.k = "or" -> \E i \in DOMAIN cond.conds : Holds(db, cond.conds[i], row)
    [] cond.k = "csq" -> GateHolds(db, cond, row)

(* The columns a projected query reads anywhere. *)
ReadCols(ast, pk) ==
  RequiredCols(ast, ResolveSort(ast.order, pk),
               ComputeSplitEditKeys(None, ast.related, GatherCsqConditions(ast.where)))

(* The rows a query selects before order, limit and relationships.  A start   *)
(* bound is a place in the order of the query.                                *)
Selected(db, ast) ==
  {r \in db[ast.table].rows :
     /\ ast.where = None \/ Holds(db, The(ast.where), r)
     /\ ast.select = None \/ \A c \in ReadCols(ast, db[ast.table].pk) : r[c] # Absent
     /\ ast.start = None \/
          LET b == The(ast.start)
              given(c) == {i \in DOMAIN b.row : b.row[i][1] = c}
              bound == [c \in DOMAIN r |-> IF given(c) = {} THEN Null
                                           ELSE b.row[CHOOSE i \in given(c) : TRUE][2]]
              ord == CompareRows(ResolveSort(ast.order, db[ast.table].pk), r, bound)
          IN ord > 0 \/ (ord = 0 /\ ~b.exclusive)}

InOrder(db, ast, rows) ==
  LET s == SortedRows(rows, ResolveSort(ast.order, db[ast.table].pk))
  IN IF IsSome(ast.limit) THEN FirstN(s, The(ast.limit)) ELSE s

(* One aggregate over a sequence of rows. *)
AggregateOf(agg, rows) ==
  LET vs == SelectSeq([i \in DOMAIN rows |-> IF agg[1] = "Count" THEN 0 ELSE rows[i][agg[2]]],
                      LAMBDA v : v # Null)
      total == FoldLeft(+, 0, vs)
  IN CASE agg[1] = "Count" -> Len(rows)
       [] agg[1] = "Sum" -> IF vs = <<>> \/ total > SumMax THEN Null ELSE total
       [] agg[1] = "Avg" -> IF vs = <<>> THEN Null ELSE (total * AvgUnit) \div Len(vs)

EntryOf(row, rels) == [row |-> row, rc |-> 1, rels |-> rels]

(* The groups of an aggregate query; without grouping there is always one. *)
AggregateAnswer(db, ast) ==
  LET rows == Selected(db, ast)
      keys == IF ast.groupBy = <<>> THEN {<<>>} ELSE {Project(r, ast.groupBy) : r \in rows}
      members(k) == SetToSeq({r \in rows : Project(r, ast.groupBy) = k})
      out == {k \o <<AggregateOf(The(ast.agg), members(k))>> : k \in keys}
      kept == {r \in out : ast.having = None \/ Holds(db, The(ast.having), r)}
      sorted == SortedRows(kept, [i \in DOMAIN ast.groupBy |-> <<i, TRUE>>])
  IN [i \in DOMAIN sorted |-> EntryOf(sorted[i], <<>>)]

RECURSIVE TreeOf(_, _, _)

(* The children of a row in a relationship, or their aggregate when there is  *)
(* something to aggregate.                                                    *)
RelationshipOf(db, rel, parent) ==
  LET rows == KidsOf(db, rel, parent)
      kids == InOrder(db, rel.sub, rows)
      key == Project(parent, rel.pf)
  IN IF rel.sub.agg = None THEN TreeOf(db, rel.sub, rows)
     ELSE IF kids = <<>> THEN <<>>
     ELSE <<EntryOf(key \o <<AggregateOf(The(rel.sub.agg), kids)>>, <<>>)>>

(* Selected rows as a tree: ordered, cut, projected, with their               *)
(* relationships in the slots the view has for them.                          *)
TreeOf(db, raw, rows) ==
  LET ast == NormalizePipelineAst(raw)
      slots == QueryLocalSlotNames(ast)
      inSlot(s) == {i \in DOMAIN ast.related : ast.related[i].sub.alias = Some(slots[s])}
      shown == Range(db[ast.table].pk)
               \cup {ResolveSort(ast.order, db[ast.table].pk)[i][1] :
                       i \in DOMAIN ResolveSort(ast.order, db[ast.table].pk)}
      cells(r) == IF ast.select = None THEN r
                  ELSE [c \in DOMAIN r |-> IF c \in shown \cup Range(The(ast.select))
                                           THEN r[c] ELSE Absent]
      rel(r, s) == IF inSlot(s) = {} THEN <<>>
                   ELSE RelationshipOf(db, ast.related[Max(inSlot(s))], r)
      seq == InOrder(db, ast, rows)
  IN [i \in DOMAIN seq |-> EntryOf(cells(seq[i]), [s \in DOMAIN slots |-> rel(seq[i], s)])]

Answer(db, ast) == IF IsSome(ast.agg) THEN AggregateAnswer(db, ast)
                   ELSE TreeOf(db, ast, Selected(db, ast))
=============================================================================
