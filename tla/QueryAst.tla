------------------------------ MODULE QueryAst ------------------------------
(* Queries (ast.rs) and the passes the builder runs over them before it       *)
(* lowers them (builder.rs).  Columns are named by their position; an unknown *)
(* name is a position past the width of the table.  A condition is            *)
(*   [k |-> "simple", left, op, right]   left and right value positions       *)
(*   [k |-> "and" or "or", conds]                                             *)
(*   [k |-> "csq", rel, not, flip]       a correlated subquery                *)
(* and a correlation is [sub, pf, cf, perm]: the subquery, the parent and the *)
(* child fields, and whether the permission system asks for it.  A position   *)
(* is <<"col", c>>, <<"lit", v>>, <<"null">> or <<"list", values>>.  An alias *)
(* is a sequence: making it unique appends a number.                          *)
EXTENDS Changes

(* The row bounds of EXISTS children. *)
ExistsLimit == 3

PermissionsExistsLimit == 1

(* A query of a whole table; the other fields are set with EXCEPT. *)
Ast(t) ==
  [table |-> t, alias |-> None, where |-> None, related |-> <<>>, order |-> <<>>,
   start |-> None, limit |-> None, select |-> None, one |-> FALSE, agg |-> None,
   pre |-> FALSE, groupBy |-> <<>>, having |-> None]

Simple(left, op, right) == [k |-> "simple", left |-> left, op |-> op, right |-> right]

AndOf(conds) == [k |-> "and", conds |-> conds]

OrOf(conds) == [k |-> "or", conds |-> conds]

Correlated(sub, pf, cf) == [sub |-> sub, pf |-> pf, cf |-> cf, perm |-> FALSE]

ExistsCond(rel, not, flip) == [k |-> "csq", rel |-> rel, not |-> not, flip |-> flip]

IsJunction(c) == c.k \in {"and", "or"}

-----------------------------------------------------------------------------
(* Flattening.  The conditions of a child of the same kind are spliced in one *)
(* level deep; what flattens to nothing is dropped and a single condition     *)
(* stands for the junction.                                                   *)
RECURSIVE FlattenCondition(_)
FlattenCondition(cond) ==
  IF ~IsJunction(cond) THEN Some(cond)
  ELSE LET parts(c) == IF c.k = cond.k
                       THEN FlattenSeq([i \in DOMAIN c.conds |-> FlattenCondition(c.conds[i])])
                       ELSE FlattenCondition(c)
           flat == FlattenSeq([i \in DOMAIN cond.conds |-> parts(cond.conds[i])])
       IN CASE Len(flat) = 0 -> None
            [] Len(flat) = 1 -> Some(flat[1])
            [] OTHER -> Some([cond EXCEPT !.conds = flat])

(* The correlated subqueries of a condition in tree order. *)
RECURSIVE GatherCsqs(_)
GatherCsqs(cond) ==
  CASE cond.k = "csq" -> <<cond>>
    [] cond.k = "simple" -> <<>>
    [] OTHER -> FlattenSeq([i \in DOMAIN cond.conds |-> GatherCsqs(cond.conds[i])])

GatherCsqConditions(where) == IF IsSome(where) THEN GatherCsqs(The(where)) ELSE <<>>

(* Numbers the aliases in tree order, from n on. *)
RECURSIVE UniquifyConditionAliases(_, _)
UniquifyConditionAliases(cond, n) ==
  CASE cond.k = "simple" -> cond
    [] cond.k = "csq" ->
         [cond EXCEPT !.rel.sub.alias =
            Some(Append(IF IsSome(@) THEN The(@) ELSE <<>>, n))]
    [] OTHER ->
         LET before(i) == FoldLeft(LAMBDA a, c : a + Len(GatherCsqs(c)), n,
                                   SubSeq(cond.conds, 1, i - 1))
         IN [cond EXCEPT !.conds = [i \in DOMAIN @ |-> UniquifyConditionAliases(@[i], before(i))]]

(* A bare subquery keeps its alias. *)
NormalizePipelineAst(ast) ==
  LET flat == IF IsSome(ast.where) THEN FlattenCondition(The(ast.where)) ELSE None
  IN [ast EXCEPT !.where = [i \in DOMAIN flat |->
        IF IsJunction(flat[i]) THEN UniquifyConditionAliases(flat[i], 0) ELSE flat[i]]]

(* What the source can apply: the condition without its subqueries.  An OR    *)
(* that loses a branch is lost as a whole.                                    *)
RECURSIVE TransformFilters(_)
TransformFilters(cond) ==
  CASE cond.k = "simple" -> [kept |-> Some(cond), removed |-> FALSE]
    [] cond.k = "csq" -> [kept |-> None, removed |-> TRUE]
    [] OTHER ->
         LET parts == [i \in DOMAIN cond.conds |-> TransformFilters(cond.conds[i])]
         IN IF cond.k = "or" /\ \E i \in DOMAIN parts : ~IsSome(parts[i].kept)
            THEN [kept |-> None, removed |-> TRUE]
            ELSE [kept |-> Some([cond EXCEPT !.conds =
                             FlattenSeq([i \in DOMAIN parts |-> parts[i].kept])]),
                  removed |-> \E i \in DOMAIN parts : parts[i].removed]

RECURSIVE ConditionHasFlippedSubquery(_)
ConditionHasFlippedSubquery(cond) ==
  CASE cond.k = "csq" -> cond.flip
    [] cond.k = "simple" -> FALSE
    [] OTHER -> \E i \in DOMAIN cond.conds : ConditionHasFlippedSubquery(cond.conds[i])

RECURSIVE HasSubqueryUnderOr(_, _)
HasSubqueryUnderOr(cond, under) ==
  CASE cond.k = "csq" -> under
    [] cond.k = "simple" -> FALSE
    [] OTHER -> \E i \in DOMAIN cond.conds :
                  HasSubqueryUnderOr(cond.conds[i], under \/ cond.k = "or")

-----------------------------------------------------------------------------
(* Relationship slots: the aliases a query uses, each once, the materialised  *)
(* ones first.  A subquery limited to no rows takes no slot.                  *)
LimitZero(csq) == csq.rel.sub.limit = Some(0)

PushUnique(s, x) == IF x \in Range(s) THEN s ELSE Append(s, x)

QueryLocalSlotNames(ast) ==
  LET related == FlattenSeq([i \in DOMAIN ast.related |-> ast.related[i].sub.alias])
      gates == SelectSeq(GatherCsqConditions(ast.where), LAMBDA c : ~LimitZero(c))
      gating == FlattenSeq([i \in DOMAIN gates |-> gates[i].rel.sub.alias])
  IN FoldLeft(PushUnique, <<>>, related \o gating)

(* A subquery without alias counts as one whose alias is empty. *)
AliasOrEmpty(rel) == IF IsSome(rel.sub.alias) THEN The(rel.sub.alias) ELSE <<>>

(* The last relationship of an alias wins, at the place of the first. *)
DedupRelatedByAlias(related) ==
  LET alias(i) == AliasOrEmpty(related[i])
      last(i) == \A j \in (i + 1)..Len(related) : alias(j) # alias(i)
      aliases == FoldLeft(PushUnique, <<>>, [i \in DOMAIN related |-> alias(i)])
  IN [k \in DOMAIN aliases |->
        related[CHOOSE i \in DOMAIN related : alias(i) = aliases[k] /\ last(i)]]

(* An alias taken by a relationship or by another gate cannot be shared. *)
AliasCollision(ast) ==
  LET gates == SelectSeq(GatherCsqConditions(ast.where), LAMBDA c : ~LimitZero(c))
      alias(i) == AliasOrEmpty(gates[i].rel)
  IN \E i \in DOMAIN gates :
       \/ \E j \in DOMAIN ast.related : ast.related[j].sub.alias = Some(alias(i))
       \/ \E j \in 1..(i - 1) : alias(j) = alias(i)

(* The order asked for, completed with the primary key. *)
ResolveSort(order, pk) ==
  FoldLeft(LAMBDA s, c : IF \E i \in DOMAIN s : s[i][1] = c THEN s ELSE Append(s, <<c, TRUE>>),
           order, pk)

(* The columns whose edit must reach the query as a removal and an addition. *)
ComputeSplitEditKeys(part, related, csqs) ==
  (IF IsSome(part) THEN Range(The(part)) ELSE {})
  \cup UNION {Range(csqs[i].rel.pf) : i \in DOMAIN csqs}
  \cup UNION {Range(related[i].pf) : i \in DOMAIN related}

(* The columns the leaves of a condition read. *)
RECURSIVE WhereLeafColumns(_)
WhereLeafColumns(cond) ==
  CASE cond.k = "simple" -> {p[2] : p \in {q \in {cond.left, cond.right} : q[1] = "col"}}
    [] cond.k = "csq" -> {}
    [] OTHER -> UNION {WhereLeafColumns(cond.conds[i]) : i \in DOMAIN cond.conds}

(* The columns a projected query must find present in a row. *)
RequiredCols(ast, sort, split) ==
  Range(The(ast.select))
  \cup (IF IsSome(ast.where) THEN WhereLeafColumns(The(ast.where)) ELSE {})
  \cup {sort[i][1] : i \in DOMAIN sort}
  \cup (IF IsSome(ast.start) THEN {The(ast.start).row[i][1] : i \in DOMAIN The(ast.start).row} ELSE {})
  \cup split

-----------------------------------------------------------------------------
(* Lowering of leaves.  Bad(why) stands for the build error. *)
Bad(why) == [k |-> "Bad", why |-> why]

Const(b) == [k |-> "Const", value |-> b]

LowerOp(op, col, right) ==
  CASE op \in {"In", "NotIn"} ->
         IF right[1] # "list" THEN Bad("IN / NOT IN requires an array literal")
         ELSE [k |-> "In", col |-> col, values |-> right[2], negated |-> op = "NotIn"]
    [] op \notin {"In", "NotIn"} ->
         IF right[1] = "list" THEN Bad("expected a scalar literal, found an array")
         ELSE [k |-> "Cmp", col |-> col, op |-> op, value |-> right[2]]

LitValue(p) == IF p[1] = "null" THEN Null ELSE p[2]

(* The column of a position exists in a table of this width. *)
KnownCol(p, width) == p[1] = "col" => p[2] \in 1..width

(* A literal on the left is folded to a constant; a Null on either side of an *)
(* operator other than IS never matches.                                      *)
CreatePredicate(c, width) ==
  LET is == c.op \in {"Is", "IsNot"}
      probe == LowerOp(c.op, 1, c.right)
  IN CASE c.right[1] = "col" -> Bad("right-hand side of a condition must be a literal")
       [] c.right[1] = "list" /\ is -> Bad("expected a scalar literal, found an array")
       [] c.right[1] = "null" /\ ~is -> Const(FALSE)
       [] c.left[1] = "list" -> Bad("expected a scalar literal, found an array")
       [] ~KnownCol(c.left, width) -> Bad("unknown column")
       [] OTHER ->
            CASE is /\ c.left[1] = "col" ->
                   [k |-> "Is", col |-> c.left[2], value |-> LitValue(c.right),
                    negated |-> c.op = "IsNot"]
              [] is /\ c.left[1] # "col" ->
                   Const(ValuesIdentical(LitValue(c.left), LitValue(c.right)) # (c.op = "IsNot"))
              [] ~is /\ c.left[1] = "null" -> Const(FALSE)
              [] ~is /\ c.left[1] = "lit" ->
                   IF probe.k = "Bad" THEN probe ELSE Const(Eval(probe, <<c.left[2]>>))
              [] ~is /\ c.left[1] = "col" -> LowerOp(c.op, c.left[2], c.right)

RECURSIVE CreateRowPredicate(_, _)
CreateRowPredicate(cond, width) ==
  IF cond.k = "simple" THEN CreatePredicate(cond, width)
  ELSE LET ps == [i \in DOMAIN cond.conds |-> CreateRowPredicate(cond.conds[i], width)]
           bad == {i \in DOMAIN ps : ps[i].k = "Bad"}
       IN IF bad # {} THEN ps[Min(bad)]
          ELSE [k |-> IF cond.k = "and" THEN "all" ELSE "any", ps |-> ps]

-----------------------------------------------------------------------------
(* The guard of a connection: a finite set of values that one column must be  *)
(* in for the condition to hold; None when there is no such set.              *)
ExtractSimpleGuard(c, width) ==
  LET guard(values) == Some([col |-> c.left[2], values |-> values])
  IN CASE c.left[1] # "col" \/ c.right[1] = "col" -> None
       [] ~KnownCol(c.left, width) -> None
       [] c.op = "Eq" /\ c.right[1] = "null" -> guard({})
       [] c.op \in {"Eq", "Is"} /\ c.right[1] \in {"lit", "null"} -> guard({LitValue(c.right)})
       [] c.op = "In" /\ c.right[1] = "list" -> guard(c.right[2])
       [] OTHER -> None

RECURSIVE ExtractPushGuard(_, _)
ExtractPushGuard(cond, width) ==
  IF cond.k = "simple" THEN ExtractSimpleGuard(cond, width)
  ELSE IF cond.k = "csq" THEN None
  ELSE LET gs == [i \in DOMAIN cond.conds |-> ExtractPushGuard(cond.conds[i], width)]
           some == FlattenSeq(gs)
           size(i) == Cardinality(some[i].values)
           live == SelectSeq(some, LAMBDA x : x.values # {})
       IN IF cond.k = "and"
          THEN IF some = <<>> THEN None
               ELSE Some(some[Min({i \in DOMAIN some : \A j \in DOMAIN some : size(i) <= size(j)})])
          ELSE IF \/ \E i \in DOMAIN gs : ~IsSome(gs[i])
                  \/ \E i, j \in DOMAIN live : live[i].col # live[j].col
          THEN None
          ELSE Some([col |-> IF live = <<>> THEN 1 ELSE live[1].col,
                     values |-> UNION {live[i].values : i \in DOMAIN live}])

(* The filter a connection carries: its predicate, its guard, and whether the *)
(* source applies the whole condition.                                        *)
BuildConnectionFilters(where, presence, width) ==
  LET tf == IF IsSome(where) THEN TransformFilters(The(where))
            ELSE [kept |-> None, removed |-> FALSE]
      base == IF IsSome(tf.kept) THEN CreateRowPredicate(The(tf.kept), width) ELSE NoFilter
      present == [i \in DOMAIN presence |-> [k |-> "Present", cols |-> presence[i]]]
  IN [pred |-> IF base.k = "Bad" \/ present = None THEN base
               ELSE [k |-> "all", ps |-> present \o <<base>>],
      guard |-> IF IsSome(tf.kept) THEN ExtractPushGuard(The(tf.kept), width) ELSE None,
      fully |-> ~tf.removed]

(* What every row a condition keeps must equal: an AND collects its parts,    *)
(* the first value of a column winning; an OR keeps what all its parts share. *)
SimpleEqConstraint(c, width) ==
  IF c.op = "Eq" /\ c.left[1] = "col" /\ c.right[1] = "lit" /\ KnownCol(c.left, width)
  THEN << <<c.left[2], c.right[2]>> >> ELSE <<>>

RECURSIVE PushableConstraint(_, _)
PushableConstraint(cond, width) ==
  CASE cond.k = "simple" -> SimpleEqConstraint(cond, width)
    [] cond.k = "csq" -> <<>>
    [] OTHER ->
         LET ps == [i \in DOMAIN cond.conds |-> PushableConstraint(cond.conds[i], width)]
         IN CASE cond.k = "and" ->
                   FoldLeft(LAMBDA acc, e : IF e[1] \in ConstraintCols(acc) THEN acc ELSE Append(acc, e),
                            <<>>, FlattenSeq(ps))
              [] cond.k = "or" ->
                   IF ps = <<>> THEN <<>>
                   ELSE SelectSeq(ps[1], LAMBDA e : \A i \in DOMAIN ps : e \in Range(ps[i]))

-----------------------------------------------------------------------------
(* The columns on the left of the leaves of a condition. *)
RECURSIVE CondCols(_)
CondCols(cond) ==
  CASE cond.k = "simple" -> IF cond.left[1] = "col" THEN {cond.left[2]} ELSE {}
    [] cond.k = "csq" -> {}
    [] OTHER -> UNION {CondCols(cond.conds[i]) : i \in DOMAIN cond.conds}

(* Whether some frame of the query reads a column declared as a 64-bit        *)
(* integer, which may not cross the sync boundary.                            *)
FrameCols(ast, extra) ==
  Range(The(ast.select)) \cup Range(extra) \cup {ast.order[i][1] : i \in DOMAIN ast.order}
  \cup Range(ast.groupBy)
  \cup (IF IsSome(ast.agg) /\ The(ast.agg)[1] # "Count" THEN {The(ast.agg)[2]} ELSE {})
  \cup (IF IsSome(ast.start) THEN {The(ast.start).row[i][1] : i \in DOMAIN The(ast.start).row} ELSE {})
  \cup (IF IsSome(ast.where) THEN CondCols(The(ast.where)) ELSE {})
  \cup ComputeSplitEditKeys(None, ast.related, GatherCsqConditions(ast.where))

RECURSIVE RejectInt64Footprint(_, _, _)
RejectInt64Footprint(tables, ast, extra) ==
  LET t == tables[ast.table]
      csqs == GatherCsqConditions(ast.where)
      own == /\ ast.table \in DOMAIN tables
             /\ t.int64 \cap (IF IsSome(ast.select) THEN FrameCols(ast, extra) \cup Range(t.pk)
                              ELSE 1..t.width) # {}
  IN \/ own
     \/ \E i \in DOMAIN ast.related :
          RejectInt64Footprint(tables, ast.related[i].sub, ast.related[i].cf)
     \/ \E i \in DOMAIN csqs : RejectInt64Footprint(tables, csqs[i].rel.sub, csqs[i].rel.cf)
=============================================================================
