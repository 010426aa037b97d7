----------------------------- MODULE ScalarFold -----------------------------
(* The build-time resolution of scalar subqueries (scalar.rs): an EXISTS the  *)
(* user flagged, whose child is pinned to one row by a unique key, becomes an *)
(* equality with the value read from that row.  The catalogue cat maps a      *)
(* table to [rows, pk, width, uniques]: its unique keys, the primary one      *)
(* first.  A flagged subquery has the field scalar; a failure is Bad(why).    *)
EXTENDS QueryMeaning

CONSTANT ScalarWrites(_)  \* the catalogues one write away from a catalogue

VARIABLES tables,    \* the tables now
          asked,     \* the query
          folded     \* what it was resolved to, with the tables it was resolved on

scalarVars == <<tables, asked, folded>>

IsBad(x) == "why" \in DOMAIN x

IsScalar(csq) == "scalar" \in DOMAIN csq

(* The first failure among the parts, or the whole made of them. *)
FirstBad(parts, whole) ==
  LET bad == {i \in DOMAIN parts : IsBad(parts[i])}
  IN IF bad = {} THEN whole ELSE parts[Min(bad)]

RECURSIVE CondHasScalar(_), HasScalarSubquery(_)
CondHasScalar(cond) ==
  CASE cond.k = "simple" -> FALSE
    [] cond.k = "csq" -> IsScalar(cond) \/ HasScalarSubquery(cond.rel.sub)
    [] OTHER -> \E i \in DOMAIN cond.conds : CondHasScalar(cond.conds[i])

HasScalarSubquery(ast) ==
  \/ \E i \in DOMAIN ast.where : CondHasScalar(ast.where[i])
  \/ \E i \in DOMAIN ast.related : HasScalarSubquery(ast.related[i].sub)

-----------------------------------------------------------------------------
(* Literals that stand for a constant condition. *)
LitEq(a, b) == a[1] # "list" /\ a = b

ConstBool(cond) ==
  IF cond.k = "simple" /\ cond.op = "Eq" /\ cond.left[1] # "col" /\ cond.right[1] # "col"
  THEN Some(LitEq(cond.left, cond.right)) ELSE None

EmptyFold(not) == Simple(<<"lit", IF not THEN 1 ELSE 0>>, "Eq", <<"lit", 1>>)

(* The columns a conjunction of equalities binds; the last literal of a       *)
(* column counts.  None for any other condition.                              *)
RECURSIVE CollectEqBindings(_)
CollectEqBindings(cond) ==
  CASE cond.k = "simple" /\ cond.op = "Eq" /\ cond.left[1] = "col" /\ cond.right[1] # "col" ->
         Some(cond.left[2] :> cond.right)
    [] cond.k = "and" ->
         LET parts == [i \in DOMAIN cond.conds |-> CollectEqBindings(cond.conds[i])]
         IN IF \E i \in DOMAIN parts : parts[i] = None THEN None
            ELSE Some(FoldLeft(LAMBDA m, p : The(p) @@ m, [c \in {} |-> <<>>], parts))
    [] OTHER -> None


(* The bindings must be those of a unique key, no more and no less. *)
BindUniqueKey(t, bindings) ==
  LET covers(k) == Range(k) = DOMAIN bindings
      keys == SelectSeq(t.uniques, covers)
  IN IF keys = <<>> THEN Bad("child WHERE does not bind exactly a unique key")
     ELSE IF \E c \in DOMAIN bindings : bindings[c][1] = "list"
     THEN Bad("expected a scalar literal, found an array")
     ELSE [bound |-> [c \in DOMAIN bindings |-> LitValue(bindings[c])]]

(* At most one row: the bound columns are a unique key. *)
LookupUnique(t, bound) ==
  LET rows == {r \in t.rows : \A c \in DOMAIN bound : ValuesEqual(r[c], bound[c])}
  IN IF rows = {} THEN None ELSE Some(CHOOSE r \in rows : TRUE)

ScalarToLit(v) == IF v = Null THEN <<"null">> ELSE <<"lit", v>>

(* The row is there: its correlation values are compared with the parent's. *)
PresentFold(csq, t, row) ==
  LET rel == csq.rel
      known(i) == rel.cf[i] \in 1..t.width
      eq(i) == IF ~known(i) THEN Bad("unknown column")
               ELSE IF row[rel.cf[i]] = Absent THEN Bad("an absent correlation value cannot be inlined")
               ELSE Simple(<<"col", rel.pf[i]>>, "Eq", ScalarToLit(row[rel.cf[i]]))
      eqs == [i \in DOMAIN rel.pf |-> eq(i)]
      whole == CASE ~csq.not -> IF Len(eqs) = 1 THEN eqs[1] ELSE AndOf(eqs)
                 [] csq.not /\ Len(eqs) = 1 -> [eqs[1] EXCEPT !.op = "IsNot"]
                 [] OTHER -> Bad("NOT EXISTS with a compound correlation is not yet folded")
  IN FirstBad(eqs, whole)

(* child is the subquery of csq, resolved. *)
FoldScalar(csq, child, cat) ==
  LET bindings == IF IsSome(child.where) THEN CollectEqBindings(The(child.where)) ELSE None
      t == cat[child.table]
      key == BindUniqueKey(t, The(bindings))
      row == LookupUnique(t, key.bound)
  IN IF \E i \in DOMAIN child.where : ConstBool(child.where[i]) = Some(FALSE) THEN EmptyFold(csq.not)
     ELSE IF child.table \notin DOMAIN cat THEN Bad("unknown table")
     ELSE IF bindings = None THEN Bad("child WHERE must be a conjunction of column = literal")
     ELSE IF IsBad(key) THEN key
     ELSE IF IsSome(row) THEN PresentFold(csq, t, The(row)) ELSE EmptyFold(csq.not)

(* Inner subqueries first: what they fold to may pin the outer one. *)
RECURSIVE ResolveCondition(_, _), ResolveAst(_, _)
ResolveCondition(cond, cat) ==
  CASE cond.k = "simple" -> cond
    [] cond.k = "csq" ->
         LET child == ResolveAst(cond.rel.sub, cat)
         IN IF IsBad(child) THEN child
            ELSE IF IsScalar(cond) THEN FoldScalar(cond, child, cat)
            ELSE [cond EXCEPT !.rel.sub = child]
    [] OTHER ->
         LET parts == [i \in DOMAIN cond.conds |-> ResolveCondition(cond.conds[i], cat)]
         IN FirstBad(parts, [cond EXCEPT !.conds = parts])

ResolveAst(ast, cat) ==
  LET where == [i \in DOMAIN ast.where |-> ResolveCondition(ast.where[i], cat)]
      subs == [i \in DOMAIN ast.related |-> ResolveAst(ast.related[i].sub, cat)]
  IN FirstBad(where \o subs,
              [ast EXCEPT !.where = where,
                          !.related = [i \in DOMAIN @ |-> [@[i] EXCEPT !.sub = subs[i]]]])

ResolveScalars(ast, cat) == ResolveAst(ast, cat)

-----------------------------------------------------------------------------
(* A query is resolved once, when its pipeline is built; the tables change    *)
(* afterwards.                                                                *)
ScalarInit(catalogues, asts) == tables \in catalogues /\ asked \in asts /\ folded = None

BuildScalar ==
  /\ folded = None
  /\ folded' = Some([cat |-> tables, result |-> ResolveScalars(asked, tables)])
  /\ UNCHANGED <<tables, asked>>

WriteTables == IsSome(folded) /\ tables' \in ScalarWrites(tables) /\ UNCHANGED <<asked, folded>>

ScalarNext == BuildScalar \/ WriteTables

=============================================================================
