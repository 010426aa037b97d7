------------------------------ MODULE SqlSource ------------------------------
(* The SQLite source (rindle-sqlite: table_source.rs, query_builder.rs,       *)
(* tiebreak.rs) beside the memory source it must agree with.  A table is a    *)
(* source of module Source, whose indexes play the memory source, with        *)
(*   rows       the rows SQLite holds, in rowid order                         *)
(*   optional   the nullable columns                                          *)
(*   float, int the columns declared number and int64                         *)
(*   indexes    [cols, unique, partial, stat]: a column 0 is an expression,   *)
(*              partial an optional pair <<column, value>>, stat the optional *)
(*              average run lengths that ANALYZE left                         *)
(*   integer    the columns declared INTEGER                                  *)
(*   norowid    WITHOUT ROWID                                                 *)
(* A connection also has sql, its optional SQL condition, and unordered.      *)
EXTENDS QueryAst

CONSTANTS SqlRequests(_), \* the fetch requests to compare on a table
          SqlChanges(_),  \* the changes to push to a table
          MaxRun,         \* TIEBREAK_MAX_ENGAGE_RUN
          Lossy,          \* an INTEGER that no f64 represents
          Real,           \* a REAL
          MaxSqlPushes,
          (* The functions of these names, as the model gives them. *)
          DoSqlTryPush(_, _), DoReadsAgree(_), DoHydrate(_)

VARIABLES sqlTable, sqlResult, sqlPushes

sqlVars == <<sqlTable, sqlResult, sqlPushes>>

-----------------------------------------------------------------------------
(* SQL truth: FALSE, unknown and TRUE are 0, 1 and 2. *)
SqlBool(b) == IF b THEN 2 ELSE 0

SqlAll(ts) == Min({2} \cup Range(ts))

SqlAny(ts) == Max({0} \cup Range(ts))

SqlNot(t) == 2 - t

(* Except for IS, a comparison with NULL is unknown. *)
SqlCompare(op, a, b) ==
  CASE op = "Is" -> SqlBool(a = b)
    [] op = "IsNot" -> SqlBool(a # b)
    [] a = Null \/ b = Null -> 1
    [] op = "Eq" -> SqlBool(a = b)
    [] op = "Ne" -> SqlBool(a # b)
    [] OTHER -> SqlBool(Cmp(op, CompareValues(a, b)))

(* Nothing is in the empty list, not even NULL. *)
SqlIn(a, list) ==
  CASE list = {} -> 0
    [] a = Null -> 1
    [] a \in list -> 2
    [] Null \in list -> 1
    [] OTHER -> 0

(* ORDER BY sorts NULL first; ties come in either direction of the rowid. *)
SqlSort(rows, order, reverse, tie) ==
  LET cmp(i, j) == CompareRowsRev(order, reverse, rows[i], rows[j])
      before(i) == Cardinality({j \in DOMAIN rows :
                     cmp(j, i) < 0 \/ (cmp(j, i) = 0 /\ IF tie THEN j < i ELSE j > i)})
  IN [k \in DOMAIN rows |-> rows[CHOOSE i \in DOMAIN rows : before(i) = k - 1]]

-----------------------------------------------------------------------------
(* The condition of a connection: operands are columns or literal values, a   *)
(* list being the set of its values.                                          *)
ValuePositionToSqlOperand(p) ==
  IF p[1] = "col" THEN p ELSE <<"lit", IF p[1] = "list" THEN p[2] ELSE LitValue(p)>>

(* Bad for a condition the predicate lowering refuses too. *)
RECURSIVE CreateSqlCondition(_)
CreateSqlCondition(cond) ==
  CASE cond.k = "simple" ->
         IF cond.right[1] = "col" THEN Bad("right-hand side of a condition must be a literal")
         ELSE [cond EXCEPT !.left = ValuePositionToSqlOperand(@),
                           !.right = ValuePositionToSqlOperand(@)]
    [] cond.k = "csq" -> Bad("correlated subquery in source SQL condition")
    [] OTHER ->
         LET cs == [i \in DOMAIN cond.conds |-> CreateSqlCondition(cond.conds[i])]
             bad == {i \in DOMAIN cs : cs[i].k = "Bad"}
         IN IF bad # {} THEN cs[Min(bad)] ELSE [cond EXCEPT !.conds = cs]

ValuePositionToSql(operand, row) == IF operand[1] = "col" THEN row[operand[2]] ELSE operand[2]

SimpleConditionToSql(c, row) ==
  LET left == ValuePositionToSql(c.left, row)
  IN CASE c.op = "In" -> SqlIn(left, c.right[2])
       [] c.op = "NotIn" -> SqlNot(SqlIn(left, c.right[2]))
       [] OTHER -> SqlCompare(c.op, left, ValuePositionToSql(c.right, row))

RECURSIVE FiltersToSql(_, _)
FiltersToSql(c, row) ==
  IF c.k = "simple" THEN SimpleConditionToSql(c, row)
  ELSE LET ts == [i \in DOMAIN c.conds |-> FiltersToSql(c.conds[i], row)]
       IN IF c.k = "and" THEN SqlAll(ts) ELSE SqlAny(ts)

(* A plain equality for each column: a join key is never NULL. *)
ConstraintsToSql(c, row) ==
  SqlAll([i \in DOMAIN c |-> SqlCompare("Eq", row[c[i][1]], c[i][2])])

(* The keys are those of the first entry. *)
MultiConstraintToSql(mc, row) ==
  LET keys == [i \in DOMAIN mc[1] |-> mc[1][i][1]]
      entry(e) == [i \in DOMAIN keys |-> ConstraintValue(e, keys[i])]
  IN IF Len(keys) = 1
     THEN SqlIn(row[keys[1]], {entry(mc[i])[1] : i \in DOMAIN mc})
     ELSE SqlAny([i \in DOMAIN mc |->
            SqlAll([j \in DOMAIN keys |-> SqlCompare("Eq", row[keys[j]], entry(mc[i])[j])])])

NullableAwareEquality(nullable, cell, value) ==
  SqlCompare(IF nullable THEN "Is" ELSE "Eq", cell, value)

\* Mutant: the two sides of the nullable comparison are swapped.
NullableAwareRangeComparisonSwapped(nullable, cell, value, gt) ==
  LET compared == SqlCompare(IF gt THEN "Gt" ELSE "Lt", cell, value)
  IN CASE ~nullable -> compared
       [] nullable /\ gt -> SqlAny(<<SqlBool(cell = Null), compared>>)
       [] nullable /\ ~gt -> SqlAny(<<SqlBool(value = Null), compared>>)

(* NULL is below everything: nothing to compare above a NULL bound. *)
NullableAwareRangeComparison(nullable, cell, value, gt) ==
  LET compared == SqlCompare(IF gt THEN "Gt" ELSE "Lt", cell, value)
  IN CASE ~nullable -> compared
       [] nullable /\ gt -> SqlAny(<<SqlBool(value = Null), compared>>)
       [] nullable /\ ~gt -> SqlAny(<<SqlBool(cell = Null), compared>>)

(* The lexicographic bound: equal on the first columns and past the start on  *)
(* the next one, or equal on all when the start row belongs to the range.  A  *)
(* leading column that is never NULL adds its own inclusive bound.            *)
GatherStartConstraints(s, start, reverse, order, row) ==
  LET col(i) == order[i][1]
      gt(i) == order[i][2] # reverse
      equal(i) == NullableAwareEquality(col(i) \in s.optional, row[col(i)], start.row[col(i)])
      past(i) == NullableAwareRangeComparison(col(i) \in s.optional, row[col(i)],
                                              start.row[col(i)], gt(i))
      group(i) == SqlAll([j \in 1..i |-> IF j = i THEN past(i) ELSE equal(j)])
      disj == SqlAny([i \in DOMAIN order |-> group(i)]
                     \o IF start.at THEN <<SqlAll([i \in DOMAIN order |-> equal(i)])>> ELSE <<>>)
  IN IF col(1) \in s.optional THEN disj
     ELSE SqlAll(<<SqlCompare(IF gt(1) THEN "Ge" ELSE "Le", row[col(1)], start.row[col(1)]), disj>>)

(* What the SELECT returns: the rows of which every term is true. *)
BuildSelectQuery(s, req, filter, order, start, tie) ==
  LET multis == SelectSeq(req.multi, LAMBDA m : m # <<>>)
      terms(row) ==
        [i \in DOMAIN req.c |-> ConstraintsToSql(req.c[i], row)]
        \o [i \in DOMAIN multis |-> MultiConstraintToSql(multis[i], row)]
        \o [i \in DOMAIN start |-> GatherStartConstraints(s, start[i], req.rev, order, row)]
        \o [i \in DOMAIN filter |-> FiltersToSql(filter[i], row)]
  IN SqlSort(SelectSeq(s.rows, LAMBDA r : SqlAll(terms(r)) = 2), order, req.rev, tie)

-----------------------------------------------------------------------------
(* The primary-key tiebreak in the engine: SQLite orders by the prefix of the *)
(* sort that an index streams, the engine sorts each run of equal prefixes.   *)

(* The ascending primary-key columns at the end of the sort. *)
AppendedPkLen(sort, pk) ==
  LET tail == TakeWhile(Reverse(sort), LAMBDA e : e[2] /\ e[1] \in Range(pk))
  IN Min({Len(tail), Len(pk)})

LeadsWith(ix, cols) == IsPrefix(cols, ix)

(* The leading plain columns of every index. *)
DiscoverAllIndexColumns(s) ==
  SelectSeq([i \in DOMAIN s.indexes |->
               [s.indexes[i] EXCEPT !.cols = TakeWhile(@, LAMBDA c : c # 0)]],
            LAMBDA ix : ix.cols # <<>>)

SortCols(sort) == [i \in DOMAIN sort |-> sort[i][1]]

IsPkRowidAlias(s) == Len(s.pk) = 1 /\ s.pk[1] \in s.integer

(* Engaged when an index streams the prefix and none the whole sort. *)
TiebreakPrefixLen(s, sort) ==
  LET appended == AppendedPkLen(sort, s.pk)
      n == Len(sort) - appended
      ixs == Range(DiscoverAllIndexColumns(s))
      some(cols) == \E ix \in ixs : LeadsWith(ix.cols, cols)
  IN IF \/ appended = 0 \/ n = 0 \/ IsPkRowidAlias(s) \/ s.norowid
        \/ some(SortCols(sort)) \/ ~some(SubSeq(SortCols(sort), 1, n))
     THEN None ELSE Some(n)

(* No statistics: engage. *)
PrefixRunWithinCap(s, sort, n) ==
  LET ixs == SelectSeq(DiscoverAllIndexColumns(s),
                       LAMBDA ix : LeadsWith(ix.cols, SubSeq(SortCols(sort), 1, n)))
  IN \/ ixs = <<>>
     \/ ~IsSome(ixs[1].stat)
     \/ n \notin DOMAIN The(ixs[1].stat)
     \/ The(ixs[1].stat)[n] <= MaxRun

(* Only for an ordered fetch without constraints. *)
TiebreakEngage(s, conn, req) ==
  IF conn.unordered \/ IsSome(req.c) \/ HasMulti(req) THEN None
  ELSE FilterOption(TiebreakPrefixLen(s, conn.sort),
                    LAMBDA n : PrefixRunWithinCap(s, conn.sort, n))

(* The maximal runs of equal prefix, each sorted by the whole sort. *)
TiebreakStream(rows, sort, n, reverse) ==
  LET prefix == SubSeq(sort, 1, n)
      runs == FoldLeft(LAMBDA rs, r :
                         IF rs # <<>> /\ CompareRows(prefix, Last(rs)[1], r) = 0
                         THEN [rs EXCEPT ![Len(rs)] = Append(@, r)] ELSE Append(rs, <<r>>),
                       <<>>, rows)
  IN FlattenSeq([i \in DOMAIN runs |-> SqlSort(runs[i], sort, reverse, TRUE)])

-----------------------------------------------------------------------------
(* The read path. *)
CheckRowCells(s, row) ==
  /\ \A c \in s.float : row[c] # Lossy
  /\ \A c \in s.int : row[c] # Real

(* A row that fails the check parks an error and ends the stream. *)
OwnedSqliteRows(s, rows) ==
  LET good == TakeWhile(rows, LAMBDA r : CheckRowCells(s, r))
  IN [rows |-> good, err |-> good # rows]

OverlaysForMultiConstraint(o, mc) ==
  KeepOverlays(o, LAMBDA r : \E i \in DOMAIN mc : ConstraintMatches(r, mc[i]))

(* The narrowing of module Source, with the multi-constraints. *)
ComputeOverlaysMulti(req, ov, sort, pred) ==
  FoldLeft(OverlaysForMultiConstraint, ComputeOverlays(req, ov, sort, pred),
           SelectSeq(req.multi, LAMBDA m : m # <<>>))

(* The added row comes first, the removed one is known by its key. *)
OverlayUnordered(rows, o, pk) ==
  LET same == {i \in DOMAIN rows : IsSome(o.remove) /\ SamePk(pk, rows[i], The(o.remove))}
  IN o.add \o IF same = {} THEN rows ELSE RemoveAt(rows, Min(same))

(* An engaged tiebreak reads from the beginning of the run the start is in:   *)
(* the exact cut follows the splice.                                          *)
SqlFetch(s, slot, req, tie) ==
  LET conn == s.tb.conns[slot]
      engaged == TiebreakEngage(s, conn, req)
      order == IF conn.unordered THEN <<>>
               ELSE IF IsSome(engaged) THEN SubSeq(conn.sort, 1, The(engaged)) ELSE conn.sort
      start == IF IsSome(engaged)
               THEN [i \in DOMAIN req.start |-> [req.start[i] EXCEPT !.at = TRUE]] ELSE req.start
      leaf == OwnedSqliteRows(s, BuildSelectQuery(s, req, conn.sql, order, start, tie))
      gated == IF slot \in s.gate THEN s.ov ELSE None
      o == ComputeOverlaysMulti(req, gated, conn.sort, conn.pred)
      full == IF IsSome(engaged)
              THEN TiebreakStream(leaf.rows, conn.sort, The(engaged), req.rev) ELSE leaf.rows
  IN [err |-> leaf.err,
      out |-> IF conn.unordered THEN OverlayUnordered(leaf.rows, o, s.pk)
              ELSE GenerateWithStart(OverlaySplice(full, o, conn.sort, req.rev),
                                     req.start, conn.sort, req.rev)]

-----------------------------------------------------------------------------
(* Unique keys. *)
SameColSet(a, b) == Len(a) = Len(b) /\ Range(a) = Range(b)

(* A partial index, or one with an expression, is no unique key of the table. *)
DiscoverUniqueIndexes(s) ==
  LET found == SelectSeq(s.indexes, LAMBDA ix :
                 ix.unique /\ ~IsSome(ix.partial) /\ 0 \notin Range(ix.cols))
      keys == [i \in DOMAIN found |-> found[i].cols]
      listed == \E i \in DOMAIN keys : SameColSet(keys[i], s.pk)
  IN keys \o IF IsPkRowidAlias(s) /\ ~listed THEN <<s.pk>> ELSE <<>>

UniqueKeys(s) == <<s.pk>> \o SelectSeq(DiscoverUniqueIndexes(s), LAMBDA k : ~SameColSet(k, s.pk))

(* The first row a point read finds; an error when its cells fail the check. *)
GetRow(s, key, values) ==
  LET found == SelectSeq(s.rows, LAMBDA r :
                 SqlAll([i \in DOMAIN key |-> SqlCompare("Eq", r[key[i]], values[i])]) = 2)
  IN OwnedSqliteRows(s, FirstN(found, 1))

-----------------------------------------------------------------------------
(* The write path. *)
SqlMatches(s, r, row) == SqlAll([i \in DOMAIN s.pk |-> SqlCompare("Eq", r[s.pk[i]], row[s.pk[i]])]) = 2

SqlExists(s, row) == \E i \in DOMAIN s.rows : SqlMatches(s, s.rows[i], row)

(* SQLite refuses the row: a unique index has its key already.  The index of  *)
(* an expression is taken to be on the columns beside it.                     *)
Conflicts(s, rows, row) ==
  LET inside(ix, r) == \A i \in DOMAIN ix.partial : r[ix.partial[i][1]] = ix.partial[i][2]
      same(ix, r) == /\ \A i \in DOMAIN ix.cols :
                          ix.cols[i] # 0 => ValuesEqual(r[ix.cols[i]], row[ix.cols[i]])
                     /\ inside(ix, r) /\ inside(ix, row)
  IN \E i \in DOMAIN rows :
       \/ SqlMatches(s, rows[i], row)
       \/ \E k \in DOMAIN s.indexes : s.indexes[k].unique /\ same(s.indexes[k], rows[i])

SqlDelete(s, row) == SelectSeq(s.rows, LAMBDA r : ~SqlMatches(s, r, row))

CanUseUpdate(s, old, row) ==
  /\ \E c \in DOMAIN row : c \notin Range(s.pk)
  /\ SamePk(s.pk, old, row)

SqlInsert(s, rows, row) ==
  IF Conflicts(s, rows, row) THEN [rows |-> rows, err |-> TRUE]
  ELSE [rows |-> Append(rows, row), err |-> FALSE]

SqlUpdate(s, row) ==
  LET others == SqlDelete(s, row)
  IN IF Len(others) # Len(s.rows) /\ Conflicts(s, others, row) THEN [rows |-> s.rows, err |-> TRUE]
     ELSE [rows |-> [i \in DOMAIN s.rows |-> IF SqlMatches(s, s.rows[i], row) THEN row ELSE s.rows[i]],
           err |-> FALSE]

(* An edit of the key deletes, then inserts: the insert may fail alone. *)
SqlWriteChange(s, ch) ==
  CASE ch.t = "Add" -> SqlInsert(s, s.rows, ch.row)
    [] ch.t = "Remove" -> [rows |-> SqlDelete(s, ch.row), err |-> FALSE]
    [] ch.t = "Edit" -> IF CanUseUpdate(s, ch.old, ch.row) THEN SqlUpdate(s, ch.row)
                        ELSE SqlInsert(s, SqlDelete(s, ch.old), ch.row)

-----------------------------------------------------------------------------
(* Pushing.  g holds the table as its only source; seen is what the changes   *)
(* delivered to a connection make of what it first fetched; agree tells that  *)
(* every read made during the push saw what the memory source shows.          *)
(* A connection without an order has no start. *)
RequestsOf(s, slot) ==
  {r \in SqlRequests(s) : s.tb.conns[slot].unordered => ~IsSome(r.start)}

(* The rows in any order for a connection without one.  A read that left an   *)
(* error is not used: it is due to a cell that does not have its type.        *)
ReadsAgree(s) ==
  \A slot \in DOMAIN s.tb.conns : \A req \in RequestsOf(s, slot) :
    LET mem == SourceFetch(s, slot, req).out
        same(out) == IF s.tb.conns[slot].unordered
                     THEN Len(out) = Len(mem) /\ Range(out) = Range(mem) ELSE out = mem
    IN \A tie \in BOOLEAN :
         LET sql == SqlFetch(s, slot, req, tie)
         IN IF sql.err THEN \E i \in DOMAIN s.rows : ~CheckRowCells(s, s.rows[i])
            ELSE same(sql.out)

SeenAfter(rows, ch) ==
  CASE ch.t = "Add" -> rows \cup {ch.row}
    [] ch.t = "Remove" -> rows \ {ch.row}
    [] ch.t = "Edit" -> (rows \ {ch.old}) \cup {ch.row}

(* While a connection's output handles a change, any connection may be read. *)
SqlPushOne(g, edge, ch) ==
  [g EXCEPT !.seen[edge.node] = [i \in DOMAIN @ |-> SeenAfter(@[i], ch)],
            !.agree = @ /\ ReadsAgree(g.src[1])]

SqlChangeOk(s, ch) ==
  IF ch.t = "Add" THEN ~SqlExists(s, ch.row)
  ELSE SqlExists(s, IF ch.t = "Edit" THEN ch.old ELSE ch.row)

(* Strict: the change is checked, pushed to every connection, then written.   *)
(* The memory source takes the write that SQLite took.                        *)
SqlPushAndWrite(g, ch) ==
  IF g.err \/ ~SqlChangeOk(g.src[1], ch) THEN [g EXCEPT !.err = TRUE]
  ELSE LET drained == GenPush(g, 1, ch)
           s == drained.src[1]
           w == SqlWriteChange(s, ch)
       IN [drained EXCEPT !.err = w.err,
             !.src[1] = [IF w.err THEN s ELSE WriteChange(s, ch) EXCEPT !.rows = w.rows]]

SqlTryPush(g, ch) == FoldLeft(SqlPushAndWrite, g, SplitEdit(g.src[1], ch))

-----------------------------------------------------------------------------
(* A connection as the builder opens it: spec is [order, cond, split], order  *)
(* None when any order will do.                                               *)
SqlConnect(s, spec) ==
  LET width == Len(s.rows[1])
      filters == BuildConnectionFilters(spec.cond, None, width)
      conn == [sort |-> IF IsSome(spec.order) THEN ResolveSort(The(spec.order), s.pk)
                        ELSE PrimarySort(s.pk),
               unordered |-> ~IsSome(spec.order), pred |-> filters.pred, pk |-> None,
               guard |-> filters.guard, split |-> spec.split, out |-> None,
               sql |-> [i \in DOMAIN spec.cond |-> CreateSqlCondition(spec.cond[i])]]
      slot == NextSlot(s.tb)
      tb == TableConnect(s.tb, conn)
  IN [s EXCEPT !.tb = SetConnOutput(tb, ConnIdAt(tb, slot), [node |-> slot, port |-> "single"])]

(* What each connection reads, the contents of what is built on it; nothing   *)
(* is built on a read that left an error.                                     *)
Hydrate(s) ==
  [slot \in DOMAIN s.tb.conns |->
     LET read == SqlFetch(s, slot, FetchAll, TRUE)
     IN IF read.err THEN None ELSE Some(Range(read.out))]

Opened(s) == [src |-> <<s>>, seen |-> DoHydrate(s), agree |-> TRUE, err |-> FALSE]

SqlInit(ts, connections) ==
  /\ \E t \in ts, specs \in connections :
       sqlTable = Opened(FoldLeft(SqlConnect, t, specs))
  /\ sqlResult = "none"
  /\ sqlPushes = 0

(* After an error the host builds its pipelines again over what SQLite holds. *)
Reopened(g) ==
  LET s == g.src[1]
  IN [Opened([s EXCEPT !.idx = (PrimarySort(s.pk) :> Range(s.rows))]) EXCEPT !.agree = g.agree]

SqlPush(ch) ==
  LET g == DoSqlTryPush(sqlTable, ch)
  IN /\ sqlPushes < MaxSqlPushes
     /\ sqlPushes' = sqlPushes + 1
     /\ sqlResult' = IF g.err THEN "err" ELSE "ok"
     /\ sqlTable' = IF g.err THEN Reopened(g) ELSE g

SqlNext == \E ch \in SqlChanges(sqlTable.src[1]) : SqlPush(ch)

-----------------------------------------------------------------------------
(* Whatever the order, the constraints, the start and the filter, and on      *)
(* either path of the tiebreak, the SELECT of the SQLite source with the      *)
(* change in flight spliced in yields what the memory source yields, between  *)
(* pushes and from inside one; a row it cannot represent leaves an error and  *)
(* never passes for the end of the rows (table_source.rs, fetch, next_row).   *)
SqlFetchAgrees == sqlTable.agree /\ DoReadsAgree(sqlTable.src[1])

(* What a connection was told since it read the table adds up to what it      *)
(* would read now: the filter in SQL and the predicate of the push, the       *)
(* guards of the push index and the splitting of edits agree                  *)
(* (source_common.rs, gen_push and filter_push).                              *)
DeliveriesAddUp ==
  LET s == sqlTable.src[1]
  IN \A slot \in DOMAIN sqlTable.seen :
       IsSome(sqlTable.seen[slot]) /\ IsSome(DoHydrate(s)[slot]) => sqlTable.seen[slot] = DoHydrate(s)[slot]

(* A unique key that the source reports finds one row at most: the fold of    *)
(* scalar subqueries rests on it (table_source.rs, discover_unique_indexes).  *)
UniqueKeysSound ==
  LET s == sqlTable.src[1]
  IN \A i \in DOMAIN UniqueKeys(s) : \A a, b \in DOMAIN s.rows :
       LET key == UniqueKeys(s)[i]
       IN a # b => \E j \in DOMAIN key : ~ValuesEqual(s.rows[a][key[j]], s.rows[b][key[j]])

(* What the SQLite source says of its table, rows and unique keys, is so.     *)
SqlSourceExact == SqlFetchAgrees /\ UniqueKeysSound
=============================================================================
