------------------------------- MODULE Source -------------------------------
(* The memory source (memory_source.rs) and the push and fetch machinery it   *)
(* shares with the SQLite source (source_common.rs).  A source is             *)
(*   [pk, idx, tb, ov, gate]                                                  *)
(* pk its primary key, idx a map from index sorts to sets of rows, tb the     *)
(* connection table, ov the optional change in flight, gate the slots whose   *)
(* last pushed epoch is the epoch of ov: the others do not see it yet.        *)
EXTENDS ConnTable

(* Delivers a change over the edge of a connection: the graph the source      *)
(* belongs to.                                                                *)
CONSTANTS PushOne(_, _, _)

-----------------------------------------------------------------------------
(* The k-way merges of sorted streams by a binary heap: merge_sorted_streams  *)
(* of source_common.rs and merge_node_streams of op/merge.rs, which share the *)
(* heap.  An item is a record with a field row.  A heap entry is [item, idx]  *)
(* with the stream it came from; stable tells the merge that breaks ties by   *)
(* stream order.  A stream is the sequence of what it still has to deliver.   *)
HeapLess(sort, reverse, stable, a, b) ==
  LET ord == CompareRowsRev(sort, reverse, a.item.row, b.item.row)
  IN ord < 0 \/ (stable /\ ord = 0 /\ a.idx < b.idx)

Swap(h, i, j) == [h EXCEPT ![i] = h[j], ![j] = h[i]]

RECURSIVE SiftUp(_, _, _, _, _)
SiftUp(sort, reverse, stable, h, i) ==
  LET p == i \div 2
  IN IF i = 1 \/ ~HeapLess(sort, reverse, stable, h[i], h[p])
     THEN h
     ELSE SiftUp(sort, reverse, stable, Swap(h, i, p), p)

RECURSIVE SiftDown(_, _, _, _, _)
SiftDown(sort, reverse, stable, h, i) ==
  LET smaller(a, b) ==
        IF b <= Len(h) /\ HeapLess(sort, reverse, stable, h[b], h[a]) THEN b ELSE a
      smallest == smaller(smaller(i, 2 * i), 2 * i + 1)
  IN IF smallest = i THEN h
     ELSE SiftDown(sort, reverse, stable, Swap(h, i, smallest), smallest)

(* The head of every stream that has one enters the heap. *)
Prime(sort, reverse, stable, streams) ==
  FoldLeft(LAMBDA h, i :
             IF streams[i] = <<>> THEN h
             ELSE SiftUp(sort, reverse, stable,
                         Append(h, [item |-> Head(streams[i]), idx |-> i]), Len(h) + 1),
           <<>>, [i \in DOMAIN streams |-> i])

(* Takes the root: it is refilled from its own stream, or replaced by the     *)
(* last entry when that stream is exhausted.                                  *)
PopMin(sort, reverse, stable, streams, h) ==
  LET idx == h[1].idx
      last == Front(h)
  IN IF streams[idx] # <<>>
     THEN [streams |-> [streams EXCEPT ![idx] = Tail(@)],
           heap |-> SiftDown(sort, reverse, stable,
                             [h EXCEPT ![1].item = Head(streams[idx])], 1)]
     ELSE [streams |-> streams,
           heap |-> IF last = <<>> THEN <<>>
                    ELSE SiftDown(sort, reverse, stable, [last EXCEPT ![1] = h[Len(h)]], 1)]

RECURSIVE DrainHeap(_, _, _, _, _)
DrainHeap(sort, reverse, stable, streams, h) ==
  IF h = <<>> THEN <<>>
  ELSE LET p == PopMin(sort, reverse, stable, streams, h)
       IN <<h[1].item>> \o DrainHeap(sort, reverse, stable, p.streams, p.heap)

MergeStreams(sort, reverse, stable, streams) ==
  LET rest == [i \in DOMAIN streams |-> IF streams[i] = <<>> THEN <<>> ELSE Tail(streams[i])]
  IN DrainHeap(sort, reverse, stable, rest, Prime(sort, reverse, stable, streams))

(* The merge of row streams. *)
MergeSortedStreams(streams, sort, reverse) ==
  LET wrapped == [i \in DOMAIN streams |->
                    [j \in DOMAIN streams[i] |-> [row |-> streams[i][j]]]]
      merged == MergeStreams(sort, reverse, FALSE, wrapped)
  IN [j \in DOMAIN merged |-> merged[j].row]

(* Drops an item whose primary key is the one of the item last yielded. *)
DedupAdjacent(items, pk) ==
  FoldLeft(LAMBDA out, n :
             IF out # <<>> /\ SamePk(pk, n.row, Last(out).row) THEN out ELSE Append(out, n),
           <<>>, items)

(* The merge of node streams; dedup is an optional primary key. *)
MergeNodeStreams(streams, sort, reverse, dedup) ==
  LET merged == MergeStreams(sort, reverse, TRUE, streams)
  IN IF IsSome(dedup) THEN DedupAdjacent(merged, The(dedup)) ELSE merged

-----------------------------------------------------------------------------
(* Compiled leaf predicates.  Except for Is, a Null cell fails every test.    *)
(* Present is the presence test of a projected query.                         *)
Cmp(op, ord) ==
  CASE op = "Lt" -> ord < 0 [] op = "Le" -> ord <= 0
    [] op = "Gt" -> ord > 0 [] op = "Ge" -> ord >= 0

Eval(p, row) ==
  CASE p.k = "Const" -> p.value
    [] p.k = "Present" -> \A c \in p.cols : row[c] # Absent
    [] p.k = "Is" -> ValuesIdentical(row[p.col], p.value) # p.negated
    [] p.k = "In" -> row[p.col] # Null /\ ((row[p.col] \in p.values) # p.negated)
    [] p.k = "Cmp" ->
         /\ row[p.col] # Null
         /\ CASE p.op = "Eq" -> ValuesIdentical(row[p.col], p.value)
              [] p.op = "Ne" -> ~ValuesIdentical(row[p.col], p.value)
              [] OTHER -> p.value # Null /\ Cmp(p.op, CompareValues(row[p.col], p.value))

(* A connection's predicate is a tree over leaf predicates: "all" and "any"   *)
(* hold their branches in ps.                                                 *)
RECURSIVE RowPredicate(_, _)
RowPredicate(p, row) ==
  CASE p.k = "all" -> \A i \in DOMAIN p.ps : RowPredicate(p.ps[i], row)
    [] p.k = "any" -> \E i \in DOMAIN p.ps : RowPredicate(p.ps[i], row)
    [] OTHER -> Eval(p, row)

NoFilter == [k |-> "Const", value |-> TRUE]

-----------------------------------------------------------------------------
(* The change in flight as a reader sees it. *)
OverlaysFromChange(ov) ==
  [add |-> IF IsSome(ov) /\ The(ov).t \in {"Add", "Edit"} THEN Some(The(ov).row) ELSE None,
   remove |-> IF ~IsSome(ov) THEN None
              ELSE IF The(ov).t = "Remove" THEN Some(The(ov).row)
              ELSE IF The(ov).t = "Edit" THEN Some(The(ov).old) ELSE None]

KeepOverlays(o, Test(_)) ==
  [add |-> FilterOption(o.add, Test), remove |-> FilterOption(o.remove, Test)]

OverlaysForStartAt(o, row, sort, reverse) ==
  KeepOverlays(o, LAMBDA r : CompareRowsRev(sort, reverse, r, row) >= 0)

OverlaysForConstraint(o, c) == KeepOverlays(o, LAMBDA r : ConstraintMatches(r, c))

OverlaysForFilterPredicate(o, pred) == KeepOverlays(o, LAMBDA r : RowPredicate(pred, r))

ComputeOverlays(req, ov, sort, pred) ==
  LET o1 == OverlaysFromChange(ov)
      o2 == IF IsSome(req.start)
            THEN OverlaysForStartAt(o1, The(req.start).row, sort, req.rev) ELSE o1
      o3 == IF IsSome(req.c) THEN OverlaysForConstraint(o2, The(req.c)) ELSE o2
  IN OverlaysForFilterPredicate(o3, pred)

(* The added row goes before the first row it sorts before, else at the end;  *)
(* the first row that sorts like the removed one is skipped.                  *)
OverlaySplice(rows, o, sort, reverse) ==
  LET later == IF IsSome(o.add)
               THEN {i \in DOMAIN rows :
                       CompareRowsRev(sort, reverse, The(o.add), rows[i]) < 0} ELSE {}
      same == IF IsSome(o.remove)
              THEN {i \in DOMAIN rows : CompareRows(sort, The(o.remove), rows[i]) = 0} ELSE {}
      at == IF later = {} THEN Len(rows) + 1 ELSE Min(later)
      keep(a, b) == SelectSeq([i \in 1..(b - a + 1) |-> a + i - 1],
                              LAMBDA i : same = {} \/ i # Min(same))
      pick(is) == [k \in DOMAIN is |-> rows[is[k]]]
  IN IF rows = <<>> THEN o.add
     ELSE pick(keep(1, at - 1)) \o o.add \o pick(keep(at, Len(rows)))

(* A connection sees the change in flight once the push has reached it. *)
GenerateWithOverlay(s, slot, req, rows, sort) ==
  LET gated == IF slot \in s.gate THEN s.ov ELSE None
  IN OverlaySplice(rows, ComputeOverlays(req, gated, sort, s.tb.conns[slot].pred),
                   sort, req.rev)

(* Everything from the first row at or after the start, by the sort of the    *)
(* connection; the start row itself when the basis is At.                     *)
GenerateWithStart(rows, start, sort, reverse) ==
  LET ord(i) == CompareRowsRev(sort, reverse, rows[i], The(start).row)
      started == {i \in DOMAIN rows : ord(i) > 0 \/ (The(start).at /\ ord(i) = 0)}
  IN IF ~IsSome(start) THEN rows
     ELSE IF started = {} THEN <<>>
     ELSE SubSeq(rows, Min(started), Len(rows))

(* Stops at the first row that misses the constraint. *)
GenerateWithConstraint(rows, constraint) ==
  IF IsSome(constraint)
  THEN TakeWhile(rows, LAMBDA r : ConstraintMatches(r, The(constraint))) ELSE rows

GenerateWithFilter(rows, pred) == SelectSeq(rows, LAMBDA r : RowPredicate(pred, r))

-----------------------------------------------------------------------------
(* Indexes. *)
PrimarySort(pk) == [i \in DOMAIN pk |-> <<pk[i], TRUE>>]

NewSource(pk, rows) ==
  [pk |-> pk, idx |-> (PrimarySort(pk) :> rows), tb |-> EmptyTable,
   ov |-> None, gate |-> {}]

SourceRows(s) == s.idx[PrimarySort(s.pk)]

IndexAdd(rows, sort, r) == {x \in rows : CompareRows(sort, x, r) # 0} \cup {r}

IndexDelete(rows, sort, r) == {x \in rows : CompareRows(sort, x, r) # 0}

(* Every index takes the change; an edit deletes and adds. *)
WriteChange(s, ch) ==
  [s EXCEPT !.idx = [sort \in DOMAIN s.idx |->
     CASE ch.t = "Add" -> IndexAdd(s.idx[sort], sort, ch.row)
       [] ch.t = "Remove" -> IndexDelete(s.idx[sort], sort, ch.row)
       [] ch.t = "Edit" -> IndexAdd(IndexDelete(s.idx[sort], sort, ch.old), sort, ch.row)]]

Exists(s, row) == \E r \in SourceRows(s) : CompareRows(PrimarySort(s.pk), r, row) = 0

(* An index is built from the primary one when first needed, and kept. *)
EnsureIndex(s, sort) ==
  IF sort \in DOMAIN s.idx THEN s
  ELSE [s EXCEPT !.idx = (sort :> SourceRows(s)) @@ @]

BoundMin == Absent - 1

BoundMax == 1000

(* Where the scan starts: the constrained columns at their value, the others  *)
(* at the near end.                                                           *)
BuildScanStart(c, sort, reverse) ==
  LET bound(i) == IF sort[i][1] \in ConstraintCols(c) THEN ConstraintValue(c, sort[i][1])
                  ELSE IF sort[i][2] = reverse THEN BoundMax ELSE BoundMin
  IN [col \in {sort[i][1] : i \in DOMAIN sort} |->
        bound(Min({i \in DOMAIN sort : sort[i][1] = col}))]

(* The index that serves a request: the constrained columns first, then the   *)
(* sort of the connection unless one row at most can match.                   *)
IndexSortFor(s, conn, constraint) ==
  LET c == IF IsSome(constraint) THEN The(constraint) ELSE <<>>
      single == IsSome(constraint) /\ Len(s.pk) = 1 /\ ConstraintMatchesPrimaryKey(c, s.pk)
  IN [i \in DOMAIN c |-> <<c[i][1], TRUE>>] \o IF single THEN <<>> ELSE conn.sort

(* The index cursor: inclusive, from the bound on. *)
ValuesFrom(rows, sort, bound, reverse) ==
  LET asc == SortedRows({r \in rows : ~IsSome(bound)
                           \/ (LET o == CompareRows(sort, r, The(bound))
                               IN IF reverse THEN o <= 0 ELSE o >= 0)}, sort)
  IN IF reverse THEN Reverse(asc) ELSE asc

FetchPlain(s0, slot, req) ==
  LET conn == s0.tb.conns[slot]
      seek == OrElse(conn.pk, req.c)
      sort == IndexSortFor(s0, conn, seek)
      s == EnsureIndex(s0, sort)
      bound == IF IsSome(seek) THEN Some(BuildScanStart(The(seek), sort, req.rev))
               ELSE IF IsSome(req.start) THEN Some(The(req.start).row) ELSE None
      scan == ValuesFrom(s.idx[sort], sort, bound, req.rev)
      spliced == GenerateWithOverlay(s, slot, req, scan, sort)
      started == GenerateWithStart(spliced, req.start, conn.sort, req.rev)
      held == GenerateWithConstraint(started, req.c)
  IN IF spliced = <<>> THEN [s |-> s, out |-> <<>>]
     ELSE [s |-> s, out |-> GenerateWithFilter(held, conn.pred)]

(* One fetch per entry of the first multi-constraint, merged; the rows must   *)
(* match some entry of each of the others.                                    *)
FetchMulti(s0, slot, req) ==
  LET multis == SelectSeq(req.multi, LAMBDA m : m # <<>>)
      base == IF IsSome(req.c) THEN The(req.c) ELSE <<>>
      sub(c) == FetchRequest(Some(MergeConstraints(base, c)), req.start, req.rev)
      all == FoldLeft(LAMBDA a, c : LET f == FetchPlain(a.s, slot, sub(c))
                                    IN [a EXCEPT !.s = f.s, !.streams = Append(@, f.out)],
                      [s |-> s0, streams |-> <<>>], multis[1])
      merged == MergeSortedStreams(all.streams, s0.tb.conns[slot].sort, req.rev)
  IN [s |-> all.s,
      out |-> SelectSeq(merged, LAMBDA r :
                \A i \in 2..Len(multis) :
                  \E j \in DOMAIN multis[i] : ConstraintMatches(r, multis[i][j]))]

SourceFetch(s, slot, req) ==
  IF HasMulti(req) THEN FetchMulti(s, slot, req) ELSE FetchPlain(s, slot, req)

-----------------------------------------------------------------------------
(* Pushing.  g is the graph, g.src[t] the source; PushOne(g, edge, change)    *)
(* delivers one change downstream and returns the graph it leaves.            *)
\* Mutant: an edit passes as such when either of its rows passes.
FilterPushEither(ch, pred) ==
  IF RowPredicate(pred, ch.row) \/ (ch.t = "Edit" /\ RowPredicate(pred, ch.old))
  THEN <<ch>> ELSE <<>>

FilterPush(ch, pred) ==
  IF ch.t # "Edit" THEN IF RowPredicate(pred, ch.row) THEN <<ch>> ELSE <<>>
  ELSE LET old == RowPredicate(pred, ch.old)
           new == RowPredicate(pred, ch.row)
       IN CASE old /\ new -> <<ch>>
            [] old /\ ~new -> <<SrcRemove(ch.old)>>
            [] ~old /\ new -> <<SrcAdd(ch.row)>>
            [] OTHER -> <<>>

(* The candidates in slot order: each first sees the change in flight, then   *)
(* receives what its filter leaves of it.                                     *)
GenPush(g, t, ch) ==
  LET deliver(a, slot) ==
        LET conn == a.src[t].tb.conns[slot]
            b == [a EXCEPT !.src[t].gate = @ \cup {slot}, !.src[t].ov = Some(ch)]
            kept == FilterPush(ch, conn.pred)
        IN IF ~IsSome(conn.out) THEN a
           ELSE IF IsSome(kept) THEN PushOne(b, The(conn.out), The(kept)) ELSE b
      done == FoldLeft(deliver, g, TableCandidates(g.src[t].tb, ch))
  IN [done EXCEPT !.src[t].ov = None, !.src[t].gate = {}]

(* The write follows the drain. *)
GenPushAndWrite(g, t, ch) ==
  LET drained == GenPush(g, t, ch)
  IN [drained EXCEPT !.src[t] = WriteChange(@, ch)]

ChangeExists(s, ch) ==
  IF ch.t = "Add" THEN ~Exists(s, ch.row)
  ELSE Exists(s, IF ch.t = "Edit" THEN ch.old ELSE ch.row)

(* Any change of a column some connection splits on, Null to Null included. *)
ShouldSplitEdit(s, ch) ==
  /\ ch.t = "Edit"
  /\ \E k \in SplitKeys(s.tb.index) : ~ValuesEqual(ch.row[k], ch.old[k])

(* The changes an incoming change is pushed and written as, in this order. *)
SplitEdit(s, ch) ==
  IF ShouldSplitEdit(s, ch) THEN <<SrcRemove(ch.old), SrcAdd(ch.row)>> ELSE <<ch>>

(* Each part is checked only in a strict graph; a refused one ends the push,  *)
(* the parts before it stay written.                                          *)
GenPushAndWriteWithSplitEdit(g, t, ch) ==
  LET one(a, c) ==
        IF a.g.strict /\ ~ChangeExists(a.g.src[t], c)
        THEN [a EXCEPT !.err = Some("ConsistencyViolation")]
        ELSE [a EXCEPT !.g = GenPushAndWrite(a.g, t, c)]
      parts == SplitEdit(g.src[t], ch)
      first == one([g |-> g, err |-> None], parts[1])
  IN IF Len(parts) = 1 \/ IsSome(first.err) THEN first ELSE one(first, parts[2])
=============================================================================
