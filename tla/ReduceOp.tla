------------------------------ MODULE ReduceOp ------------------------------
(* Reduce (op/reduce.rs): count, sum and avg, global or per group.  A reduce  *)
(* node has fields input, aggs (a sequence of <<kind, column>>), part (None   *)
(* if global, else the grouping columns), eager, outPk, outSort and out.  Its *)
(* state is [groups, ovf]: groups maps a key to [count, accs], ovf is how     *)
(* many stored groups hold a sum the output cannot represent.                 *)
EXTENDS Unions

(* The greatest sum that fits a cell, and the unit averages are written in    *)
(* (averages over at most six rows are whole numbers of it).                  *)
CONSTANTS SumMax, AvgUnit

AggCol(spec, row) == row[spec[2]]

IsFolded(spec) == spec[1] \in {"Sum", "Avg"}

NewAccs(op) == [i \in DOMAIN op.aggs |-> [sum |-> 0, nonNull |-> 0]]

(* A Null contributes nothing. *)
AccDelta(acc, v, sign) ==
  IF v = Null THEN acc ELSE [sum |-> acc.sum + sign * v, nonNull |-> acc.nonNull + sign]

AccApply(op, accs, row, sign) ==
  [i \in DOMAIN accs |-> IF IsFolded(op.aggs[i])
                         THEN AccDelta(accs[i], AggCol(op.aggs[i], row), sign) ELSE accs[i]]

(* The accumulator is wide; only the total that is emitted is bounded. *)
SumValue(a) == IF a.nonNull = 0 \/ a.sum > SumMax THEN Null ELSE a.sum

AvgValue(a) == IF a.nonNull = 0 THEN Null ELSE (a.sum * AvgUnit) \div a.nonNull

SumTotalOutOfRange(op, accs) ==
  \E i \in DOMAIN accs :
    op.aggs[i][1] = "Sum" /\ accs[i].nonNull > 0 /\ accs[i].sum > SumMax

AggRow(op, vals, count, accs) ==
  vals \o [i \in DOMAIN op.aggs |->
             CASE op.aggs[i][1] = "Count" -> count
               [] op.aggs[i][1] = "Sum" -> SumValue(accs[i])
               [] op.aggs[i][1] = "Avg" -> AvgValue(accs[i])]

GroupVals(op, row) == IF IsSome(op.part) THEN Project(row, The(op.part)) ELSE <<>>

GroupValsFromConstraint(c, k) ==
  [i \in 1..k |-> IF i \in ConstraintCols(c) THEN ConstraintValue(c, i) ELSE Null]

InputConstraint(op, vals) == [i \in DOMAIN vals |-> <<The(op.part)[i], vals[i]>>]

-----------------------------------------------------------------------------
ReadAt(g, n, key) ==
  LET gs == g.op[n].groups IN IF key \in DOMAIN gs THEN Some(gs[key]) ELSE None

(* The change of the overflow count when the state at a key is replaced. *)
TrackOverflow(g, n, key, after) ==
  LET out(st) == IsSome(st) /\ SumTotalOutOfRange(g.nodes[n], The(st).accs)
      was == out(ReadAt(g, n, key))
  IN CASE ~was /\ out(after) -> 1
       [] was /\ ~out(after) -> -1
       [] OTHER -> 0

WriteAt(g, n, key, count, accs) ==
  LET st == [count |-> count, accs |-> accs]
      delta == TrackOverflow(g, n, key, Some(st))
  IN [g EXCEPT !.op[n].groups = (key :> st) @@ @, !.op[n].ovf = @ + delta]

DelAt(g, n, key) ==
  LET delta == TrackOverflow(g, n, key, None)
  IN [g EXCEPT !.op[n].groups = DropKey(@, key), !.op[n].ovf = @ + delta]

FoldRows(op, nodes) ==
  FoldLeft(LAMBDA st, x : [count |-> st.count + 1, accs |-> AccApply(op, st.accs, x.row, 1)],
           [count |-> 0, accs |-> NewAccs(op)], nodes)

(* Serves the state at a key, folding it from the input the first time. *)
ServeOrFold(g, n, key, req) ==
  LET f == Fetch(g, g.nodes[n].input, req)
      st == FoldRows(g.nodes[n], f.out)
  IN IF IsSome(ReadAt(g, n, key)) THEN [g |-> g, st |-> The(ReadAt(g, n, key))]
     ELSE [g |-> WriteAt(f.g, n, key, st.count, st.accs), st |-> st]

ReduceFetchGlobal(g, n) ==
  LET r == ServeOrFold(g, n, <<>>, FetchAll)
  IN [g |-> r.g, out |-> <<Leaf(AggRow(g.nodes[n], <<>>, r.st.count, r.st.accs))>>]

(* An empty group is remembered and yields no row. *)
FetchOneGroup(g, n, vals) ==
  LET op == g.nodes[n]
      r == ServeOrFold(g, n, vals, WithConstraint(InputConstraint(op, vals)))
  IN [g |-> r.g,
      out |-> IF r.st.count > 0 THEN <<Leaf(AggRow(op, vals, r.st.count, r.st.accs))>> ELSE <<>>]

FetchAllGroups(g, n) ==
  LET op == g.nodes[n]
      f == Fetch(g, op.input, FetchAll)
      keys == {GroupVals(op, f.out[i].row) : i \in DOMAIN f.out}
      group(k) == FoldRows(op, SelectSeq(f.out, LAMBDA x : GroupVals(op, x.row) = k))
      order == SetToSeq(keys)
      done == FoldLeft(LAMBDA a, k : WriteAt(a, n, k, group(k).count, group(k).accs), f.g, order)
      rows == {AggRow(op, k, group(k).count, group(k).accs) : k \in keys}
      sorted == SortedRows(rows, op.outSort)
  IN [g |-> done, out |-> [i \in DOMAIN sorted |-> Leaf(sorted[i])]]

ReduceFetch(g, n, req) ==
  LET op == g.nodes[n]
      k == Len(The(op.part))
  IN IF ~IsSome(op.part) THEN ReduceFetchGlobal(g, n)
     ELSE IF /\ ~op.eager /\ IsSome(req.c)
             /\ ConstraintMatchesPartitionKey(The(req.c), [i \in 1..k |-> i])
     THEN FetchOneGroup(g, n, GroupValsFromConstraint(The(req.c), k))
     ELSE FetchAllGroups(g, n)

-----------------------------------------------------------------------------
EmitEdit(g, n, new, old) ==
  IF new = old THEN g ELSE Forward(g, n, EditCh(Leaf(new), Leaf(old)))

(* The accumulators and the count after a change. *)
Shifted(op, st, ch) ==
  CASE ch.t = "Add" -> [count |-> st.count + 1, accs |-> AccApply(op, st.accs, ch.node.row, 1)]
    [] ch.t = "Remove" -> [count |-> st.count - 1, accs |-> AccApply(op, st.accs, ch.node.row, -1)]
    [] ch.t = "Edit" -> [count |-> st.count,
                         accs |-> AccApply(op, AccApply(op, st.accs, ch.old.row, -1),
                                           ch.node.row, 1)]

(* The one row of a global aggregate is never added or removed. *)
PushGlobal(g, n, ch) ==
  LET op == g.nodes[n]
      st == The(ReadAt(g, n, <<>>))
      new == Shifted(op, st, ch)
  IN IF ~IsSome(ReadAt(g, n, <<>>)) \/ ch.t = "Child" THEN g
     ELSE EmitEdit(WriteAt(g, n, <<>>, new.count, new.accs), n,
                   AggRow(op, <<>>, new.count, new.accs), AggRow(op, <<>>, st.count, st.accs))

(* An eager group without state is born by an Add; a lazy one is folded when  *)
(* it is next fetched.                                                        *)
GroupedBirth(g, n, row, delta) ==
  LET op == g.nodes[n]
      key == GroupVals(op, row)
      accs == AccApply(op, NewAccs(op), row, 1)
  IN IF op.eager /\ delta > 0
     THEN Forward(WriteAt(g, n, key, delta, accs), n,
                  AddCh(Leaf(AggRow(op, key, delta, accs))))
     ELSE g

(* Birth, change or death of a group that has state.  A dead lazy group keeps *)
(* its slot so that the next Add is a birth.                                  *)
GroupedDelta(g, n, row, delta) ==
  LET op == g.nodes[n]
      key == GroupVals(op, row)
      st == The(ReadAt(g, n, key))
      count == IF st.count + delta > 0 THEN st.count + delta ELSE 0
      accs == AccApply(op, st.accs, row, delta)
      written == WriteAt(g, n, key, count, accs)
      before == AggRow(op, key, st.count, st.accs)
      after == AggRow(op, key, count, accs)
  IN IF ~IsSome(ReadAt(g, n, key)) THEN GroupedBirth(g, n, row, delta)
     ELSE CASE st.count <= 0 /\ count > 0 -> Forward(written, n, AddCh(Leaf(after)))
            [] st.count > 0 /\ count > 0 -> EmitEdit(written, n, after, before)
            [] st.count > 0 /\ count <= 0 ->
                 Forward(IF op.eager THEN DelAt(g, n, key) ELSE written, n,
                         RemoveCh(Leaf(before)))
            [] OTHER -> written

GroupedEdit(g, n, ch) ==
  LET op == g.nodes[n]
      key == GroupVals(op, ch.node.row)
      st == The(ReadAt(g, n, key))
      new == Shifted(op, st, ch)
  IN IF ~IsSome(ReadAt(g, n, key)) THEN g
     ELSE EmitEdit(WriteAt(g, n, key, new.count, new.accs), n,
                   AggRow(op, key, new.count, new.accs), AggRow(op, key, st.count, st.accs))

ReducePush(g, n, ch) ==
  CASE ~IsSome(g.nodes[n].part) -> PushGlobal(g, n, ch)
    [] IsSome(g.nodes[n].part) /\ ch.t = "Add" -> GroupedDelta(g, n, ch.node.row, 1)
    [] IsSome(g.nodes[n].part) /\ ch.t = "Remove" -> GroupedDelta(g, n, ch.node.row, -1)
    [] IsSome(g.nodes[n].part) /\ ch.t = "Edit" -> GroupedEdit(g, n, ch)
    [] OTHER -> g
=============================================================================
