------------------------------ MODULE Builder ------------------------------
(* From a query to a pipeline of operators (builder.rs), and the arena the    *)
(* operators live in (graph.rs).  The graph record g has besides the fields   *)
(* of Changes                                                                 *)
(*   tables  per table its [width, pk, int64]    gens  a generation per slot  *)
(*   free    the free slots, last in first out   rec   the ids since the      *)
(*                                                     recording began        *)
(* Sources are kept by table name, outside the arena.  The state of a         *)
(* stateful operator sits beside it in op: one slot stands for the operator   *)
(* and for its storage.  A build step yields [g, bad, head, end]: the graph,  *)
(* the build error if any, the edge that feeds what was built and its last    *)
(* operator.                                                                  *)
EXTENDS QueryAst, ReduceOp

(* How many parent constraints a flipped join sends in one fetch. *)
CONSTANT ChunkSize

Edge(n, port) == [node |-> n, port |-> port]

Unwired == Edge(0, "single")

Built(g, n) == [g |-> g, bad |-> None, head |-> Unwired, end |-> n]

Failed(g, why) == [g |-> g, bad |-> Some(why), head |-> Unwired, end |-> 0]

(* The `?` of the code: a failed step ends the build where it stands. *)
Then(r, F(_)) == IF IsSome(r.bad) THEN r ELSE F(r)

ThenEach(r, s, F(_, _)) ==
  IF IsSome(r.bad) \/ s = <<>> THEN r ELSE FoldLeft(LAMBDA a, x : Then(a, LAMBDA b : F(b, x)), r, s)

-----------------------------------------------------------------------------
(* The arena. *)
AddNode(g, op, st) ==
  LET reuse == g.free # <<>>
      slot == IF reuse THEN Last(g.free) ELSE Len(g.nodes) + 1
      h == IF reuse THEN [g EXCEPT !.nodes[slot] = op, !.op[slot] = st, !.free = Front(@)]
           ELSE [g EXCEPT !.nodes = Append(@, op), !.op = Append(@, st), !.gens = Append(@, 0)]
  IN Built([h EXCEPT !.rec = Append(@, [idx |-> slot, gen |-> h.gens[slot]])], slot)

Stateless == [k |-> "none"]

BeginRecording(g) == [g EXCEPT !.rec = <<>>]

Connect(g, t, sort, filters, split) ==
  LET tb == g.src[t].tb
      id == ConnIdAt(tb, NextSlot(tb))
      conn == [sort |-> sort, pred |-> filters.pred, pk |-> None, guard |-> filters.guard,
               split |-> split, out |-> None]
  IN AddNode([g EXCEPT !.src[t].tb = TableConnect(tb, conn)],
             [k |-> "conn", t |-> t, slot |-> id.idx, gen |-> id.gen], Stateless)

(* A connection's edge is kept by its source. *)
SetOutEdge(g, n, edge) ==
  LET op == g.nodes[n]
  IN IF op.k = "conn"
     THEN [g EXCEPT !.src[op.t].tb = SetConnOutput(@, [idx |-> op.slot, gen |-> op.gen], edge)]
     ELSE [g EXCEPT !.nodes[n].out = edge]

(* The links of a filter chain name the next link, the others an edge. *)
SetOutput(g, n, m) ==
  CASE g.nodes[n].k \in {"filter", "exists"} -> [g EXCEPT !.nodes[n].next = m]
    [] g.nodes[n].k = "fanin" -> [g EXCEPT !.nodes[n].next = Some(m)]
    [] OTHER -> [g EXCEPT !.nodes[n].out = Edge(m, "single")]

WireSingle(g, n, m) ==
  IF g.nodes[n].k = "conn" THEN SetOutEdge(g, n, Edge(m, "single")) ELSE SetOutput(g, n, m)

\* Mutant: the connections stay with their sources.
DestroyPipelineConnected(g, manifest) ==
  LET drop(a, id) ==
        IF a.gens[id.idx] # id.gen THEN Panic(a, "destroy_pipeline: stale id")
        ELSE [a EXCEPT !.nodes[id.idx] = [k |-> "free"], !.op[id.idx] = Stateless,
                       !.gens[id.idx] = @ + 1, !.free = Append(@, id.idx)]
  IN FoldLeft(drop, g, manifest)

(* Tears a pipeline down: its connections first, then its slots.  A slot of   *)
(* another generation is a double free.                                       *)
DestroyPipeline(g, manifest) ==
  LET cut(a, id) ==
        LET op == a.nodes[id.idx]
        IN IF op.k # "conn" THEN a
           ELSE [a EXCEPT !.src[op.t].tb = TableDestroy(@, [idx |-> op.slot, gen |-> op.gen])]
      drop(a, id) ==
        IF a.gens[id.idx] # id.gen THEN Panic(a, "destroy_pipeline: stale id")
        ELSE [a EXCEPT !.nodes[id.idx] = [k |-> "free"], !.op[id.idx] = Stateless,
                       !.gens[id.idx] = @ + 1, !.free = Append(@, id.idx)]
  IN FoldLeft(drop, FoldLeft(cut, g, manifest), manifest)

-----------------------------------------------------------------------------
(* One operator each, not yet wired to its output. *)
AddJoinSlot(g, parent, child, pkey, ckey, rel) ==
  AddNode(g, [k |-> "join", parent |-> parent, child |-> child, pkey |-> pkey, ckey |-> ckey,
              rel |-> rel, out |-> Unwired], [ov |-> None, pos |-> None])

AddFlippedJoinSlot(g, parent, child, pkey, ckey, rel) ==
  AddNode(g, [k |-> "fjoin", parent |-> parent, child |-> child, pkey |-> pkey, ckey |-> ckey,
              rel |-> rel, chunk |-> ChunkSize, out |-> Unwired], Stateless)

AddSkip(g, input, bound) ==
  AddNode(g, [k |-> "skip", input |-> input, bound |-> bound, out |-> Unwired], Stateless)

AddTake(g, input, limit, part, sort) ==
  AddNode(g, [k |-> "take", input |-> input, limit |-> limit, part |-> part, sort |-> sort,
              out |-> Unwired], [parts |-> <<>>, max |-> None, hidden |-> None])

AddCap(g, input, limit, part, pk) ==
  AddNode(g, [k |-> "cap", input |-> input, limit |-> limit, part |-> part, pk |-> pk,
              out |-> Unwired], [parts |-> <<>>])

(* The output row is the group followed by the aggregate, keyed by the group. *)
AddReduce(g, input, spec, part, eager) ==
  LET k == IF IsSome(part) THEN Len(The(part)) ELSE 0
  IN AddNode(g, [k |-> "reduce", input |-> input, aggs |-> <<spec>>, part |-> part,
                 eager |-> eager, outPk |-> [i \in 1..k |-> i],
                 outSort |-> [i \in 1..k |-> <<i, TRUE>>], out |-> Unwired],
             [groups |-> <<>>, ovf |-> 0])

(* A gate keyed by the primary key has no size to share between parents. *)
AddExists(g, csq, slot, pk) ==
  AddNode(g, [k |-> "exists", rel |-> slot, key |-> csq.rel.pf, not |-> csq.not,
              noSizeReuse |-> csq.rel.pf = pk, next |-> 0], [inPush |-> FALSE, cache |-> <<>>])

AddFilter(g, pred) == AddNode(g, [k |-> "filter", pred |-> pred, next |-> 0], Stateless)

AddFilterStart(g, input) == AddNode(g, [k |-> "fstart", input |-> input, head |-> 0], Stateless)

AddFilterEnd(g, start) == AddNode(g, [k |-> "fend", start |-> start, out |-> Unwired], Stateless)

SetChainHead(g, fs, head) == [g EXCEPT !.nodes[fs].head = head]

-----------------------------------------------------------------------------
(* A frame is what a condition is resolved against: [width, pk, slots, sort]. *)
ResolvedCols(cols, width) == \A i \in DOMAIN cols : cols[i] \in 1..width

RelSlot(frame, rel) ==
  IF IsSome(rel.sub.alias) /\ The(rel.sub.alias) \in Range(frame.slots)
  THEN Some(CHOOSE i \in DOMAIN frame.slots : frame.slots[i] = The(rel.sub.alias)) ELSE None

(* A gate over a subquery of no rows is a constant. *)
ApplyCsqCondition(g, csq, frame) ==
  LET slot == RelSlot(frame, csq.rel)
  IN CASE LimitZero(csq) -> AddFilter(g, Const(csq.not))
       [] ~LimitZero(csq) /\ ~IsSome(slot) -> Failed(g, "no relationship slot")
       [] ~LimitZero(csq) /\ IsSome(slot) /\ ~ResolvedCols(csq.rel.pf, frame.width) ->
            Failed(g, "unknown column")
       [] OTHER -> AddExists(g, csq, The(slot), frame.pk)

(* A condition as links of a filter chain: head.node is the first link, end   *)
(* the last.  A single link is both.                                          *)
Link(r) == [r EXCEPT !.head = Edge(r.end, "single")]

RECURSIVE ApplyFilter(_, _, _)
ApplyFilter(g, cond, frame) ==
  LET conds == cond.conds
      pred == CreatePredicate(cond, frame.width)
      series(a, c) ==
        Then(ApplyFilter(a.g, c, frame),
             LAMBDA b : IF a.end = 0 THEN b
                        ELSE [b EXCEPT !.g = SetOutput(b.g, a.end, b.head.node), !.head = a.head])
      fo == AddNode(g, [k |-> "fanout", branches |-> <<>>, fanin |-> 0], Stateless)
      fi == AddNode(fo.g, [k |-> "fanin", next |-> None], Stateless)
      branch(a, c) ==
        Then(ApplyFilter(a.g, c, frame),
             LAMBDA b : [a EXCEPT !.g = [SetOutput(b.g, b.end, fi.end) EXCEPT
                                           !.nodes[fo.end].branches = Append(@, b.head.node)]])
      fan == ThenEach(Built([fi.g EXCEPT !.nodes[fo.end].fanin = fi.end], fi.end), conds, branch)
  IN CASE cond.k = "simple" ->
            IF pred.k = "Bad" THEN Failed(g, pred.why) ELSE Link(AddFilter(g, pred))
       [] cond.k = "csq" -> Then(ApplyCsqCondition(g, cond, frame), Link)
       [] cond.k = "and" -> IF conds = <<>> THEN Link(AddFilter(g, Const(TRUE)))
                            ELSE ThenEach(Built(g, 0), conds, series)
       [] cond.k = "or" -> IF conds = <<>> THEN Link(AddFilter(g, Const(FALSE)))
                           ELSE Then(fan, LAMBDA r : [r EXCEPT !.head = Edge(fo.end, "single")])

(* The chain between a FilterStart over input and a FilterEnd. *)
BuildFilterBranch(g, input, cond, frame) ==
  LET fs == AddFilterStart(g, input)
  IN Then(ApplyFilter(fs.g, cond, frame),
          LAMBDA c :
            LET fe == AddFilterEnd(c.g, fs.end)
            IN [fe EXCEPT !.g = SetOutput(SetChainHead(fe.g, fs.end, c.head.node), c.end, fe.end),
                          !.head = Edge(fs.end, "single")])

BuildFilterPipeline(g, input, cond, frame) ==
  Then(BuildFilterBranch(g, input, cond, frame),
       LAMBDA r : [r EXCEPT !.g = SetOutEdge(r.g, input, r.head)])

(* The gates alone, when the source applied everything else. *)
ApplyWhereExists(g, end, csqs, frame) ==
  LET fs == AddFilterStart(g, end)
      fe == AddFilterEnd(fs.g, fs.end)
      link(a, csq) ==
        Then(ApplyCsqCondition(a.g, csq, frame),
             LAMBDA c : [c EXCEPT !.g = IF a.end = 0 THEN SetChainHead(c.g, fs.end, c.end)
                                        ELSE SetOutput(c.g, a.end, c.end)])
  IN Then(ThenEach(Built(fe.g, 0), csqs, link),
          LAMBDA c : Built(SetOutEdge(SetOutput(c.g, c.end, fe.end), end, Edge(fs.end, "single")),
                           fe.end))

-----------------------------------------------------------------------------
(* The frame of a query over its own table. *)
FrameOf(g, ast) ==
  LET t == g.tables[ast.table]
  IN [width |-> t.width, pk |-> t.pk, slots |-> QueryLocalSlotNames(ast),
      sort |-> ResolveSort(ast.order, t.pk)]

(* The correlation keys must exist, and pair up. *)
BadCorrelation(g, rel, frame) ==
  \/ ~ResolvedCols(rel.pf, frame.width)
  \/ ~ResolvedCols(rel.cf, g.tables[rel.sub.table].width)
  \/ rel.pf = <<>>
  \/ Len(rel.pf) # Len(rel.cf)

BadSpec(agg, width) == agg[1] # "Count" /\ agg[2] \notin 1..width

(* A bound that names some columns; the others are Null. *)
LowerStart(start, width) ==
  LET named(c) == {i \in DOMAIN start.row : start.row[i][1] = c}
  IN [row |-> [c \in 1..width |-> IF named(c) = {} THEN Null ELSE start.row[Max(named(c))][2]],
      at |-> ~start.exclusive]

(* An EXISTS child needs only a count: an unordered Cap does, unless its own  *)
(* condition merges streams in order.                                         *)
LowerLimit(g, input, limit, part, cap, frame) ==
  LET cols == IF IsSome(part) THEN The(part) ELSE <<>>
      r == IF cap THEN AddCap(g, input, limit, cols, frame.pk)
           ELSE AddTake(g, input, limit, cols, frame.sort)
  IN IF ~ResolvedCols(cols, frame.width) THEN Failed(g, "unknown column")
     ELSE [r EXCEPT !.g = WireSingle(r.g, input, r.end)]

(* The spine: a query as the child of a correlation, if part is its fields,   *)
(* and as the child of a gate if existsChild.                                 *)
RECURSIVE BuildPipelineInternal(_, _, _, _)

(* The join of a relationship and its child.  An aggregate folds the child    *)
(* per group and is joined on the group.                                      *)
ApplyRelated(g, parent, rel, frame, existsChild) ==
  LET slot == RelSlot(frame, rel)
      agg == IsSome(rel.sub.agg) /\ ~rel.sub.pre
      join(r, child, ckey) ==
        LET j == AddJoinSlot(r.g, parent, child, rel.pf, ckey, The(slot))
        IN [j EXCEPT !.g = SetOutEdge(SetOutEdge(j.g, parent, Edge(j.end, "parent")),
                                      child, Edge(j.end, "child"))]
      fold(c) ==
        LET r == AddReduce(c.g, c.end, The(rel.sub.agg), Some(rel.cf), FALSE)
        IN [r EXCEPT !.g = SetOutEdge(r.g, c.end, Edge(r.end, "single"))]
  IN IF ~IsSome(slot) THEN Failed(g, "no relationship slot")
     ELSE Then(BuildPipelineInternal(g, rel.sub, Some(rel.cf), existsChild),
               LAMBDA c :
                 CASE BadCorrelation(c.g, rel, frame) -> Failed(c.g, "bad correlation")
                   [] agg /\ rel.sub.related # <<>> -> Failed(c.g, "aggregate with nested related")
                   [] agg /\ BadSpec(The(rel.sub.agg), c.g.tables[rel.sub.table].width) ->
                        Failed(c.g, "unknown column")
                   [] agg -> LET f == fold(c) IN join(f, f.end, [i \in DOMAIN rel.cf |-> i])
                   [] OTHER -> join(c, c.end, rel.cf))

(* The child of a gate is bounded by a constant, whatever limit was asked. *)
ApplyExistsJoin(g, parent, csq, frame) ==
  LET limit == IF csq.rel.perm THEN PermissionsExistsLimit ELSE ExistsLimit
  IN IF IsSome(csq.rel.sub.start) \/ csq.rel.sub.related # <<>>
     THEN Failed(g, "EXISTS with start or related")
     ELSE ApplyRelated(g, parent, [csq.rel EXCEPT !.sub.limit = Some(limit)], frame, TRUE)

(* A having over the count that a childless parent would satisfy cannot be    *)
(* decided: there is no group to read a zero from.                            *)
CountZeroSatisfiable(having, width) ==
  \/ having.k # "simple"
  \/ having.left # <<"col", width>>
  \/ having.right[1] # "lit"
  \/ having.op \notin {"Eq", "Ne", "Lt", "Le", "Gt", "Ge"}
  \/ Eval(LowerOp(having.op, 1, having.right), <<0>>)

(* A parent filtered by the count of its children: all children are folded,   *)
(* the groups filtered, and what is left is what the gate counts.             *)
ApplyAggExistsJoin(g, parent, csq, frame) ==
  LET rel == csq.rel
      sub == rel.sub
      slot == RelSlot(frame, rel)
      k == Len(rel.cf)
      fold(c) ==
        LET r == AddReduce(c.g, c.end, <<"Count", 0>>, Some(rel.cf), FALSE)
        IN [r EXCEPT !.g = SetOutEdge(r.g, c.end, Edge(r.end, "single"))]
      gate(r) ==
        CASE ~IsSome(sub.having) -> r
          [] IsSome(sub.having) /\ (\/ GatherCsqs(The(sub.having)) # <<>>
                                    \/ CountZeroSatisfiable(The(sub.having), k + 1)) ->
               Failed(r.g, "unsupported having")
          [] OTHER -> BuildFilterPipeline(r.g, r.end, The(sub.having),
                                          [frame EXCEPT !.width = k + 1, !.slots = <<>>])
      join(r) ==
        LET j == AddJoinSlot(r.g, parent, r.end, rel.pf, [i \in 1..k |-> i], The(slot))
        IN [j EXCEPT !.g = SetOutEdge(SetOutEdge(j.g, parent, Edge(j.end, "parent")),
                                      r.end, Edge(j.end, "child"))]
  IN IF \/ The(sub.agg)[1] # "Count" \/ csq.not
        \/ sub.related # <<>> \/ IsSome(sub.start) \/ IsSome(sub.limit) \/ sub.order # <<>>
     THEN Failed(g, "unsupported aggregate gate")
     ELSE IF ~IsSome(slot) THEN Failed(g, "no relationship slot")
     ELSE Then(BuildPipelineInternal(g, sub, Some(rel.cf), FALSE),
               LAMBDA c : IF BadCorrelation(c.g, rel, frame) THEN Failed(c.g, "bad correlation")
                          ELSE Then(gate(fold(c)), join))

(* Wired to its child; whoever asked wires the parent. *)
BuildFlippedJoin(g, parent, csq, frame) ==
  LET rel == csq.rel
      slot == RelSlot(frame, rel)
  IN IF ~IsSome(slot) THEN Failed(g, "no relationship slot")
     ELSE Then(BuildPipelineInternal(g, rel.sub, Some(rel.cf), FALSE),
               LAMBDA c :
                 LET f == AddFlippedJoinSlot(c.g, parent, c.end, rel.pf, rel.cf, The(slot))
                 IN IF BadCorrelation(c.g, rel, frame) THEN Failed(c.g, "bad correlation")
                    ELSE [f EXCEPT !.g = SetOutEdge(f.g, c.end, Edge(f.end, "child"))])

-----------------------------------------------------------------------------
(* Conditions with a flipped EXISTS: head is the edge the caller must feed.   *)
RECURSIVE ApplyWhereWithFlips(_, _, _, _)

Flipped(conds) == SelectSeq(conds, ConditionHasFlippedSubquery)

FlipFree(conds) == SelectSeq(conds, LAMBDA c : ~ConditionHasFlippedSubquery(c))

(* OR: what has no flip is one filter branch, and comes first; every other    *)
(* part is a branch of its own.  The fan-in merges them in the frame's order. *)
ApplyFlipsOr(g, input, conds, frame) ==
  LET ufo == AddNode(g, [k |-> "ufo", input |-> input, branches |-> <<>>, fanin |-> 0], Stateless)
      parts == (IF FlipFree(conds) = <<>> THEN <<>> ELSE <<OrOf(FlipFree(conds))>>) \o Flipped(conds)
      branch(a, c) ==
        Then(IF ConditionHasFlippedSubquery(c) THEN ApplyWhereWithFlips(a.g, ufo.end, c, frame)
             ELSE BuildFilterBranch(a.g, ufo.end, c, frame),
             LAMBDA b : [a EXCEPT !.g = b.g, !.edges = Append(@, b.head), !.tails = Append(@, b.end)])
      built == ThenEach([g |-> ufo.g, bad |-> None, edges |-> <<>>, tails |-> <<>>], parts, branch)
      ufi == AddNode(built.g, [k |-> "ufi", inputs |-> built.tails,
                               constraints |-> [i \in DOMAIN parts |->
                                                  PushableConstraint(parts[i], frame.width)],
                               pk |-> frame.pk, sort |-> frame.sort,
                               rels |-> [i \in DOMAIN frame.slots |-> i], out |-> Unwired],
                     [acc |-> <<>>])
      wired == FoldLeft(LAMBDA h, tail : SetOutput(h, tail, ufi.end), ufi.g, built.tails)
  IN IF IsSome(built.bad) THEN Failed(built.g, The(built.bad))
     ELSE [ufi EXCEPT !.g = [wired EXCEPT !.nodes[ufo.end].branches = built.edges,
                                          !.nodes[ufo.end].fanin = ufi.end],
                      !.head = Edge(ufo.end, "single")]

(* AND: what has no flip is one filter pipeline at the bottom, the other      *)
(* parts are stacked on it.                                                   *)
ApplyFlipsAnd(g, input, conds, frame) ==
  LET bottom == IF FlipFree(conds) = <<>> THEN Built(g, input)
                ELSE BuildFilterBranch(g, input, AndOf(FlipFree(conds)), frame)
      stack(a, c) ==
        Then(ApplyWhereWithFlips(a.g, a.end, c, frame),
             LAMBDA b : IF a.head = Unwired THEN b
                        ELSE [b EXCEPT !.g = SetOutEdge(b.g, a.end, b.head), !.head = a.head])
  IN ThenEach(bottom, Flipped(conds), stack)

ApplyWhereWithFlips(g, input, cond, frame) ==
  CASE cond.k = "or" -> ApplyFlipsOr(g, input, cond.conds, frame)
    [] cond.k = "and" -> ApplyFlipsAnd(g, input, cond.conds, frame)
    [] cond.k = "csq" ->
         IF cond.not THEN Failed(g, "flipped NOT EXISTS is not lowered")
         ELSE Then(BuildFlippedJoin(g, input, cond, frame),
                   LAMBDA f : [f EXCEPT !.head = Edge(f.end, "parent")])

-----------------------------------------------------------------------------
(* The connection with its filters, and the Skip over it. *)
BuildLeaf(g, ast, part, frame, csqs) ==
  LET split == ComputeSplitEditKeys(part, ast.related, csqs)
      sorted == {ast.order[i][1] : i \in DOMAIN ast.order}
      needed == IF IsSome(ast.select) THEN RequiredCols(ast, frame.sort, split) ELSE {}
      filters == BuildConnectionFilters(ast.where, IF IsSome(ast.select) THEN Some(needed) ELSE None,
                                        frame.width)
      conn == Connect(g, ast.table, frame.sort, filters, split)
      start == The(ast.start)
      skip == AddSkip(conn.g, conn.end, LowerStart(start, frame.width))
  IN IF ~(sorted \cup split \cup needed \subseteq 1..frame.width) THEN Failed(g, "unknown column")
     ELSE IF filters.pred.k = "Bad" THEN Failed(g, filters.pred.why)
     ELSE IF ~IsSome(ast.start) THEN conn
     ELSE IF \E i \in DOMAIN start.row : start.row[i][1] \notin 1..frame.width
     THEN Failed(conn.g, "unknown column")
     ELSE [skip EXCEPT !.g = SetOutEdge(skip.g, conn.end, Edge(skip.end, "single"))]

(* The joins of the gates that are not flipped, whatever the condition is. *)
ApplyGateJoins(r, csqs, frame) ==
  ThenEach(r, SelectSeq(csqs, LAMBDA c : ~c.flip /\ ~LimitZero(c)),
           LAMBDA a, c : IF IsSome(c.rel.sub.agg) THEN ApplyAggExistsJoin(a.g, a.end, c, frame)
                         ELSE ApplyExistsJoin(a.g, a.end, c, frame))

(* What of the condition the source has not applied. *)
ApplyWhere(r, where, csqs, fully, frame) ==
  LET plain == SelectSeq(csqs, LAMBDA c : ~c.flip)
  IN CASE ~IsSome(where) -> r
       [] IsSome(where) /\ ConditionHasFlippedSubquery(The(where)) ->
            Then(ApplyWhereWithFlips(r.g, r.end, The(where), frame),
                 LAMBDA b : [b EXCEPT !.g = SetOutEdge(b.g, r.end, b.head)])
       [] IsSome(where) /\ ~ConditionHasFlippedSubquery(The(where)) ->
            CASE HasSubqueryUnderOr(The(where), FALSE) ->
                   BuildFilterPipeline(r.g, r.end, The(where), frame)
              [] ~HasSubqueryUnderOr(The(where), FALSE) /\ ~fully /\ plain # <<>> ->
                   ApplyWhereExists(r.g, r.end, plain, frame)
              [] OTHER -> r

BuildPipelineInternal(g, raw, part, existsChild) ==
  LET ast == NormalizePipelineAst(raw)
      csqs == GatherCsqConditions(ast.where)
      frame == FrameOf(g, ast)
      flips == IsSome(ast.where) /\ ConditionHasFlippedSubquery(The(ast.where))
      fully == ~IsSome(ast.where) \/ ~TransformFilters(The(ast.where)).removed
      leaf == BuildLeaf(g, ast, part, frame, csqs)
      gated == Then(leaf, LAMBDA r : ApplyGateJoins(r, csqs, frame))
      kept == Then(gated, LAMBDA r : ApplyWhere(r, ast.where, csqs, fully, frame))
      cut == Then(kept, LAMBDA r :
               IF ~IsSome(ast.limit) THEN r
               ELSE LowerLimit(r.g, r.end, The(ast.limit), part, existsChild /\ ~flips, frame))
  IN IF ast.table \notin DOMAIN g.tables THEN Failed(g, "unknown table")
     ELSE IF AliasCollision(ast) THEN Failed(g, "alias collision")
     ELSE ThenEach(cut, DedupRelatedByAlias(ast.related),
                   LAMBDA a, rel : ApplyRelated(a.g, a.end, rel, frame, FALSE))

(* An aggregate at the root: the source, the reduce over it, and a filter of  *)
(* the groups.                                                                *)
BuildAggregatePipeline(g, raw) ==
  LET ast == NormalizePipelineAst(raw)
      t == g.tables[ast.table]
      k == Len(ast.groupBy)
      filters == BuildConnectionFilters(ast.where, None, t.width)
      conn == Connect(g, ast.table, ResolveSort(<<>>, t.pk), filters, Range(ast.groupBy))
      red == AddReduce(conn.g, conn.end, The(ast.agg),
                       IF k = 0 THEN None ELSE Some(ast.groupBy), TRUE)
      wired == [red EXCEPT !.g = SetOutEdge(red.g, conn.end, Edge(red.end, "single"))]
      frame == [width |-> k + 1, pk |-> [i \in 1..k |-> i], slots |-> <<>>,
                sort |-> [i \in 1..k |-> <<i, TRUE>>]]
  IN CASE \/ ast.related # <<>> \/ IsSome(ast.select) \/ ast.one
          \/ ast.order # <<>> \/ IsSome(ast.limit) \/ IsSome(ast.start)
          \/ GatherCsqConditions(ast.where) # <<>> -> Failed(g, "unsupported aggregate")
       [] ast.table \notin DOMAIN g.tables -> Failed(g, "unknown table")
       [] ~ResolvedCols(ast.groupBy, t.width) \/ BadSpec(The(ast.agg), t.width) ->
            Failed(g, "unknown column")
       [] filters.pred.k = "Bad" -> Failed(g, filters.pred.why)
       [] OTHER ->
            CASE ~IsSome(ast.having) -> wired
              [] IsSome(ast.having) /\ GatherCsqs(The(ast.having)) # <<>> ->
                   Failed(wired.g, "subquery in having")
              [] OTHER -> BuildFilterPipeline(wired.g, wired.end, The(ast.having), frame)

BuildPipeline(g, ast) ==
  IF RejectInt64Footprint(g.tables, ast, <<>>) THEN Failed(g, "int64 column in a synced query")
  ELSE IF IsSome(ast.agg) THEN BuildAggregatePipeline(g, ast)
  ELSE BuildPipelineInternal(g, ast, None, FALSE)

-----------------------------------------------------------------------------
(* The shape of the result: [sort, rels, pk, project], or a failed build.  A  *)
(* slot is in the view when a relationship of this frame has its alias.       *)
AggregateViewSchema(ast) ==
  LET k == Len(ast.groupBy)
  IN [sort |-> [i \in 1..k |-> <<i, TRUE>>], rels |-> <<>>, pk |-> [i \in 1..k |-> i],
      select |-> None]

AggRelationshipSchema(rel) ==
  [sort |-> [i \in DOMAIN rel.cf |-> <<i, TRUE>>], rels |-> <<>>,
   pk |-> [i \in DOMAIN rel.cf |-> i], select |-> None]

RECURSIVE ViewSchema(_, _)
ViewSchema(tables, raw) ==
  LET ast == NormalizePipelineAst(raw)
      slots == QueryLocalSlotNames(ast)
      last(alias) == {i \in DOMAIN ast.related : ast.related[i].sub.alias = Some(alias)}
      rel(alias) == ast.related[Max(last(alias))]
      child(alias) == IF IsSome(rel(alias).sub.agg) THEN AggRelationshipSchema(rel(alias))
                      ELSE ViewSchema(tables, rel(alias).sub)
  IN IF IsSome(ast.agg) THEN AggregateViewSchema(ast)
     ELSE [sort |-> ResolveSort(ast.order, tables[ast.table].pk),
           rels |-> [s \in DOMAIN slots |->
                       IF last(slots[s]) = {} THEN None ELSE Some(child(slots[s]))],
           pk |-> tables[ast.table].pk, select |-> ast.select]

(* All else the schema resolves, the build resolved before; the column of a   *)
(* precomputed aggregate only the schema looks up.                            *)
RECURSIVE ViewSchemaFails(_, _)
ViewSchemaFails(tables, raw) ==
  LET ast == NormalizePipelineAst(raw)
      rels == DedupRelatedByAlias(ast.related)
  IN \E i \in DOMAIN rels :
       IF IsSome(rels[i].sub.agg) THEN BadSpec(The(rels[i].sub.agg), tables[rels[i].sub.table].width)
       ELSE ViewSchemaFails(tables, rels[i].sub)
=============================================================================
