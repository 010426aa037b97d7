------------------------------ MODULE Dataflow ------------------------------
(* The operator graph at work (graph.rs): fetches and pushes are dispatched   *)
(* on the kind of the operator, relationships are read through their thunks.  *)
(* A push runs to its end before anything else happens: the engine has one    *)
(* thread.  A stream is read as a whole where the code reads it row by row.   *)
(* FetchNode and PushNode are what the operators call Fetch and Push.         *)
EXTENDS Builder, FlatChanges

ConnFetch(g, n, req) ==
  LET op == g.nodes[n]
      f == SourceFetch(g.src[op.t], op.slot, req)
  IN [g |-> [g EXCEPT !.src[op.t] = f.s], out |-> [i \in DOMAIN f.out |-> Leaf(f.out[i])]]

FetchNode(g, n, req) ==
  LET op == g.nodes[n]
  IN CASE op.k = "conn" -> ConnFetch(g, n, req)
       [] op.k = "join" -> JoinFetch(g, n, req)
       [] op.k = "fjoin" -> FlippedJoinFetch(g, n, req)
       [] op.k = "take" -> TakeFetch(g, n, req)
       [] op.k = "cap" -> CapFetch(g, n, req)
       [] op.k = "skip" -> SkipFetch(g, n, req)
       [] op.k = "fend" -> FilterStartFetch(g, op.start, req)
       [] op.k = "ufo" -> Fetch(g, op.input, req)
       [] op.k = "ufi" -> UnionFanInFetch(g, n, req)
       [] op.k = "reduce" -> ReduceFetch(g, n, req)

(* A change sink appends to its buffer. *)
SinkPush(g, n, ch) ==
  LET e == ExpandChange(g, ch)
  IN [e.g EXCEPT !.op[n].caught = Append(@, e.ch)]

(* A view folds the change at once.  It reads the relationships that are in   *)
(* the view, and only of an entry it does not have yet.                       *)
RECURSIVE ReadInView(_, _, _)
ReadInView(g, node, schema) ==
  LET children(h, nodes, sub) ==
        FoldLeft(LAMBDA a, x : LET m == ReadInView(a.g, x, sub)
                               IN [a EXCEPT !.g = m.g, !.nodes = Append(@, m.node)],
                 [g |-> h, nodes |-> <<>>], nodes)
      read(a, r) ==
        IF ~InView(schema, r.slot) THEN a
        ELSE LET d == DrainThunk(a.g, r.th)
                 m == children(d.g, d.out, The(schema.rels[r.slot]))
             IN [a EXCEPT !.g = m.g, !.node.rels = Append(@, StaticRel(r.slot, m.nodes))]
  IN FoldLeft(read, [g |-> g, node |-> Leaf(node.row)], node.rels)

RECURSIVE ReadChange(_, _, _, _)
ReadChange(g, items, ch, schema) ==
  LET p == BinarySearch(items, ch.node.row, schema.sort)
      m == ReadInView(g, ch.node, schema)
      sub == ReadChange(g, items[p.at].rels[ch.rel], ch.child, The(schema.rels[ch.rel]))
  IN CASE ch.t = "Add" /\ ~p.found -> [g |-> m.g, ch |-> AddCh(m.node)]
       [] ch.t = "Child" /\ p.found /\ InView(schema, ch.rel) ->
            [g |-> sub.g, ch |-> [ch EXCEPT !.child = sub.ch]]
       [] OTHER -> [g |-> g, ch |-> ch]

ViewPush(g, n, ch) ==
  LET schema == g.nodes[n].schema
      r == ReadChange(g, g.op[n].items, ch, schema)
      a == ApplyChange(g.op[n].items, r.ch, schema)
  IN IF a.panic THEN Panic(g, "view: node does not exist")
     ELSE [r.g EXCEPT !.op[n].items = a.items, !.op[n].dirty = @ \/ a.changed]

PushNode(g, n, ch, port) ==
  LET op == g.nodes[n]
  IN CASE op.k = "join" -> JoinPush(g, n, ch, port)
       [] op.k = "fjoin" -> FlippedJoinPush(g, n, ch, port)
       [] op.k = "take" -> TakePush(g, n, ch)
       [] op.k = "cap" -> CapPush(g, n, ch)
       [] op.k = "skip" -> SkipPush(g, n, ch)
       [] op.k = "fstart" -> ChainPush(g, op.head, ch).g
       [] op.k = "ufo" -> UnionFanOutPush(g, n, ch)
       [] op.k = "ufi" -> UnionFanInPush(g, n, ch)
       [] op.k = "reduce" -> ReducePush(g, n, ch)
       [] op.k = "sink" -> SinkPush(g, n, ch)
       [] op.k = "view" -> ViewPush(g, n, ch)

-----------------------------------------------------------------------------
(* The error a boundary reports: the parked one, which it takes, or that some *)
(* sum is out of range, which lasts as long as it is.                         *)
Overflows(g) == \E n \in DOMAIN g.nodes : g.nodes[n].k = "reduce" /\ g.op[n].ovf > 0

RuntimeError(g) == IF IsSome(g.err) THEN g.err
                   ELSE IF Overflows(g) THEN Some("integer sum overflow") ELSE None

(* A panic is not taken: it ends the engine. *)
TakeRuntimeError(g) ==
  [g |-> IF IsSome(g.err) /\ The(g.err)[1] = "panic" THEN g ELSE [g EXCEPT !.err = None],
   err |-> RuntimeError(g)]

(* What an edge of a connection delivers. *)
PushEdge(g, edge, sc) == Push(g, edge.node, SourceChangeToNode(sc), edge.port)

(* Pushes a change of a table through every connection of its source.  A      *)
(* change the source refuses is an error before anything parked is looked at. *)
TrySourcePush(g, t, ch) ==
  LET pushed == GenPushAndWriteWithSplitEdit(g, t, ch)
  IN IF IsSome(pushed.err) THEN pushed ELSE TakeRuntimeError(pushed.g)

(* The initial result of a query as additions. *)
TryHydrateChangeSink(g, sink) ==
  LET f == Fetch(g, g.nodes[sink].input, FetchAll)
      m == MaterializeNodes(f.g, f.out)
      t == TakeRuntimeError(m.g)
  IN [g |-> t.g, err |-> t.err, adds |-> [i \in DOMAIN m.nodes |-> AddCh(m.nodes[i])]]

TakeSinkChanges(g, sink) == [g EXCEPT !.op[sink].caught = <<>>]

(* Hydrates a view: the nodes are folded in as additions, nobody is told. *)
TryHydrate(g, view) ==
  LET f == Fetch(g, g.nodes[view].input, FetchAll)
      filled == FoldLeft(LAMBDA a, x : ViewPush(a, view, AddCh(x)), f.g, f.out)
      t == TakeRuntimeError(filled)
  IN IF IsSome(RuntimeError(f.g)) THEN TakeRuntimeError(f.g)
     ELSE [t EXCEPT !.g.op[view].dirty = FALSE]
=============================================================================
