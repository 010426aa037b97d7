------------------------------- MODULE Joins -------------------------------
(* Join (graph.rs) and FlippedJoin (op/flipped_join.rs).  A join has fields   *)
(* parent, child, pkey, ckey, rel and out; a flipped one also chunk.          *)
EXTENDS Limiters

-----------------------------------------------------------------------------
(* The relationships of a node (graph.rs): a thunk reads the children of a    *)
(* parent when it is drained, with the change in flight spliced in, and       *)
(* materialising a change drains the thunks of its nodes.  The state of a     *)
(* Join is [ov, pos]: the child change it is delivering and the parent it has *)
(* got to.                                                                    *)
(* The relationship is appended: those the parent already has survive. *)
ProcessParentNode(g, n, node) ==
  [node EXCEPT !.rels = Append(@, [slot |-> g.nodes[n].rel,
                                   th |-> [k |-> "join", n |-> n, row |-> node.row]])]

AttachChildRel(g, n, node, ov) ==
  [node EXCEPT !.rels = Append(@, [slot |-> g.nodes[n].rel,
                                   th |-> [k |-> "attach", n |-> n, row |-> node.row, ov |-> ov]])]

\* Mutant: the overlay counts for the parent being delivered, too.
JoinOverlayForReached(g, n, row) ==
  LET op == g.nodes[n]
      st == g.op[n]
  IN IF /\ IsSome(st.ov) /\ IsSome(st.pos)
        /\ IsJoinMatch(row, op.pkey, The(st.ov).row, op.ckey)
        /\ CompareRows(InputSort(g, op.parent), row, The(st.pos)) >= 0
     THEN st.ov ELSE None

(* The overlay counts for the parents the delivery has not reached: those     *)
(* that sort after the current one in the order the parents are delivered.    *)
JoinOverlayFor(g, n, row) ==
  LET op == g.nodes[n]
      st == g.op[n]
  IN IF /\ IsSome(st.ov) /\ IsSome(st.pos)
        /\ IsJoinMatch(row, op.pkey, The(st.ov).row, op.ckey)
        /\ CompareRows(InputSort(g, op.parent), row, The(st.pos)) > 0
     THEN st.ov ELSE None

ChildrenOf(g, n, row) ==
  LET op == g.nodes[n]
      c == BuildJoinConstraint(row, op.pkey, op.ckey)
  IN IF IsSome(c) THEN Fetch(g, op.child, WithConstraint(The(c)))
     ELSE [g |-> g, out |-> <<>>]

(* A thunk read: the overlay of a join is looked up now, that of a flipped    *)
(* join was fixed when the node was made.                                     *)
DrainThunk(g, th) ==
  IF th.k = "nodes" THEN [g |-> g, out |-> th.nodes]
  ELSE LET op == g.nodes[th.n]
           base == ChildrenOf(g, th.n, th.row)
           schema == InputSchema(g, op.child)
           ov == IF th.k = "join" THEN JoinOverlayFor(g, th.n, th.row) ELSE th.ov
       IN [g |-> base.g,
           out |-> CASE ~IsSome(ov) -> base.out
                     [] IsSome(ov) /\ th.k = "join" ->
                          SpliceJoinOverlayPre(base.out, The(ov), schema.pk, schema.sort)
                     [] IsSome(ov) /\ th.k = "attach" ->
                          SpliceJoinOverlay(base.out, The(ov), th.row, op.pkey, op.ckey,
                                            schema.pk, schema.sort)]

-----------------------------------------------------------------------------
(* Reading relationships now: the result holds nodes and no more thunks. *)
RECURSIVE MaterializeNode(_, _)
MaterializeNodes(g, nodes) ==
  FoldLeft(LAMBDA a, x : LET m == MaterializeNode(a.g, x)
                         IN [a EXCEPT !.g = m.g, !.nodes = Append(@, m.node)],
           [g |-> g, nodes |-> <<>>], nodes)

MaterializeNode(g, node) ==
  LET read(a, r) ==
        LET d == DrainThunk(a.g, r.th)
            m == Given(d, LAMBDA x : MaterializeNodes(x.g, x.out))
        IN [a EXCEPT !.g = m.g, !.node.rels = Append(@, StaticRel(r.slot, m.nodes))]
  IN FoldLeft(read, [g |-> g, node |-> Leaf(node.row)], node.rels)

(* A child change keeps the row of its parent only. *)
RECURSIVE MaterializeChange(_, _)
MaterializeChange(g, ch) ==
  LET m == MaterializeNode(g, ch.node)
      o == MaterializeNode(m.g, ch.old)
      sub == MaterializeChange(g, ch.child)
  IN CASE ch.t \in {"Add", "Remove"} -> [g |-> m.g, ch |-> [ch EXCEPT !.node = m.node]]
       [] ch.t = "Edit" -> [g |-> o.g, ch |-> EditCh(m.node, o.node)]
       [] ch.t = "Child" -> [g |-> sub.g, ch |-> ChildCh(Leaf(ch.node.row), ch.rel, sub.ch)]

(* A fan keeps the parent's relationships too: its gates count them. *)
MaterializeChangePreservingNode(g, ch) ==
  LET m == MaterializeNode(g, ch.node)
      sub == MaterializeChange(m.g, ch.child)
  IN IF ch.t = "Child" THEN [ch |-> ChildCh(m.node, ch.rel, sub.ch), g |-> sub.g]
     ELSE MaterializeChange(g, ch)

(* Nobody reads the relationships of the old side of an edit. *)
MaterializeChangeEditOldRowOnly(g, ch) ==
  LET m == MaterializeNode(g, ch.node)
  IN IF ch.t = "Edit" THEN [g |-> m.g, ch |-> EditCh(m.node, Leaf(ch.old.row))]
     ELSE MaterializeChange(g, ch)

(* What a sink records: of an edit and of a parent only the rows. *)
RECURSIVE ExpandChange(_, _)
ExpandChange(g, ch) ==
  LET m == MaterializeNode(g, ch.node)
      sub == ExpandChange(g, ch.child)
  IN CASE ch.t \in {"Add", "Remove"} -> [g |-> m.g, ch |-> [ch EXCEPT !.node = m.node]]
       [] ch.t = "Edit" -> [g |-> g, ch |-> EditCh(Leaf(ch.node.row), Leaf(ch.old.row))]
       [] ch.t = "Child" -> [g |-> sub.g, ch |-> ChildCh(Leaf(ch.node.row), ch.rel, sub.ch)]

-----------------------------------------------------------------------------
(* The joins. *)

(* Maps the nodes of a fetch, the graph unchanged. *)
MapNodes(f, M(_)) == [f EXCEPT !.out = [i \in DOMAIN @ |-> M(@[i])]]

JoinFetch(g, n, req) ==
  LET f == Fetch(g, g.nodes[n].parent, req)
  IN MapNodes(f, LAMBDA x : ProcessParentNode(g, n, x))

(* Forgets what the limiters below a join keep for a parent that left. *)
RECURSIVE EvictChildPartitions(_, _, _, _)
EvictChildPartitions(nodes, n, c, g) ==
  LET op == nodes[n]
      below(m, h) == EvictChildPartitions(nodes, m, c, h)
  IN CASE op.k = "take" -> below(op.input, TakeEvictPartition(g, n, c))
       [] op.k = "cap" -> below(op.input, CapEvictPartition(g, n, c))
       [] op.k \in {"skip", "fstart"} -> below(op.input, g)
       [] op.k = "fend" -> below(op.start, g)
       [] OTHER -> g

(* Only when the parent key is the parent's primary key: the partition is     *)
(* then nobody else's.                                                        *)
EvictAfterRemove(g, n, row, sent) ==
  LET op == g.nodes[n]
      c == BuildJoinConstraint(row, op.pkey, op.ckey)
  IN IF op.pkey = InputSchema(g, op.parent).pk /\ IsSome(c)
     THEN EvictChildPartitions(g.nodes, op.child, The(c), sent) ELSE sent

JoinPushParent(g, n, ch) ==
  LET op == g.nodes[n]
      attach(x) == ProcessParentNode(g, n, x)
      send(c) == Forward(g, n, c)
  IN CASE ch.t = "Add" -> send(AddCh(attach(ch.node)))
       [] ch.t = "Remove" ->
            EvictAfterRemove(g, n, ch.node.row, send(RemoveCh(attach(ch.node))))
       [] ch.t = "Edit" ->
            IF ~RowEqualsForCompoundKey(ch.old.row, ch.node.row, op.pkey)
            THEN ParkRuntimeError(g, "parent edit changed the join key")
            ELSE send(EditCh(attach(ch.node), attach(ch.old)))
       [] ch.t = "Child" -> send(ChildCh(attach(ch.node), ch.rel, ch.child))

(* One change per matching parent, in the parents' order.  Each delivery sees *)
(* the children before the change for the parents still to come.  The push    *)
(* deadline ends the delivery: the parents left out never hear of it.         *)
JoinPushChildChange(g, n, ch) ==
  LET op == g.nodes[n]
      c == BuildJoinConstraint(PrimaryRow(ch), op.ckey, op.pkey)
      m == MaterializeChangeEditOldRowOnly(g, ch)
      live == [m.g EXCEPT !.op[n].ov = ForChildChange(ch)]
      f == Fetch(live, op.parent, WithConstraint(The(c)))
      deliver(a, x) ==
        LET dl == PushDeadline(a.g, 1)
            b == [dl.g EXCEPT !.op[n].pos = Some(x.row)]
            change == ChildCh(ProcessParentNode(b, n, x), op.rel, m.ch)
        IN IF a.hit THEN a
           ELSE IF dl.hit THEN [a EXCEPT !.g = ParkDeadline(dl.g), !.hit = TRUE]
           ELSE [a EXCEPT !.g = Forward(b, n, change)]
      done == FoldLeft(deliver, [g |-> f.g, hit |-> FALSE], f.out)
  IN IF ~IsSome(c) THEN g
     ELSE [done.g EXCEPT !.op[n].ov = None, !.op[n].pos = None]

JoinPush(g, n, ch, port) ==
  IF port = "parent" THEN JoinPushParent(g, n, ch)
  ELSE IF ch.t = "Edit" /\ ~RowEqualsForCompoundKey(ch.old.row, ch.node.row, g.nodes[n].ckey)
  THEN ParkRuntimeError(g, "child edit changed the join key")
  ELSE JoinPushChildChange(g, n, ch)

-----------------------------------------------------------------------------
(* The flipped join reads the children first and looks their parents up. *)
TranslateConstraint(op, c) ==
  LET at(col) == CHOOSE i \in DOMAIN op.pkey : op.pkey[i] = col
      kept == SelectSeq(IF IsSome(c) THEN The(c) ELSE <<>>, LAMBDA e : e[1] \in Range(op.pkey))
  IN IF kept = <<>> THEN None
     ELSE Some([i \in DOMAIN kept |-> <<op.ckey[at(kept[i][1])], kept[i][2]>>])

(* The distinct parent constraints of the children, those apart that          *)
(* contradict the request.                                                    *)
ComputedMulti(op, req, children) ==
  FoldLeft(LAMBDA acc, x :
             LET c == BuildJoinConstraint(x.row, op.ckey, op.pkey)
             IN IF \/ ~IsSome(c)
                   \/ IsSome(req.c) /\ ~ConstraintsAreCompatible(The(c), The(req.c))
                   \/ The(c) \in Range(acc)
                THEN acc ELSE Append(acc, The(c)),
           <<>>, children)

ParentBatchReq(req, batch) == [req EXCEPT !.multi = Append(@, batch)]

(* One batched fetch of the parents, or one per chunk, merged in the order    *)
(* the parents are delivered in; parents without a child are left out.        *)
FlippedJoinFetch(g, n, req) ==
  LET op == g.nodes[n]
      kids == Fetch(g, op.child, FetchRequest(TranslateConstraint(op, req.c), None, FALSE))
      multi == ComputedMulti(op, req, kids.out)
      one == Fetch(kids.g, op.parent, ParentBatchReq(req, multi))
      chunked == FoldLeft(LAMBDA a, w : LET f == Fetch(a.g, op.parent, ParentBatchReq(req, w))
                                        IN [a EXCEPT !.g = f.g, !.streams = Append(@, f.out)],
                          [g |-> kids.g, streams |-> <<>>], Chunks(multi, op.chunk))
      parents == IF Len(multi) <= op.chunk THEN one
                 ELSE [g |-> chunked.g,
                       out |-> MergeNodeStreams(chunked.streams, InputSort(g, op.parent),
                                                req.rev, None)]
      seen(x) == \E i \in DOMAIN multi :
                   Project(x.row, op.pkey) = [j \in DOMAIN multi[i] |-> multi[i][j][2]]
  IN IF multi = <<>> THEN [g |-> kids.g, out |-> <<>>]
     ELSE MapNodes([parents EXCEPT !.out = SelectSeq(@, seen)],
                   LAMBDA x : AttachChildRel(g, n, x, None))

ParentHasOtherChild(g, n, row, changed) ==
  LET f == ChildrenOf(g, n, row)
      pk == InputSchema(g, g.nodes[n].child).pk
  IN [g |-> f.g,
      ok |-> \E i \in DOMAIN f.out : ~RowEqualsForCompoundKey(f.out[i].row, changed, pk)]

ParentWithOnlyChild(g, n, node, row) ==
  [node EXCEPT !.rels = Append(@, StaticRel(g.nodes[n].rel, <<Leaf(row)>>))]

(* A parent that has another child keeps it and hears of the change; for the  *)
(* others the parent itself comes or goes.  Once another child was seen it is *)
(* taken for granted for the parents that follow.                             *)
FlippedPushChildChange(g, n, ch) ==
  LET op == g.nodes[n]
      c == BuildJoinConstraint(PrimaryRow(ch), op.ckey, op.pkey)
      m == MaterializeChange(g, ch)
      f == Fetch(m.g, op.parent, WithConstraint(The(c)))
      deliver(a, x) ==
        LET dl == PushDeadline(a.g, 1)
            other == IF a.exists THEN [g |-> dl.g, ok |-> TRUE]
                     ELSE ParentHasOtherChild(dl.g, n, x.row, PrimaryRow(ch))
            only == ParentWithOnlyChild(g, n, x, PrimaryRow(ch))
            send(cc) == [a EXCEPT !.g = Forward(other.g, n, cc), !.exists = other.ok]
        IN IF a.hit THEN a
           ELSE IF dl.hit THEN [a EXCEPT !.g = ParkDeadline(dl.g), !.hit = TRUE]
           ELSE IF other.ok
           THEN send(ChildCh(AttachChildRel(g, n, x, ForChildChange(ch)), op.rel, m.ch))
           ELSE send(IF ch.t = "Add" THEN AddCh(only) ELSE RemoveCh(only))
      done == FoldLeft(deliver, [g |-> f.g, exists |-> ch.t \in {"Edit", "Child"}, hit |-> FALSE],
                       f.out)
  IN IF IsSome(c) THEN done.g ELSE g

(* A parent without children is not in the output. *)
FlippedPushParent(g, n, ch) ==
  LET kids == ChildrenOf(g, n, ch.node.row)
      flip(x) == AttachChildRel(g, n, x, None)
      send(c) == Forward(kids.g, n, c)
  IN IF kids.out = <<>> THEN kids.g
     ELSE CASE ch.t = "Add" -> send(AddCh(flip(ch.node)))
            [] ch.t = "Remove" -> send(RemoveCh(flip(ch.node)))
            [] ch.t = "Edit" -> send(EditCh(flip(ch.node), flip(ch.old)))
            [] ch.t = "Child" -> send(ChildCh(flip(ch.node), ch.rel, ch.child))

FlippedJoinPush(g, n, ch, port) ==
  LET key == IF port = "parent" THEN g.nodes[n].pkey ELSE g.nodes[n].ckey
  IN IF ch.t = "Edit" /\ ~RowEqualsForCompoundKey(ch.old.row, ch.node.row, key)
     THEN Panic(g, "flipped edit must not change the join key")
     ELSE IF port = "parent" THEN FlippedPushParent(g, n, ch)
     ELSE FlippedPushChildChange(g, n, ch)
=============================================================================
