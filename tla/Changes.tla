------------------------------ MODULE Changes ------------------------------
(* Nodes and changes that flow through the operator graph (change.rs), and    *)
(* what every operator does to the graph record g:                            *)
(*   src    the sources by table          nodes  the operators by node id     *)
(*   op     the state of each operator    err    the parked runtime error     *)
(*   fuel   checkpoints left before the push deadline passes, None if unarmed *)
(* A node is [row, rels]; rels is a sequence of [slot, th].  A thunk th is    *)
(* evaluated whenever it is drained: "join" reads the join's live overlay,    *)
(* "attach" carries its overlay by value, "nodes" is a stream already read.   *)
EXTENDS Source

Leaf(row) == [row |-> row, rels |-> <<>>]

StaticRel(slot, nodes) == [slot |-> slot, th |-> [k |-> "nodes", nodes |-> nodes]]

AddCh(node) == [t |-> "Add", node |-> node]

RemoveCh(node) == [t |-> "Remove", node |-> node]

EditCh(node, old) == [t |-> "Edit", node |-> node, old |-> old]

ChildCh(node, rel, child) == [t |-> "Child", node |-> node, rel |-> rel, child |-> child]

(* The row a change is about: of an edit the new one. *)
PrimaryRow(ch) == ch.node.row

(* The connection wraps the rows of a source change into leaf nodes. *)
SourceChangeToNode(sc) ==
  CASE sc.t = "Add" -> AddCh(Leaf(sc.row))
    [] sc.t = "Remove" -> RemoveCh(Leaf(sc.row))
    [] sc.t = "Edit" -> EditCh(Leaf(sc.row), Leaf(sc.old))

(* The row-level overlay of a child change; a nested change has none. *)
ForChildChange(ch) ==
  CASE ch.t = "Add" -> Some(SrcAdd(ch.node.row))
    [] ch.t = "Remove" -> Some(SrcRemove(ch.node.row))
    [] ch.t = "Edit" -> Some(SrcEdit(ch.node.row, ch.old.row))
    [] ch.t = "Child" -> None

(* Join keys match when no value is Null and all are equal. *)
IsJoinMatch(parentRow, parentKey, childRow, childKey) ==
  \A i \in DOMAIN parentKey : ValuesEqual(parentRow[parentKey[i]], childRow[childKey[i]])

RowEqualsForCompoundKey(a, b, key) ==
  \A i \in DOMAIN key : ValuesIdentical(a[key[i]], b[key[i]])

NodesSorted(nodes, sort) ==
  SortSeq(nodes, LAMBDA a, b : CompareRows(sort, a.row, b.row) < 0)

HasPk(nodes, pk, row) == \E i \in DOMAIN nodes : SamePk(pk, nodes[i].row, row)

(* Brings a parent's children to the state after the change: the flipped join. *)
SpliceJoinOverlay(nodes, ov, parentRow, parentKey, childKey, pk, sort) ==
  LET gone(r) == SelectSeq(nodes, LAMBDA n : ~SamePk(pk, n.row, r))
      added(ns, r) == IF IsJoinMatch(parentRow, parentKey, r, childKey) /\ ~HasPk(ns, pk, r)
                      THEN Append(ns, Leaf(r)) ELSE ns
  IN NodesSorted(CASE ov.t = "Add" -> added(nodes, ov.row)
                   [] ov.t = "Remove" -> gone(ov.row)
                   [] ov.t = "Edit" -> added(gone(ov.old), ov.row), sort)

(* Brings them back to the state before it: a join that still has to deliver  *)
(* the change to this parent.                                                 *)
SpliceJoinOverlayPre(nodes, ov, pk, sort) ==
  LET hits(r) == {i \in DOMAIN nodes : SamePk(pk, nodes[i].row, r)}
      without(r) == IF hits(r) = {} THEN nodes ELSE RemoveAt(nodes, Min(hits(r)))
      back(ns, r) == IF HasPk(ns, pk, r) THEN ns ELSE Append(ns, Leaf(r))
  IN NodesSorted(CASE ov.t = "Add" -> without(ov.row)
                   [] ov.t = "Remove" -> back(nodes, ov.row)
                   [] ov.t = "Edit" -> back(without(ov.row), ov.old), sort)

-----------------------------------------------------------------------------
(* The first error of a push is kept. *)
ParkRuntimeError(g, e) == IF IsSome(g.err) THEN g ELSE [g EXCEPT !.err = Some(<<"error", e>>)]

(* A panic ends the engine. *)
Panic(g, what) == [g EXCEPT !.err = Some(<<"panic", what>>)]

ParkDeadline(g) == ParkRuntimeError(g, "PushDeadlineExceeded")

(* n checkpoints of a loop: hit when the deadline passes at one of them.  The *)
(* clock is read again only much later, so it passes once per push.           *)
PushDeadline(g, n) ==
  IF ~IsSome(g.fuel) THEN [hit |-> FALSE, at |-> n, g |-> g]
  ELSE IF The(g.fuel) < n
       THEN [hit |-> TRUE, at |-> The(g.fuel), g |-> [g EXCEPT !.fuel = None]]
       ELSE [hit |-> FALSE, at |-> n, g |-> [g EXCEPT !.fuel = Some(The(@) - n)]]

-----------------------------------------------------------------------------
(* The primary key and the sort an operator's output has, from its source. *)
RECURSIVE InputSchema(_, _)
InputSchema(g, n) ==
  LET op == g.nodes[n]
  IN CASE op.k = "conn" -> [pk |-> g.src[op.t].pk, sort |-> PrimarySort(g.src[op.t].pk)]
       [] op.k \in {"join", "fjoin"} -> InputSchema(g, op.parent)
       [] op.k = "fend" -> InputSchema(g, op.start)
       [] op.k = "ufi" -> [pk |-> op.pk, sort |-> op.sort]
       [] op.k = "reduce" -> [pk |-> op.outPk, sort |-> op.outSort]
       [] OTHER -> InputSchema(g, op.input)

(* The order an operator really delivers in: the connection's own sort. *)
RECURSIVE InputSort(_, _)
InputSort(g, n) ==
  LET op == g.nodes[n]
  IN CASE op.k = "conn" -> g.src[op.t].tb.conns[op.slot].sort
       [] op.k \in {"join", "fjoin"} -> InputSort(g, op.parent)
       [] op.k = "fend" -> InputSort(g, op.start)
       [] op.k \in {"ufi", "take"} -> op.sort
       [] op.k = "reduce" -> op.outSort
       [] OTHER -> InputSort(g, op.input)
=============================================================================
