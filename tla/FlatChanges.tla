---------------------------- MODULE FlatChanges ----------------------------
(* The change stream a query's sink delivers: caught changes, whose           *)
(* relationships have been read (changes.rs), made flat (flat.rs), projected  *)
(* to the columns the query reports (wasm/db.rs) and folded into the tree the *)
(* receiver keeps (flat_receiver.rs).  A flat change is [path, op]: the path  *)
(* is a sequence of [rel, row] from the root down, the op [t, node] with t    *)
(* one of "Add", "Remove" and "Edit", and old for an edit.                    *)
EXTENDS ViewTree

(* Slots in ascending order; of two relationships in one slot the later wins. *)
WireRels(rels) ==
  LET slots == {rels[i].slot : i \in DOMAIN rels}
      at(s) == Max({i \in DOMAIN rels : rels[i].slot = s})
      order == SetToSortSeq(slots, LAMBDA a, b : a < b)
  IN [i \in DOMAIN order |-> rels[at(order[i])]]

RECURSIVE WireNode(_)
WireNode(node) ==
  [node EXCEPT !.rels = [i \in DOMAIN WireRels(@) |->
     StaticRel(WireRels(@)[i].slot,
               [j \in DOMAIN WireRels(@)[i].th.nodes |-> WireNode(WireRels(@)[i].th.nodes[j])])]]

(* The nesting of a child change is the path. *)
RECURSIVE Flatten(_)
Flatten(ch) ==
  CASE ch.t = "Child" ->
         LET sub == Flatten(ch.child)
         IN [sub EXCEPT !.path = <<[rel |-> ch.rel, row |-> ch.node.row]>> \o @]
    [] ch.t = "Add" -> [path |-> <<>>, op |-> AddCh(WireNode(ch.node))]
    [] ch.t = "Remove" -> [path |-> <<>>, op |-> RemoveCh(Leaf(ch.node.row))]
    [] ch.t = "Edit" -> [path |-> <<>>, op |-> EditCh(Leaf(ch.node.row), Leaf(ch.old.row))]

FlattenAll(changes) == [i \in DOMAIN changes |-> Flatten(changes[i])]

-----------------------------------------------------------------------------
(* The columns a projected level reports: those selected, and the ones the    *)
(* receiver finds rows by.                                                    *)
KeepMask(schema) ==
  Range(The(schema.select)) \cup Range(schema.pk)
  \cup {schema.sort[i][1] : i \in DOMAIN schema.sort}

ProjectRow(row, schema) ==
  IF ~IsSome(schema.select) THEN row
  ELSE [c \in DOMAIN row |-> IF c \in KeepMask(schema) THEN row[c] ELSE Absent]

RECURSIVE ProjectNode(_, _)
ProjectNode(node, schema) ==
  LET child(r) ==
        IF ~InView(schema, r.slot) THEN r
        ELSE StaticRel(r.slot, [j \in DOMAIN r.th.nodes |->
                                  ProjectNode(r.th.nodes[j], The(schema.rels[r.slot]))])
  IN [row |-> ProjectRow(node.row, schema),
      rels |-> [i \in DOMAIN node.rels |-> child(node.rels[i])]]

ProjectOp(op, schema) ==
  CASE op.t = "Add" -> AddCh(ProjectNode(op.node, schema))
    [] op.t = "Remove" -> RemoveCh(Leaf(ProjectRow(op.node.row, schema)))
    [] op.t = "Edit" -> EditCh(Leaf(ProjectRow(op.node.row, schema)),
                               Leaf(ProjectRow(op.old.row, schema)))

(* Below a slot that is not in the view the walk stops: the segments that     *)
(* follow stay as they are and the op is projected at the level reached.      *)
RECURSIVE ProjectFlatChange(_, _)
ProjectFlatChange(fc, schema) ==
  LET seg == Head(fc.path)
      here == [seg EXCEPT !.row = ProjectRow(@, schema)]
      rest == [fc EXCEPT !.path = Tail(@)]
      below == IF InView(schema, seg.rel) THEN ProjectFlatChange(rest, The(schema.rels[seg.rel]))
               ELSE [rest EXCEPT !.op = ProjectOp(@, schema)]
  IN IF fc.path = <<>> THEN [fc EXCEPT !.op = ProjectOp(@, schema)]
     ELSE [below EXCEPT !.path = <<here>> \o @]

-----------------------------------------------------------------------------
(* The receiver.  It folds with the algorithms of the view. *)
ApplyOp(list, schema, op) ==
  CASE op.t = "Add" -> ApplyAdd(list, op.node, schema)
    [] op.t = "Remove" -> ApplyRemove(list, op.node.row, schema)
    [] op.t = "Edit" -> ApplyEditChange(list, op.node.row, op.old.row, schema)

(* Parents are found by their whole row. *)
RECURSIVE ApplyAt(_, _, _, _)
ApplyAt(list, schema, path, op) ==
  LET seg == Head(path)
      p == BinarySearch(list, seg.row, schema.sort)
      sub == ApplyAt(list[p.at].rels[seg.rel], The(schema.rels[seg.rel]), Tail(path), op)
  IN IF path = <<>> THEN ApplyOp(list, schema, op)
     ELSE IF ~InView(schema, seg.rel) THEN Applied(list, FALSE)
     ELSE IF ~p.found THEN Missing(list)
     ELSE [sub EXCEPT !.items = [list EXCEPT ![p.at].rels[seg.rel] = sub.items]]

(* A batch in order; a receiver that met an inconsistent stream is dead. *)
ApplyAll(recv, changes, schema) ==
  FoldLeft(LAMBDA r, fc : LET a == ApplyAt(r.top, schema, fc.path, fc.op)
                          IN IF r.dead THEN r ELSE [top |-> a.items, dead |-> a.panic],
           recv, changes)
=============================================================================
