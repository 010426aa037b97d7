------------------------------ MODULE ViewTree ------------------------------
(* The materialised view (view.rs).  A list is a sequence of entries sorted   *)
(* by the view schema; an entry is [row, rc, rels] with one list per          *)
(* relationship slot.  A schema is [sort, rels], rels giving for each slot    *)
(* None when it is not in the view and Some(schema of the children) if it is. *)
(* Sharing between snapshots is not modelled: a snapshot is a value here.     *)
EXTENDS Changes

InView(schema, slot) == IsSome(schema.rels[slot])

(* Where a row is, or would go: [found, at]. *)
BinarySearch(items, row, sort) ==
  LET before == {i \in DOMAIN items : CompareRows(sort, items[i].row, row) < 0}
      at == Cardinality(before) + 1
  IN [found |-> at <= Len(items) /\ CompareRows(sort, items[at].row, row) = 0, at |-> at]

MakeNewEntry(row, schema) ==
  [row |-> row, rc |-> 1, rels |-> [s \in DOMAIN schema.rels |-> <<>>]]

(* The entry of a node whose relationships have been read: children that      *)
(* compare equal share one entry and count in it.                             *)
RECURSIVE InitRelsForNewEntry(_, _)
InitRelsForNewEntry(node, schema) ==
  LET fill(e, r) ==
        IF ~InView(schema, r.slot) THEN e
        ELSE LET sub == The(schema.rels[r.slot])
                 add(items, c) ==
                   LET p == BinarySearch(items, c.row, sub.sort)
                   IN IF p.found THEN [items EXCEPT ![p.at].rc = @ + 1]
                      ELSE InsertAt(items, p.at, InitRelsForNewEntry(c, sub))
                 items == FoldLeft(add, <<>>, r.th.nodes)
             IN IF items = <<>> THEN e ELSE [e EXCEPT !.rels[r.slot] = items]
  IN FoldLeft(fill, MakeNewEntry(node.row, schema), node.rels)

-----------------------------------------------------------------------------
(* The outcome of folding a change into a list. *)
Applied(items, changed) == [items |-> items, changed |-> changed, panic |-> FALSE]

Missing(items) == [items |-> items, changed |-> FALSE, panic |-> TRUE]

ApplyAdd(items, node, schema) ==
  LET p == BinarySearch(items, node.row, schema.sort)
  IN Applied(IF p.found THEN [items EXCEPT ![p.at].rc = @ + 1]
             ELSE InsertAt(items, p.at, InitRelsForNewEntry(node, schema)), TRUE)

ApplyRemove(items, row, schema) ==
  LET p == BinarySearch(items, row, schema.sort)
  IN IF ~p.found THEN Missing(items)
     ELSE Applied(IF items[p.at].rc = 1 THEN RemoveAt(items, p.at)
                  ELSE [items EXCEPT ![p.at].rc = @ - 1], TRUE)

(* The sort key moved.  An entry that others still count stays behind; the    *)
(* row joins an entry already at its place or takes the old one's children.   *)
ApplyMove(items, new, old, schema) ==
  LET from == BinarySearch(items, old, schema.sort)
      to == BinarySearch(items, new, schema.sort)
      entry == items[from.at]
      rest == IF entry.rc = 1 THEN RemoveAt(items, from.at)
              ELSE [items EXCEPT ![from.at].rc = @ - 1]
      at == IF entry.rc = 1 /\ from.at < to.at THEN to.at - 1 ELSE to.at
      stays == entry.rc = 1 /\ (to.at = from.at \/ to.at - 1 = from.at)
  IN IF ~from.found THEN Missing(items)
     ELSE Applied(CASE stays -> [items EXCEPT ![from.at].row = new]
                    [] ~stays /\ to.found ->
                         [rest EXCEPT ![at].row = new, ![at].rc = @ + 1]
                    [] ~stays /\ ~to.found ->
                         InsertAt(rest, at, [entry EXCEPT !.row = new, !.rc = 1]), TRUE)

ApplyEditChange(items, new, old, schema) ==
  LET p == BinarySearch(items, old, schema.sort)
  IN IF CompareRows(schema.sort, old, new) # 0 THEN ApplyMove(items, new, old, schema)
     ELSE IF ~p.found THEN Missing(items)
     ELSE Applied([items EXCEPT ![p.at].row = new], TRUE)

(* A change below a slot that is not in the view leaves the parent alone. *)
RECURSIVE ApplyChange(_, _, _)
ApplyChange(items, ch, schema) ==
  LET p == BinarySearch(items, ch.node.row, schema.sort)
      sub == ApplyChange(items[p.at].rels[ch.rel], ch.child, The(schema.rels[ch.rel]))
  IN CASE ch.t = "Add" -> ApplyAdd(items, ch.node, schema)
       [] ch.t = "Remove" -> ApplyRemove(items, ch.node.row, schema)
       [] ch.t = "Edit" -> ApplyEditChange(items, ch.node.row, ch.old.row, schema)
       [] ch.t = "Child" ->
            IF ~InView(schema, ch.rel) THEN Applied(items, FALSE)
            ELSE IF ~p.found THEN Missing(items)
            ELSE [items |-> IF sub.changed THEN [items EXCEPT ![p.at].rels[ch.rel] = sub.items]
                            ELSE items,
                  changed |-> sub.changed, panic |-> sub.panic]
=============================================================================
