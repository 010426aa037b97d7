------------------------------- MODULE Unions -------------------------------
(* UnionFanOut and UnionFanIn (op/union.rs): an OR of branches that hold      *)
(* joins.  The fan-in has fields inputs, constraints (what each branch may    *)
(* push down), pk, sort and rels (the relationship slots of its output).  Its *)
(* state is [acc], None outside a broadcast.                                  *)
EXTENDS FilterChain

(* The relationships of the left node win. *)
MergeOwnedRels(left, right) ==
  left \o SelectSeq(right, LAMBDA r : \A i \in DOMAIN left : left[i].slot # r.slot)

MergeNodes(a, b) == [a EXCEPT !.rels = MergeOwnedRels(@, b.rels)]

(* The changes of one type put together; None if there is none. *)
MergeOfType(acc, t) ==
  LET cs == SelectSeq(acc, LAMBDA c : c.t = t)
      merge(a, c) == IF t = "Edit"
                     THEN [a EXCEPT !.node = MergeNodes(@, c.node), !.old = MergeNodes(@, c.old)]
                     ELSE [a EXCEPT !.node = MergeNodes(@, c.node)]
  IN IF cs = <<>> THEN None ELSE Some(FoldLeft(merge, cs[1], Tail(cs)))

AddEmptyRelationships(ch, slots) ==
  LET fill(node) ==
        [node EXCEPT !.rels = MergeOwnedRels(@, [i \in DOMAIN slots |-> StaticRel(slots[i], <<>>)])]
  IN CASE ch.t \in {"Add", "Remove"} -> [ch EXCEPT !.node = fill(@)]
       [] ch.t = "Edit" -> [ch EXCEPT !.node = fill(@), !.old = fill(@)]
       [] ch.t = "Child" -> ch

(* At most one change leaves the union for one change broadcast to it. *)
PushAccumulatedChanges(acc, type, slots) ==
  LET add == MergeOfType(acc, "Add")
      remove == MergeOfType(acc, "Remove")
      edit == MergeOfType(acc, "Edit")
      child == MergeOfType(acc, "Child")
      half == OrElse(add, remove)
      rebuilt == EditCh(The(add).node, The(remove).node)
      merged == EditCh(IF IsSome(add) THEN MergeNodes(The(edit).node, The(add).node)
                       ELSE The(edit).node,
                       IF IsSome(remove) THEN MergeNodes(The(edit).old, The(remove).node)
                       ELSE The(edit).old)
      filled(o) == [i \in DOMAIN o |-> AddEmptyRelationships(o[i], slots)]
  IN CASE type = "Add" -> filled(add)
       [] type = "Remove" -> filled(remove)
       [] type = "Edit" ->
            IF IsSome(edit) THEN filled(Some(merged))
            ELSE IF IsSome(add) /\ IsSome(remove) THEN filled(Some(rebuilt))
            ELSE filled(half)
       [] type = "Child" -> IF IsSome(child) THEN child ELSE filled(half)

(* What the branches deliver between the start and the end of the broadcast   *)
(* is collected in the fan-in and leaves it as one change.                    *)
UnionFanOutPush(g, n, ch) ==
  LET op == g.nodes[n]
      fi == op.fanin
      m == MaterializeChangePreservingNode([g EXCEPT !.op[fi].acc = Some(<<>>)], ch)
      sent == FoldLeft(LAMBDA a, e : Push(a, e.node, m.ch, e.port), m.g, op.branches)
      one == PushAccumulatedChanges(The(sent.op[fi].acc), m.ch.t, g.nodes[fi].rels)
      done == [sent EXCEPT !.op[fi].acc = None]
  IN IF IsSome(g.op[fi].acc) THEN Panic(g, "UnionFanIn already in a fan-out push")
     ELSE IF IsSome(one) THEN Forward(done, fi, The(one)) ELSE done

FetchBranch(g, input, bc, req) ==
  IF bc = <<>> THEN Fetch(g, input, req)
  ELSE IF IsSome(req.c) /\ ~ConstraintsAreCompatible(The(req.c), bc)
  THEN [g |-> g, out |-> <<>>]
  ELSE Fetch(g, input, [req EXCEPT !.c =
               Some(MergeConstraints(IF IsSome(req.c) THEN The(req.c) ELSE <<>>, bc))])

UnionFanInFetch(g, n, req) ==
  LET op == g.nodes[n]
      all == FoldLeft(LAMBDA a, i :
                        LET f == FetchBranch(a.g, op.inputs[i], op.constraints[i], req)
                        IN [a EXCEPT !.g = f.g, !.streams = Append(@, f.out)],
                      [g |-> g, streams |-> <<>>], [i \in DOMAIN op.inputs |-> i])
  IN [g |-> all.g, out |-> MergeNodeStreams(all.streams, op.sort, req.rev, Some(op.pk))]

(* A change that starts inside one branch: the row enters if no other branch  *)
(* has it, and leaves if none has it any more.                                *)
UnionPushInternalChange(g, n, ch) ==
  LET op == g.nodes[n]
      c == [i \in DOMAIN op.pk |-> <<op.pk[i], ch.node.row[op.pk[i]]>>]
      counted == FoldLeft(LAMBDA a, i : LET f == Fetch(a.g, i, WithConstraint(c))
                                        IN [a EXCEPT !.g = f.g, !.n = @ + IF f.out = <<>> THEN 0 ELSE 1],
                          [g |-> g, n |-> 0], op.inputs)
  IN CASE ch.t \in {"Child", "Edit"} -> Forward(g, n, ch)
       [] ch.t = "Add" ->
            IF counted.n = 1 THEN Forward(counted.g, n, ch) ELSE counted.g
       [] ch.t = "Remove" ->
            IF counted.n = 0 THEN Forward(counted.g, n, ch) ELSE counted.g

UnionFanInPush(g, n, ch) ==
  LET m == MaterializeChange(g, ch)
  IN IF IsSome(g.op[n].acc) THEN [m.g EXCEPT !.op[n].acc = Some(Append(The(@), m.ch))]
     ELSE UnionPushInternalChange(g, n, ch)
=============================================================================
