---------------------------- MODULE FilterChain ----------------------------
(* The filter sub-graph: FilterStart, a chain of Filter, Exists and FanOut/   *)
(* FanIn links, FilterEnd (graph.rs, op/exists.rs).  A link has a field next. *)
(* ChainFilter(g, link, node) returns [g, ok]; ChainPush(g, link, ch) returns *)
(* [g, out], out being the changes that reached the end of a fan's branch.    *)
(* The state of an Exists is [inPush, cache], the cache mapping a parent key  *)
(* to whether the relationship has a row.                                     *)
EXTENDS Joins

RECURSIVE ChainFilter(_, _, _), ChainPush(_, _, _)

RelOf(node, slot) == node.rels[CHOOSE i \in DOMAIN node.rels : node.rels[i].slot = slot]

FetchSize(g, n, node) ==
  LET d == DrainThunk(g, RelOf(node, g.nodes[n].rel).th)
  IN [g |-> d.g, size |-> Len(d.out)]

ReplaceRel(node, slot, children) ==
  [node EXCEPT !.rels = Append(SelectSeq(@, LAMBDA r : r.slot # slot),
                               StaticRel(slot, children))]

ForceRelSingle(node, slot, child) == ReplaceRel(node, slot, <<child>>)

ForceRelEmpty(node, slot) == ReplaceRel(node, slot, <<>>)

(* The size is remembered per parent key during one fetch, but never during a *)
(* push nor when the key is the primary key.                                  *)
ExistsFilter(g, n, node) ==
  LET op == g.nodes[n]
      st == g.op[n]
      key == Project(node.row, op.key)
      caching == ~op.noSizeReuse /\ ~st.inPush
      hit == caching /\ key \in DOMAIN st.cache
      f == FetchSize(g, n, node)
      exists == IF hit THEN st.cache[key] ELSE f.size > 0
      h == IF hit THEN g
           ELSE IF caching THEN [f.g EXCEPT !.op[n].cache = (key :> exists) @@ @] ELSE f.g
  IN IF exists = op.not THEN [g |-> h, ok |-> FALSE] ELSE ChainFilter(h, op.next, node)

ExistsPushWithFilter(g, n, ch, exists) ==
  LET op == g.nodes[n]
      f == FetchSize(g, n, ch.node)
      e == IF IsSome(exists) THEN The(exists) ELSE f.size > 0
      h == IF IsSome(exists) THEN g ELSE f.g
  IN IF e = op.not THEN [g |-> h, out |-> <<>>] ELSE ChainPush(h, op.next, ch)

(* A child that makes the relationship non-empty or empty turns into the      *)
(* arrival or the departure of the parent.                                    *)
ExistsPushChild(g, n, ch) ==
  LET op == g.nodes[n]
      f == FetchSize(g, n, ch.node)
      send(c) == ChainPush(f.g, op.next, c)
      gated == ExistsPushWithFilter(f.g, n, ch, Some(f.size > 0))
  IN CASE ch.child.t = "Add" /\ f.size = 1 ->
            send(IF op.not THEN RemoveCh(ForceRelEmpty(ch.node, op.rel)) ELSE AddCh(ch.node))
       [] ch.child.t = "Remove" /\ f.size = 0 ->
            send(IF op.not THEN AddCh(ch.node)
                 ELSE RemoveCh(ForceRelSingle(ch.node, op.rel, ch.child.node)))
       [] OTHER -> gated

ExistsPush(g, n, ch) ==
  LET op == g.nodes[n]
      entered == [g EXCEPT !.op[n].inPush = TRUE]
      resizes == ch.t = "Child" /\ ch.rel = op.rel /\ ch.child.t \in {"Add", "Remove"}
      done == IF resizes THEN ExistsPushChild(entered, n, ch)
              ELSE ExistsPushWithFilter(entered, n, ch, None)
  IN IF g.op[n].inPush THEN [g |-> Panic(g, "Exists: unexpected re-entrancy"), out |-> <<>>]
     ELSE [done EXCEPT !.g.op[n].inPush = FALSE]

-----------------------------------------------------------------------------
(* The links of a chain from link on, the branches of fans included. *)
RECURSIVE ChainLinks(_, _)
ChainLinks(g, link) ==
  LET op == g.nodes[link]
  IN {link} \cup
     CASE op.k = "fanout" ->
            UNION {ChainLinks(g, op.branches[i]) : i \in DOMAIN op.branches}
            \cup (IF IsSome(g.nodes[op.fanin].next)
                  THEN ChainLinks(g, The(g.nodes[op.fanin].next)) ELSE {})
       [] op.k \in {"filter", "exists"} -> ChainLinks(g, op.next)
       [] op.k \in {"fanin", "fend"} -> {}

(* The end of a fetch through the chain empties the caches of its Exists. *)
EndFilter(g, head) ==
  LET links == {l \in ChainLinks(g, head) : g.nodes[l].k = "exists"}
  IN [g EXCEPT !.op = [n \in DOMAIN @ |->
        IF n \in links THEN [@[n] EXCEPT !.cache = <<>>] ELSE @[n]]]

FilterStartFetch(g, n, req) ==
  LET op == g.nodes[n]
      f == Fetch(g, op.input, req)
      step(a, node) == LET c == ChainFilter(a.g, op.head, node)
                       IN [a EXCEPT !.g = c.g, !.out = IF c.ok THEN Append(@, node) ELSE @]
      done == FoldLeft(step, [g |-> f.g, out |-> <<>>], f.out)
  IN [done EXCEPT !.g = EndFilter(@, op.head)]

(* OR: the first branch that passes decides; then the links after the fan. *)
FanOutFilter(g, n, node) ==
  LET op == g.nodes[n]
      try(a, b) == IF a.ok THEN a ELSE ChainFilter(a.g, b, node)
      any == FoldLeft(try, [g |-> g, ok |-> FALSE], op.branches)
      cont == g.nodes[op.fanin].next
  IN IF any.ok /\ IsSome(cont) THEN ChainFilter(any.g, The(cont), node) ELSE any

FilterChainPush(g, n, ch) ==
  LET op == g.nodes[n]
      kept == SplitByPresence(ch, Eval(op.pred, ch.old.row), Eval(op.pred, ch.node.row))
  IN IF IsSome(kept) THEN ChainPush(g, op.next, The(kept)) ELSE [g |-> g, out |-> <<>>]

(* At most one change leaves a fan.  The type that entered is preferred; an   *)
(* edit whose halves came out of different branches is put together again.    *)
CollapseAccumulated(acc, type) ==
  LET of(t) == SelectSeq(acc, LAMBDA c : c.t = t)
      first(t) == IF of(t) = <<>> THEN <<>> ELSE <<of(t)[1]>>
  IN CASE type \in {"Add", "Remove"} -> first(type)
       [] type = "Edit" ->
            IF of("Edit") # <<>> THEN first("Edit")
            ELSE IF of("Add") # <<>> /\ of("Remove") # <<>>
            THEN <<EditCh(of("Add")[1].node, of("Remove")[1].node)>>
            ELSE first("Add") \o first("Remove")
       [] type = "Child" ->
            IF of("Child") # <<>> THEN first("Child")
            ELSE IF of("Add") # <<>> THEN first("Add") ELSE first("Remove")

(* Every branch gets its own copy, its relationships read beforehand. *)
FanOutPush(g, n, ch) ==
  LET op == g.nodes[n]
      m == MaterializeChangePreservingNode(g, ch)
      step(a, b) == LET c == ChainPush(a.g, b, m.ch)
                    IN [a EXCEPT !.g = c.g, !.out = @ \o c.out]
      acc == FoldLeft(step, [g |-> m.g, out |-> <<>>], op.branches)
      cont == g.nodes[op.fanin].next
      after(a, c) == LET p == ChainPush(a.g, The(cont), c)
                     IN [a EXCEPT !.g = p.g, !.out = @ \o p.out]
      collapsed == CollapseAccumulated(acc.out, m.ch.t)
  IN IF IsSome(cont) /\ collapsed # <<>> THEN FoldLeft(after, [g |-> acc.g, out |-> <<>>], collapsed)
     ELSE [g |-> acc.g, out |-> collapsed]

-----------------------------------------------------------------------------
ChainFilter(g, link, node) ==
  LET op == g.nodes[link]
  IN CASE op.k = "filter" -> IF Eval(op.pred, node.row) THEN ChainFilter(g, op.next, node)
                             ELSE [g |-> g, ok |-> FALSE]
       [] op.k = "exists" -> ExistsFilter(g, link, node)
       [] op.k = "fanout" -> FanOutFilter(g, link, node)
       [] op.k \in {"fanin", "fend"} -> [g |-> g, ok |-> TRUE]

(* The end of a chain pushes on; the end of a branch hands its change back. *)
ChainPush(g, link, ch) ==
  LET op == g.nodes[link]
  IN CASE op.k = "filter" -> FilterChainPush(g, link, ch)
       [] op.k = "exists" -> ExistsPush(g, link, ch)
       [] op.k = "fanout" -> FanOutPush(g, link, ch)
       [] op.k = "fanin" -> [g |-> g, out |-> <<ch>>]
       [] op.k = "fend" -> [g |-> Forward(g, link, ch), out |-> <<>>]
=============================================================================
