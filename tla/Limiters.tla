------------------------------ MODULE Limiters ------------------------------
(* The operators that bound a stream: Take (op/take.rs), Cap (op/cap.rs) and  *)
(* Skip (op/skip.rs).  Fetch(g, n, req) returns [g, out]; Push(g, n, ch,      *)
(* port) returns the graph.  The state of a Take is                           *)
(*   [parts, max, hidden]                                                     *)
(* parts maps a partition key to [size, bound] with an optional bound row,    *)
(* max is the greatest bound ever stored, hidden the row a re-entrant fetch   *)
(* must not see.  The state of a Cap is [parts], each the tracked keys.       *)
EXTENDS Changes

(* Reading and pushing to an operator, whatever its kind: the dispatch of the *)
(* graph, module Dataflow.                                                    *)
CONSTANTS Fetch(_, _, _), Push(_, _, _, _)

(* Delivers a change to the output of operator n. *)
Forward(g, n, ch) ==
  LET out == g.nodes[n].out IN Push(g, out.node, ch, out.port)

ConstraintMatchesPartitionKey(c, key) ==
  Len(c) = Len(key) /\ \A i \in DOMAIN key : key[i] \in ConstraintCols(c)

PartitionKeyFromConstraint(op, c) ==
  [i \in DOMAIN op.part |->
     IF op.part[i] \in ConstraintCols(The(c)) THEN ConstraintValue(The(c), op.part[i]) ELSE Null]

PartitionConstraint(op, row) ==
  IF op.part = <<>> THEN None
  ELSE Some([i \in DOMAIN op.part |-> <<op.part[i], row[op.part[i]]>>])

PartitionMatch(op, req) ==
  op.part = <<>> \/ (IsSome(req.c) /\ ConstraintMatchesPartitionKey(The(req.c), op.part))

DropKey(f, key) == [k \in DOMAIN f \ {key} |-> f[k]]

-----------------------------------------------------------------------------
GetState(g, n, key) ==
  LET parts == g.op[n].parts IN IF key \in DOMAIN parts THEN Some(parts[key]) ELSE None

(* max is the greatest bound as the caller read it when its step began. *)
SetState(g, n, key, size, bound, max) ==
  LET grows == /\ IsSome(bound)
               /\ ~IsSome(max) \/ CompareRows(g.nodes[n].sort, The(bound), The(max)) > 0
  IN [g EXCEPT !.op[n].parts = (key :> [size |-> size, bound |-> bound]) @@ @,
               !.op[n].max = IF grows THEN bound ELSE @]

FetchN(g, n, bound, at, constraint, reverse, count) ==
  LET f == Fetch(g, g.nodes[n].input, FetchRequest(constraint, Start(bound, at), reverse))
  IN [g |-> f.g, out |-> FirstN(f.out, count)]

(* The first fetch of a partition records its size and its last row. *)
TakeInitialFetch(g, n, key, req) ==
  LET op == g.nodes[n]
      f == Fetch(g, op.input, req)
      out == FirstN(f.out, op.limit)
  IN IF op.limit = 0 THEN [g |-> g, out |-> <<>>]
     ELSE [g |-> SetState(f.g, n, key, Len(out),
                          IF out = <<>> THEN None ELSE Some(Last(out).row), f.g.op[n].max),
           out |-> out]

TakeFetch(g, n, req) ==
  LET op == g.nodes[n]
      key == PartitionKeyFromConstraint(op, req.c)
      state == GetState(g, n, key)
      hidden == g.op[n].hidden
      max == g.op[n].max
      f == Fetch(g, op.input, req)
      within(x) == LET st == GetState(f.g, n, Project(x.row, op.part))
                   IN /\ IsSome(st) /\ IsSome(The(st).bound)
                      /\ CompareRows(op.sort, x.row, The(The(st).bound)) <= 0
  IN CASE PartitionMatch(op, req) /\ ~IsSome(state) ->
            TakeInitialFetch(g, n, key, req)
       [] PartitionMatch(op, req) /\ IsSome(state) ->
            IF ~IsSome(The(state).bound) THEN [g |-> g, out |-> <<>>]
            ELSE [g |-> f.g,
                  out |-> SelectSeq(
                    TakeWhile(f.out, LAMBDA x :
                      CompareRows(op.sort, x.row, The(The(state).bound)) <= 0),
                    LAMBDA x : ~IsSome(hidden)
                               \/ CompareRows(op.sort, The(hidden), x.row) # 0)]
       [] OTHER ->
            IF ~IsSome(max) THEN [g |-> g, out |-> <<>>]
            ELSE [g |-> f.g,
                  out |-> SelectSeq(
                    TakeWhile(f.out, LAMBDA x : CompareRows(op.sort, x.row, The(max)) <= 0),
                    within)]

TakeEvictPartition(g, n, c) ==
  [g EXCEPT !.op[n].parts =
     LET op == g.nodes[n]
     IN IF op.part = <<>> \/ ~ConstraintMatchesPartitionKey(c, op.part) THEN @
        ELSE DropKey(@, PartitionKeyFromConstraint(op, Some(c)))]

PushWithRowHidden(g, n, row, ch) ==
  LET pushed == Forward([g EXCEPT !.op[n].hidden = Some(row)], n, ch)
  IN [pushed EXCEPT !.op[n].hidden = None]

(* Below the limit the row enters; at the limit it displaces the last row if  *)
(* it sorts before it: the removal is pushed first, the new row hidden.       *)
TakePushAdd(g, n, ch, key, st) ==
  LET op == g.nodes[n]
      row == ch.node.row
      bound == st.bound
      c == PartitionConstraint(op, row)
      grown == IF IsSome(bound) /\ CompareRows(op.sort, The(bound), row) >= 0 THEN bound ELSE Some(row)
      found == IF op.limit = 1 THEN FetchN(g, n, The(bound), TRUE, c, FALSE, 1)
               ELSE FetchN(g, n, The(bound), TRUE, c, TRUE, 2)
      newBound == IF Len(found.out) = 2 /\ CompareRows(op.sort, row, found.out[2].row) <= 0
                  THEN found.out[2].row ELSE row
      moved == SetState(found.g, n, key, st.size, Some(newBound), g.op[n].max)
  IN IF st.size < op.limit
     THEN Forward(SetState(g, n, key, st.size + 1, grown, g.op[n].max), n, ch)
     ELSE IF ~IsSome(bound) \/ CompareRows(op.sort, row, The(bound)) >= 0 THEN g
     ELSE Forward(PushWithRowHidden(moved, n, row, RemoveCh(found.out[1])), n, ch)

(* A removal inside the window is refilled by the first row after the bound.  *)
(* Without one the window shrinks, and an empty partition is forgotten.       *)
TakePushRemove(g, n, ch, key, st) ==
  LET op == g.nodes[n]
      row == ch.node.row
      bound == The(st.bound)
      c == PartitionConstraint(op, row)
      past(x) == CompareRows(op.sort, x.row, bound) > 0
      before == FetchN(g, n, bound, FALSE, c, TRUE, 1)
      tail == Fetch(before.g, op.input, FetchRequest(c, Start(bound, TRUE), FALSE))
      hits == {i \in DOMAIN tail.out : past(tail.out[i])}
      dl == PushDeadline(tail.g, IF hits = {} THEN Len(tail.out) ELSE Min(hits))
      refill == tail.out[Min(hits)]
      lastSeen == IF tail.out # <<>> THEN Some(Last(tail.out).row)
                  ELSE IF before.out # <<>> THEN Some(before.out[1].row) ELSE None
      gone == Forward(dl.g, n, ch)
      shrunk == IF op.part # <<>> /\ st.size = 1
                THEN [dl.g EXCEPT !.op[n].parts = DropKey(@, key)]
                ELSE SetState(dl.g, n, key, st.size - 1, lastSeen, g.op[n].max)
  IN IF ~IsSome(st.bound) \/ CompareRows(op.sort, row, bound) > 0 THEN g
     ELSE IF dl.hit THEN ParkDeadline(dl.g)
     ELSE IF hits # {}
     THEN Forward(SetState(gone, n, key, st.size, Some(refill.row), g.op[n].max),
                  n, AddCh(refill))
     ELSE Forward(shrunk, n, ch)

(* The new place of the edited row against the bound decides whether it stays *)
(* inside, leaves and is replaced, or enters and displaces the last row.      *)
TakePushEdit(g, n, ch) ==
  LET op == g.nodes[n]
      new == ch.node.row
      old == ch.old.row
      key == Project(old, op.part)
      st == The(GetState(g, n, key))
      bound == The(st.bound)
      c == PartitionConstraint(op, old)
      oldCmp == CompareRows(op.sort, old, bound)
      newCmp == CompareRows(op.sort, new, bound)
      set(h, row) == SetState(h, n, key, st.size, Some(row), g.op[n].max)
      forward(h) == Forward(h, n, ch)
      fetch(at, reverse, count) == FetchN(g, n, bound, at, c, reverse, count)
      same(x) == CompareRows(op.sort, x.row, new) = 0
      prev == fetch(FALSE, TRUE, 1)
      here == fetch(TRUE, FALSE, 1)
      two == fetch(TRUE, TRUE, 2)
      next == fetch(FALSE, FALSE, 1)
  IN CASE ~IsSome(GetState(g, n, key)) -> g
       [] oldCmp = 0 /\ newCmp = 0 -> forward(g)
       [] oldCmp = 0 /\ newCmp < 0 ->
            IF op.limit = 1 THEN forward(set(g, new))
            ELSE forward(set(prev.g, prev.out[1].row))
       [] oldCmp = 0 /\ newCmp > 0 ->
            IF same(here.out[1]) THEN forward(set(here.g, new))
            ELSE Forward(PushWithRowHidden(set(here.g, here.out[1].row), n,
                                           here.out[1].row, RemoveCh(ch.old)),
                         n, AddCh(here.out[1]))
       [] oldCmp > 0 /\ newCmp > 0 -> g
       [] oldCmp > 0 /\ newCmp <= 0 ->
            Forward(PushWithRowHidden(set(two.g, two.out[2].row), n, new, RemoveCh(two.out[1])),
                    n, AddCh(ch.node))
       [] oldCmp < 0 /\ newCmp < 0 -> forward(g)
       [] oldCmp < 0 /\ newCmp >= 0 ->
            IF same(next.out[1]) THEN forward(set(next.g, new))
            ELSE Forward(set(Forward(next.g, n, RemoveCh(ch.old)), next.out[1].row),
                         n, AddCh(next.out[1]))

(* A change of a partition that was never fetched is dropped. *)
TakePush(g, n, ch) ==
  LET op == g.nodes[n]
      row == ch.node.row
      key == Project(row, op.part)
      state == GetState(g, n, key)
      st == The(state)
  IN IF ch.t = "Edit" THEN TakePushEdit(g, n, ch)
     ELSE IF ~IsSome(state) THEN g
     ELSE CASE ch.t = "Add" -> TakePushAdd(g, n, ch, key, st)
            [] ch.t = "Remove" -> TakePushRemove(g, n, ch, key, st)
            [] ch.t = "Child" ->
                 IF IsSome(st.bound) /\ CompareRows(op.sort, row, The(st.bound)) <= 0
                 THEN Forward(g, n, ch) ELSE g

-----------------------------------------------------------------------------
(* Cap tracks which rows of a partition it let through, without any order.    *)
PkOf(op, row) == Project(row, op.pk)

CapSetState(g, n, key, pks) == [g EXCEPT !.op[n].parts = (key :> pks) @@ @]

CapInitialFetch(g, n, key, req) ==
  LET op == g.nodes[n]
      f == Fetch(g, op.input, req)
      out == FirstN(f.out, op.limit)
  IN IF op.limit = 0 THEN [g |-> g, out |-> <<>>]
     ELSE [g |-> CapSetState(f.g, n, key, [i \in DOMAIN out |-> PkOf(op, out[i].row)]),
           out |-> out]

(* Once it has state, every tracked row is looked up by its primary key. *)
CapFetch(g, n, req) ==
  LET op == g.nodes[n]
      key == PartitionKeyFromConstraint(op, req.c)
      state == GetState(g, n, key)
      lookup(a, pk) ==
        LET f == Fetch(a.g, op.input,
                       WithConstraint([i \in DOMAIN op.pk |-> <<op.pk[i], pk[i]>>]))
        IN [a EXCEPT !.g = f.g, !.out = @ \o f.out]
  IN IF ~IsSome(state) THEN CapInitialFetch(g, n, key, req)
     ELSE FoldLeft(lookup, [g |-> g, out |-> <<>>], The(state))

CapEvictPartition(g, n, c) ==
  [g EXCEPT !.op[n].parts =
     LET op == g.nodes[n]
     IN IF op.part = <<>> \/ ~ConstraintMatchesPartitionKey(c, op.part) THEN @
        ELSE DropKey(@, PartitionKeyFromConstraint(op, Some(c)))]

(* A tracked row that goes is replaced by any row of the partition that is    *)
(* not tracked; the removal is delivered before the replacement is stored.    *)
CapPushRemove(g, n, ch, key, pks) ==
  LET op == g.nodes[n]
      left == SelectSeq(pks, LAMBDA p : p # PkOf(op, ch.node.row))
      f == Fetch(g, op.input, FetchRequest(PartitionConstraint(op, ch.node.row), None, FALSE))
      spare == SelectSeq(f.out, LAMBDA x : PkOf(op, x.row) \notin Range(left))
      gone == Forward(CapSetState(f.g, n, key, left), n, ch)
  IN IF PkOf(op, ch.node.row) \notin Range(pks) THEN g
     ELSE IF spare = <<>> THEN gone
     ELSE Forward(CapSetState(gone, n, key, Append(left, PkOf(op, spare[1].row))),
                  n, AddCh(spare[1]))

CapPushEdit(g, n, ch) ==
  LET op == g.nodes[n]
      key == Project(ch.old.row, op.part)
      state == GetState(g, n, key)
      old == PkOf(op, ch.old.row)
      swapped == [i \in DOMAIN The(state) |->
                    IF The(state)[i] = old THEN PkOf(op, ch.node.row) ELSE The(state)[i]]
  IN IF ~IsSome(state) THEN g
     ELSE IF old \notin Range(The(state)) THEN g
     ELSE Forward(CapSetState(g, n, key, swapped), n, ch)

CapPush(g, n, ch) ==
  LET op == g.nodes[n]
      key == Project(ch.node.row, op.part)
      state == GetState(g, n, key)
      pks == The(state)
      pk == PkOf(op, ch.node.row)
  IN IF ch.t = "Edit" THEN CapPushEdit(g, n, ch)
     ELSE IF ~IsSome(state) THEN g
     ELSE CASE ch.t = "Add" ->
                 IF Len(pks) < op.limit
                 THEN Forward(CapSetState(g, n, key, Append(pks, pk)), n, ch) ELSE g
            [] ch.t = "Remove" -> CapPushRemove(g, n, ch, key, pks)
            [] ch.t = "Child" -> IF pk \in Range(pks) THEN Forward(g, n, ch) ELSE g

-----------------------------------------------------------------------------
(* Skip drops what sorts before its bound [row, at]. *)
ShouldBePresent(op, sort, row) ==
  LET o == CompareRows(sort, op.bound.row, row) IN o < 0 \/ (o = 0 /\ op.bound.at)

(* The tighter of the requested start and the bound; None when nothing is left. *)
GetStart(op, sort, req) ==
  LET b == Some(op.bound)
      rs == The(req.start)
      o == CompareRows(sort, op.bound.row, rs.row)
  IN CASE ~IsSome(req.start) -> Some(IF req.rev THEN None ELSE b)
       [] IsSome(req.start) /\ ~req.rev ->
            Some(CASE o > 0 -> b
                   [] o = 0 -> IF op.bound.at /\ rs.at THEN b ELSE Start(op.bound.row, FALSE)
                   [] o < 0 -> req.start)
       [] IsSome(req.start) /\ req.rev ->
            CASE o > 0 -> None
              [] o = 0 -> IF op.bound.at /\ rs.at THEN Some(b) ELSE None
              [] o < 0 -> Some(req.start)

SkipFetch(g, n, req) ==
  LET op == g.nodes[n]
      sort == InputSort(g, op.input)
      start == GetStart(op, sort, req)
      f == Fetch(g, op.input, [req EXCEPT !.start = The(start)])
  IN IF ~IsSome(start) THEN [g |-> g, out |-> <<>>]
     ELSE [g |-> f.g,
           out |-> IF req.rev
                   THEN TakeWhile(f.out, LAMBDA x : ShouldBePresent(op, sort, x.row))
                   ELSE f.out]

(* What a row test leaves of a change: an edit across it becomes one half. *)
SplitByPresence(ch, wasPresent, isPresent) ==
  CASE ch.t # "Edit" -> IF isPresent THEN Some(ch) ELSE None
    [] ch.t = "Edit" /\ wasPresent /\ isPresent -> Some(ch)
    [] ch.t = "Edit" /\ wasPresent /\ ~isPresent -> Some(RemoveCh(ch.old))
    [] ch.t = "Edit" /\ ~wasPresent /\ isPresent -> Some(AddCh(ch.node))
    [] OTHER -> None

SkipPush(g, n, ch) ==
  LET op == g.nodes[n]
      sort == InputSort(g, op.input)
      kept == SplitByPresence(ch, ShouldBePresent(op, sort, ch.old.row),
                              ShouldBePresent(op, sort, ch.node.row))
  IN IF IsSome(kept) THEN Forward(g, n, The(kept)) ELSE g
=============================================================================
