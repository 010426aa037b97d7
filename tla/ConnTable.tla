----------------------------- MODULE ConnTable -----------------------------
(* The connection table of a source (source_common.rs): slots with a          *)
(* generation each, a last-in-first-out list of free slots, and the push      *)
(* index over the live ones.  A connection is                                 *)
(*   [sort, pred, pk, guard, split, out]                                      *)
(* pk being the optional constraint its filter puts on the primary key and    *)
(* out the optional edge it delivers to.  A ConnId is [idx, gen].             *)
EXTENDS PushIndex

EmptyTable == [conns |-> <<>>, gens |-> <<>>, free |-> <<>>, index |-> EmptyIndex]

(* The slot that the next connect takes. *)
NextSlot(tb) == IF tb.free # <<>> THEN tb.free[Len(tb.free)] ELSE Len(tb.conns) + 1

TableConnect(tb, conn) ==
  LET slot == NextSlot(tb)
      index == IndexInsert(tb.index, slot, conn.guard, conn.split)
  IN IF tb.free # <<>>
     THEN [tb EXCEPT !.free = SubSeq(@, 1, Len(@) - 1),
                     !.index = index,
                     !.conns[slot] = conn]
     ELSE [tb EXCEPT !.index = index,
                     !.conns = Append(@, conn),
                     !.gens = Append(@, 0)]

ConnIdAt(tb, slot) ==
  [idx |-> slot, gen |-> IF slot \in DOMAIN tb.gens THEN tb.gens[slot] ELSE 0]

\* Mutant: the generation is not compared.
IsLiveSlot(tb, id) == id.idx \in DOMAIN tb.gens

(* A handle is good while the generation of its slot is its own. *)
IsLive(tb, id) == id.idx \in DOMAIN tb.gens /\ tb.gens[id.idx] = id.gen

(* A stale handle is ignored: teardown may be repeated. *)
TableDestroy(tb, id) ==
  IF ~IsLive(tb, id) THEN tb
  ELSE LET c == tb.conns[id.idx]
       IN [tb EXCEPT !.index = IndexRemove(@, id.idx, c.guard, c.split),
                     !.conns[id.idx].out = None,
                     !.gens[id.idx] = @ + 1,
                     !.free = Append(@, id.idx)]

SetConnOutput(tb, id, edge) == [tb EXCEPT !.conns[id.idx].out = Some(edge)]

LiveConnCount(tb) == Cardinality({i \in DOMAIN tb.conns : IsSome(tb.conns[i].out)})

(* The candidates of a push in slot order. *)
TableCandidates(tb, ch) ==
  SetToSortSeq(PushCandidates(tb.index, ch), LAMBDA a, b : a < b)
=============================================================================
