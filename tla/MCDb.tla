-------------------------------- MODULE MCDb --------------------------------
(* Two synced tables, 1 with columns (id, a) and 2 with (id, pid, v), and a   *)
(* local table 3 with (id).                                                   *)
EXTENDS Db

MCCatalog ==
  (1 :> [width |-> 2, pk |-> <<1>>, int64 |-> {}, local |-> FALSE])
  @@ (2 :> [width |-> 3, pk |-> <<1>>, int64 |-> {}, local |-> FALSE])
  @@ (3 :> [width |-> 1, pk |-> <<1>>, int64 |-> {}, local |-> TRUE])

(* What the calls do, as module Db defines it.  Passed as parameters, and each *)
(* a LET: TLC then counts how often an action and its branches are taken, and *)
(* not every expression on every path of calls below them.                    *)
MCRegisterQuery(h, q) == LET r == RegisterQuery(h, q) IN r
MCTxnQuery(h, staged, ast) == LET r == TxnQuery(h, staged, ast) IN r
MCPushAll(h, staged) == LET r == PushAll(h, staged) IN r
MCRewind(h, o, deltas) == LET r == Rewind(h, o, deltas) IN r
MCDestroyPipeline(h, manifest) == LET r == DestroyPipeline(h, manifest) IN r
MCDeliverable(buf, qs) == LET r == Deliverable(buf, qs) IN r
MCDeliver(buf, qs) == LET r == Deliver(buf, qs) IN r
MCAnswer(db, ast) == LET r == Answer(db, ast) IN r

Col(c) == <<"col", c>>
Lit(v) == <<"lit", v>>

P == Ast(1)
C == Ast(2)
Named(ast, n) == [ast EXCEPT !.alias = Some(<<n>>)]
Kids(sub) == Correlated(Named(sub, 7), <<1>>, <<2>>)
Gate(sub) == Correlated(Named(sub, 8), <<1>>, <<2>>)
Owner(sub) == Correlated(Named(sub, 6), <<2>>, <<1>>)
Where(ast, c) == [ast EXCEPT !.where = Some(c)]
Has(sub) == ExistsCond(Gate(sub), FALSE, FALSE)
HasNot(sub) == ExistsCond(Gate(sub), TRUE, FALSE)
Flip(sub) == ExistsCond(Gate(sub), FALSE, TRUE)
With(ast, rels) == [ast EXCEPT !.related = rels]
Limit(ast, n) == [ast EXCEPT !.limit = Some(n)]
Order(ast, c, asc) == [ast EXCEPT !.order = << <<c, asc>> >>]
V(v) == Where(C, Simple(Col(3), "Eq", Lit(v)))
A(v) == Simple(Col(2), "Eq", Lit(v))

Asts ==
  << Limit(Order(P, 2, FALSE), 1),
     Where(P, A(1)),
     With(P, <<Kids(C)>>),
     With(P, <<Kids(Limit(Order(C, 3, FALSE), 1))>>),
     Where(P, Has(V(1))),
     Where(P, HasNot(C)),
     Where(P, Flip(C)),
     Where(P, OrOf(<<A(1), Has(C)>>)),
     Where(P, OrOf(<<A(1), Flip(C)>>)),
     With(Where(P, Has(C)), <<Kids(C)>>),
     With(P, <<Kids([C EXCEPT !.agg = Some(<<"Count", 0>>)])>>),
     With(P, <<Kids([C EXCEPT !.agg = Some(<<"Avg", 3>>)])>>),
     [C EXCEPT !.agg = Some(<<"Count", 0>>), !.groupBy = <<2>>],
     [C EXCEPT !.agg = Some(<<"Sum", 3>>)],
     [P EXCEPT !.start = Some([row |-> << <<1, 1>> >>, exclusive |-> TRUE])],
     Limit([Order(C, 3, TRUE) EXCEPT !.start = Some([row |-> << <<3, 0>>, <<1, 1>> >>, exclusive |-> FALSE])], 2),
     With(Limit(P, 1), <<Kids(C)>>),
     Limit(Order(Where(P, Has(C)), 2, TRUE), 1),
     Where(P, Has([C EXCEPT !.agg = Some(<<"Count", 0>>), !.having = Some(Simple(Col(2), "Gt", Lit(1)))])),
     [Where(P, HasNot(C)) EXCEPT !.select = Some(<<1>>)],
     With(C, <<Owner(With(P, <<Kids(C)>>))>>),
     Where(P, AndOf(<<Flip(V(0)), Has(V(1))>>)),
     Where(P, OrOf(<<Flip(V(0)), Flip(V(1))>>)),
     Where(C, ExistsCond(Owner(Where(P, Flip(C))), FALSE, FALSE)),
     Where(P, OrOf(<<A(0), HasNot(V(1))>>)) >>

(* Projection is the host's: a native view shows whole rows. *)
Both(ast) == {q \in {[ast |-> ast, native |-> b] : b \in BOOLEAN} : q.native => ast.select = None}

Event(ast) == [ast |-> ast, native |-> FALSE]

(* Queries the engine refuses: an unknown table, an unknown column, a flipped *)
(* NOT EXISTS, and a precomputed aggregate of a column nobody has.            *)
Refused ==
  {Event(Ast(9)), Event(Where(P, Simple(Col(7), "Eq", Lit(1)))),
   Event(Where(P, ExistsCond(Gate(C), TRUE, TRUE))),
   Event(With(P, <<Kids([C EXCEPT !.agg = Some(<<"Sum", 7>>), !.pre = TRUE])>>))}

SeedA == (1 :> {<<1, 0>>, <<2, 1>>}) @@ (2 :> {<<1, 1, 0>>, <<2, 1, 1>>})
SeedB == (1 :> {<<1, 0>>}) @@ (2 :> {<<1, Null, 0>>, <<2, 1, 1>>, <<3, 2, 0>>})
SeedC == (1 :> {<<1, 0>>}) @@ (2 :> {<<1, 1, 0>>})
SeedBig == (1 :> {<<1, 0>>}) @@ (2 :> {<<1, 1, 350>>})

MCWritable(style, t) ==
  CASE t = 1 -> {<<1, 1>>, <<2, 0>>, <<3, 1>>}
    [] t = 2 /\ style = "plain" ->
         {<<1, 2, 0>>, <<1, 1, 1>>, <<2, Null, 1>>, <<3, 1, 1>>}
    [] t = 2 /\ style = "partial" -> {<<1, 2, Absent>>, <<2, Absent, 0>>, <<3, 1, 1>>}
    [] t = 2 /\ style = "big" -> {<<1, 1, 350>>, <<2, 1, 350>>, <<3, 1, 450>>}
    [] t = 3 -> {<<1>>, <<2>>}

Host(seed, asks, style, staged) ==
  [seed |-> seed, asks |-> asks, style |-> style, staged |-> staged,
   eager |-> FALSE, writes |-> 0, reads |-> 0, registers |-> 1, destroys |-> 0, cycles |-> 0, tables |-> 0]

(* The deepest graphs start from fewer rows.                                  *)
Nested == {8, 10, 18, 21, 22, 23, 24, 25}

(* Some follow one view through its commits, some a view through a cycle with *)
(* a mutator invoked again in it, some read inside a transaction, some come   *)
(* and go, some write integers at the limits, some use a local table.         *)
Followers ==
  {[Host(SeedA, {q}, "plain", 1) EXCEPT !.eager = TRUE, !.writes = IF q.native THEN 1 ELSE 2] :
     q \in UNION {Both(Asts[i]) : i \in (DOMAIN Asts) \ Nested}}
  \cup {[Host(SeedC, {q}, "plain", 1) EXCEPT !.eager = TRUE, !.writes = IF q.native THEN 1 ELSE 2] :
          q \in UNION {Both(Asts[i]) : i \in Nested}}

Syncers == {[Host(SeedB, {Event(Asts[i])}, "plain", 1) EXCEPT !.eager = TRUE, !.writes = IF i = 3 THEN 2 ELSE 1, !.cycles = 1] :
              i \in {3, 7}}

Mutators == {[Host(SeedA, {Event(Asts[i])}, "partial", 2) EXCEPT !.writes = 1, !.reads = 1] : i \in {3, 13}}

Visitors == {[Host(SeedB, {Event(Asts[8]), r}, "plain", 1) EXCEPT
                !.registers = 2, !.destroys = 1, !.writes = 1] : r \in Refused}

Big == {[Host(SeedBig, {Event(Asts[i]), Event(Asts[14])}, "big", 1) EXCEPT !.registers = 2, !.writes = 2] :
          i \in {3}}

Locals == {[Host(SeedB, {Event(Ast(3))}, "plain", 1) EXCEPT !.writes = 1, !.cycles = 1, !.tables = 2]}

MCHosts == Followers \cup Syncers \cup Mutators \cup Visitors \cup Big \cup Locals

Synced(o, t) == IF t \in DOMAIN o THEN o[t] ELSE {}

(* What the server may say: nothing, that a write was right, that a row is    *)
(* otherwise, that a parent is gone with a child, and a row of a table it     *)
(* knows nothing of.                                                          *)
MCDeltas(o) ==
  {<<>>}
  \cup {2 :> <<SrcAdd(<<4, 1, 0>>), SrcEdit(<<4, 2, 0>>, <<4, 1, 0>>)>>}
  \cup {(1 :> <<SrcRemove(r)>>) @@ (2 :> <<SrcEdit(<<2, Null, 0>>, c)>>) :
          r \in {x \in Synced(o, 1) : x[1] = 1}, c \in {x \in Synced(o, 2) : x[1] = 2}}
  \cup {3 :> <<SrcAdd(<<1>>)>>}

(* A parent with one kid, which a host may remove and add again. *)
Drainers ==
  {[Host((1 :> {<<1, 0>>}) @@ (2 :> {<<1, 1, 0>>}), {Event(Asts[4])}, "plain", 1) EXCEPT !.eager = TRUE, !.writes = 2]}

DrainSpec == DbInit(Drainers) /\ [][DbNext]_vars
=============================================================================
