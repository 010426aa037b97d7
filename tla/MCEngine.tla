------------------------------ MODULE MCEngine ------------------------------
(* The Rust engine, part by part: the Db of module MCDb, and the machines     *)
(* whose data the Db abstracts.  A behaviour is one of one part; the others   *)
(* stay idle.                                                                 *)
EXTENDS MCDb, BTree, FlatProtocol, Planner, SqlSource, JournalFrame, SpillStore, ScalarFold, ConnLife

CONSTANT Parts

VARIABLE part

-----------------------------------------------------------------------------
(* What the operations do, as their modules define it; see MCDb. *)
MCPlansOf(ast, m) == LET r == PlansOf(ast, m) IN r
MCCheaper(a, b, base, m) == LET r == Cheaper(a, b, base, m) IN r
(* A connection of the SQLite table has a reader as its output, one of the    *)
(* memory sources an operator.                                                *)
MCPushOne(h, edge, sc) ==
  IF "seen" \in DOMAIN h THEN SqlPushOne(h, edge, sc) ELSE PushEdge(h, edge, sc)

MCSqlTryPush(h, ch) == LET r == SqlTryPush(h, ch) IN r
MCReadsAgree(s) == LET r == ReadsAgree(s) IN r
MCHydrate(s) == LET r == Hydrate(s) IN r
MCStoreSet(s, o, key, val, fault) == LET r == StoreSet(s, o, key, val, fault) IN r
MCStoreGet(s, o, key, fault) == LET r == StoreGet(s, o, key, fault) IN r
MCCursorNext(s, c, fault) == LET r == CursorNext(s, c, fault) IN r
MCDecodeStorageValue(bytes) == LET r == DecodeStorageValue(bytes) IN r

-----------------------------------------------------------------------------
(* The tree: six keys and two rows to a node make three levels. *)
MCTreeRows == (1..6) \X (0..1)
MCTreeSeeds == {{<<k, 0>> : k \in 1..n} : n \in 0..6}
MCTreeBounds == {<<k>> : k \in {0, 2, 3, 6, 7}}
MCTreeSort == << <<1, TRUE>> >>

-----------------------------------------------------------------------------
(* Cells: Ints from -4 to 3, Floats in halves beyond both ends. *)
MCFloatMags == {0, 1, 2, 3, 4, 8, 12}
MCCellTexts == {<<>>, <<0>>, <<6, 1>>, <<0, 6>>}
MCLikePatterns == UNION {[1..n -> {"a", "B", "%", "_", "\\"}] : n \in 0..4}
MCLikeTexts ==
  UNION {[1..n -> {"a", "b", "%"}] : n \in 0..2}
  \cup {<<"\\">>, <<"a", "\\">>, <<"a", "a", "b", "a">>, <<"_", "a">>, <<"\\", "B">>, <<"b", "a", "b">>}

-----------------------------------------------------------------------------
(* View schemas that differ in one thing each. *)
Level(cols, pk, sort, one, rels) == [cols |-> cols, pk |-> pk, sort |-> sort, one |-> one, rels |-> rels]
ByFirst == << <<1, TRUE>> >>
Kid(one) == Level(<<"id", "n">>, <<1>>, ByFirst, one, <<>>)
Turned == Level(<<"n", "id">>, <<2>>, << <<2, TRUE>> >>, FALSE, <<>>)
TopOf(child, project) ==
  Level(<<"id">>, <<1>>, ByFirst, FALSE, <<[name |-> "r", child |-> child, project |-> project]>>)
MCFlatSchemas ==
  {Kid(FALSE), TopOf(<<>>, <<>>), TopOf(<<Kid(FALSE)>>, <<>>), TopOf(<<Kid(TRUE)>>, <<>>), TopOf(<<Turned>>, <<>>),
   TopOf(<<Kid(FALSE)>>, <<[col |-> 2, identity |-> 0]>>), TopOf(<<Kid(FALSE)>>, <<[col |-> 2, identity |-> -1]>>)}
MCOtherSchemas == {Kid(FALSE)}
(* A publisher of one of these, its schema compared with all of them. *)
MCFlatStarts == MCFlatSchemas \ {TopOf(<<>>, <<>>), TopOf(<<Turned>>, <<>>), TopOf(<<Kid(FALSE)>>, <<[col |-> 2, identity |-> 0]>>)}

-----------------------------------------------------------------------------
(* Queries to plan over three tables, and two sets of statistics. *)
On(t, w) == [Ast(t) EXCEPT !.where = w]
F == Simple(Col(2), "Eq", Lit(1))
RelTo(child, n) == Correlated(Named(child, n), <<1>>, <<2>>)
Ex(child, not, flip) == ExistsCond(RelTo(child, 8), not, flip)
Flips == {None, Some(TRUE), Some(FALSE)}
Plain == {Ex(s, n, f) : s \in {On(2, None), On(3, Some(F))}, n \in BOOLEAN, f \in {None, Some(TRUE)}}
Conds == Plain \cup {Ex(On(2, Some(l)), FALSE, f) : l \in Plain, f \in Flips}
Wheres ==
  Conds \cup {AndOf(<<a, b>>) : a \in Conds, b \in Plain} \cup {OrOf(<<a, b>>) : a \in Plain \cup {F}, b \in Conds}
  \cup {OrOf(<<AndOf(<<a, OrOf(<<b, F, a>>)>>), b>>) : a \in Plain, b \in Plain}
MCPlanQueries ==
  {On(1, Some(w)) : w \in Wheres} \cup {Limit(On(1, Some(w)), 2) : w \in Conds}
  \cup {[On(1, Some(a)) EXCEPT !.related = <<RelTo(On(2, Some(b)), 7)>>] : a \in Plain \cup {F}, b \in Plain}
MCCostModels ==
  {[rows |-> <<8, 4, 2>>, filtered |-> <<4, 2, 1>>, startup |-> <<0, 0, 0>>, fanout |-> <<1, 1, 1>>, cut |-> 1],
   [rows |-> <<2, 4, 8>>, filtered |-> <<1, 4, 2>>, startup |-> <<1, 0, 3>>, fanout |-> <<1, 2, 2>>, cut |-> 2]}

-----------------------------------------------------------------------------
(* A SQLite table (id, a, b) with a nullable a, several sets of indexes, and  *)
(* a value that no f64 represents.                                            *)
Ix(cols, unique, partial, stat) == [cols |-> cols, unique |-> unique, partial |-> partial, stat |-> stat]
SqTable(rows, ixs, integer) ==
  [pk |-> <<1>>, idx |-> (PrimarySort(<<1>>) :> Range(rows)), tb |-> EmptyTable, ov |-> None, gate |-> {},
   rows |-> rows, optional |-> {2}, float |-> {3}, int |-> {2}, indexes |-> ixs, integer |-> integer, norowid |-> FALSE]
PkIx == Ix(<<1>>, TRUE, None, None)
MCSqlTables ==
  {SqTable(<< <<2, 1, 0>>, <<1, 1, 1>>, <<3, Null, 0>> >>,
           <<PkIx, Ix(<<2>>, FALSE, None, None), Ix(<<3>>, TRUE, Some(<<2, 0>>), None)>>, {}),
   SqTable(<< <<2, 1, 0>>, <<1, 0, 1>>, <<3, Null, 0>> >>,
           <<PkIx, Ix(<<2>>, FALSE, None, Some(<<9>>)), Ix(<<2, 0>>, TRUE, None, None)>>, {}),
   SqTable(<< <<3, 1, 1>>, <<1, Null, 9>>, <<2, 0, 0>> >>, <<>>, {1})}
NotOne == Simple(Col(2), "Ne", Lit(1))
NullA == Simple(Col(2), "Is", <<"null">>)
ZeroB == Simple(Col(3), "Eq", Lit(0))
Outside == Simple(Col(2), "NotIn", <<"list", {1}>>)
Never == Simple(Col(2), "Eq", <<"null">>)
Cn(order, cond, split) == [order |-> order, cond |-> cond, split |-> split]
MCSqlConnections ==
  { <<Cn(Some(<< <<2, TRUE>> >>), None, {}), Cn(Some(<<>>), Some(NotOne), {2})>>,
    <<Cn(Some(<< <<2, FALSE>> >>), Some(AndOf(<<Outside, ZeroB>>)), {}), Cn(Some(<<>>), Some(Never), {})>>,
    <<Cn(None, Some(OrOf(<<NullA, ZeroB>>)), {}), Cn(Some(<< <<2, TRUE>>, <<3, FALSE>> >>), Some(NullA), {})>> }
Rq(c, m, st, rev) == [c |-> c, multi |-> m, start |-> st, rev |-> rev]
MCSqlRequests(s) ==
  {Rq(None, <<>>, st, rev) : rev \in BOOLEAN,
     st \in {None} \cup {Start(r, at) : r \in {<<1, Null, 0>>, <<2, 1, 0>>}, at \in BOOLEAN}}
  \cup {Rq(Some(<< <<2, 1>> >>), <<>>, Start(<<1, 1, 0>>, FALSE), FALSE),
        Rq(Some(<< <<3, 0>> >>), << << << <<1, 1>> >>, << <<1, 2>> >> >> >>, None, FALSE)}
SqDomain == {<<1, a, b>> : a \in {Null, 0, 1}, b \in 0..1} \cup {<<4, 1, 0>>, <<4, Null, 1>>}
MCSqlChanges(s) ==
  LET known == Range(s.rows) \cup {<<5, 0, 0>>}
  IN {SrcAdd(r) : r \in SqDomain} \cup {SrcRemove(r) : r \in known}
     \cup {SrcEdit(n, o) : <<n, o>> \in {<<x, y>> \in SqDomain \X known :
             x # y /\ (x[1] = y[1] \/ \A r \in Range(s.rows) : r[1] # x[1])}}

-----------------------------------------------------------------------------
(* Frames in base 8, with lengths of two bytes. *)
MCHeaders ==
  {[kind |-> k, at |-> 9, run |-> None, totals |-> None] : k \in {"Rows", "Ddl", "Empty"}}
  \cup {[kind |-> k, at |-> -3, run |-> run, totals |-> t] :
          k \in {"Rows", "Empty"}, run \in {None, Some(<<1, 5>>), Some([i \in 1..8 |-> 1])},
          t \in {None, Some([rows |-> 2, cum |-> 63])}}
MCBodies == {<<>>, << <<2, 7>>, <<0>> >>, << <<>> >>, << <<1>>, <<1>>, <<1>> >>, << [i \in 1..64 |-> 1] >>}
MCMagic == <<2, 0>>

-----------------------------------------------------------------------------
(* Operator state of every kind under keys that are prefixes of others. *)
MCStoreKeys == {<<1>>, <<1, 0>>, <<2>>}
MCStoreSeeds == {{<<1>>, <<1, 0>>, <<1, 3>>, <<2>>}}
MCStorePrefixes == {<<>>, <<1>>}
MCStoreValues ==
  {[k |-> "Cap", size |-> 2, pks |-> << <<1>>, <<>> >>],
   [k |-> "Take", size |-> 1, bound |-> Some(<<Cell("Int", -2), Cell("Str", <<6, 1>>), Cell("Null", 0), FloatCell(TRUE, 3), Cell("Bool", 1)>>)],
   [k |-> "Take", size |-> 0, bound |-> None],
   [k |-> "Bound", row |-> <<Cell("Json", <<>>), Cell("Absent", 0)>>],
   [k |-> "Reduce", count |-> 2, accs |-> <<[int |-> -5, float |-> [neg |-> FALSE, mag |-> 3], nonNull |-> 2, floats |-> 1]>>]}

(* Every kind of operator state comes back as it was stored. *)
ASSUME ValuesRoundTrip == \A v \in MCStoreValues : DecodeStorageValue(EncodeStorageValue(v)) = Some(v)

-----------------------------------------------------------------------------
(* Three tables (id, a, b), (id, pid, u) with a unique u, and (id, cid). *)
Tab(rows, width, uniques) == [rows |-> rows, pk |-> <<1>>, width |-> width, uniques |-> << <<1>> >> \o uniques]
MCScalarTables ==
  {1 :> Tab({<<1, 1, 2>>, <<2, Null, 1>>, <<3, 2, 2>>}, 3, <<>>) @@ 2 :> Tab(c, 3, << <<3>> >>) @@ 3 :> Tab(d, 2, <<>>) :
     c \in {{<<1, 1, 2>>, <<2, 2, 1>>}, {<<1, 2, 2>>}, {<<2, 1, 1>>, <<1, 1, 3>>}},
     d \in {{<<1, 1>>, <<2, 1>>}, {<<2, 5>>}, {<<1, Null>>}}}
Eq(c, v) == Simple(Col(c), "Eq", Lit(v))
Sub(t, w) == Named([Ast(t) EXCEPT !.where = Some(w)], 7)
ByA(w) == Correlated(Sub(2, w), <<2>>, <<2>>)
ByAB(w) == Correlated(Sub(2, w), <<2, 3>>, <<2, 3>>)
Scalar(rel, not) == ExistsCond(rel, not, FALSE) @@ [scalar |-> TRUE]
Inner == Scalar(Correlated(Sub(3, Eq(1, 1)), <<1>>, <<2>>), FALSE)
One == Scalar(ByA(Eq(1, 1)), FALSE)
NoOne == Scalar(ByA(Eq(3, 2)), TRUE)
MCScalarQueries ==
  {Where(P, w) : w \in
    {One, NoOne, OrOf(<<NoOne, Eq(3, 1)>>), AndOf(<<One, NoOne>>), Eq(2, 1),
     Scalar(ByA(Inner), FALSE), Scalar(ByA(Inner), TRUE), ExistsCond(ByA(Inner), FALSE, FALSE),
     Scalar(ByAB(Eq(1, 1)), FALSE), Scalar(ByAB(Eq(1, 1)), TRUE),
     Scalar(ByA(AndOf(<<Eq(1, 1), Eq(2, 2)>>)), FALSE), Scalar(ByA(Eq(2, 1)), FALSE),
     Scalar(ByA(EmptyFold(TRUE)), FALSE),
     Scalar(ByA(Simple(Col(1), "Eq", <<"null">>)), TRUE), Scalar(ByA(Simple(Col(1), "Eq", <<"list", {1}>>)), TRUE),
     Scalar(Correlated(Sub(4, Eq(1, 1)), <<2>>, <<2>>), FALSE), Scalar(Correlated(Sub(2, Eq(1, 1)), <<2>>, <<4>>), FALSE)}}
  \cup {With(P, <<Correlated(Sub(2, Inner), <<2>>, <<2>>)>>)}
MCScalarWrites(t) ==
  {[t EXCEPT ![1].rows = @ \cup {r}] : r \in {<<4, 1, 1>>, <<5, Null, Null>>, <<6, 2, 3>>}}
  \cup {[t EXCEPT ![2].rows = {r \in @ : r[1] # 1}], [t EXCEPT ![2].rows = {IF r[1] = 1 THEN <<1, 5, 5>> ELSE r : r \in @}]}

-----------------------------------------------------------------------------
(* Connections guarded by either column, by two values, by none and not at    *)
(* all, which split edits of no column, of one and of both.                   *)
Wanting(guard, split) == [guard |-> guard, split |-> split, out |-> None]
By(c, S) == Some([col |-> c, values |-> S])
MCConns ==
  {Wanting(None, {1}), Wanting(By(1, {0}), {1, 2}), Wanting(By(1, {0, 1}), {}), Wanting(By(2, {1}), {2}), Wanting(By(2, {}), {1})}
MCConnChanges == {SrcAdd(<<0, 1>>), SrcAdd(<<1, 1>>), SrcEdit(<<1, 0>>, <<0, 1>>), SrcRemove(<<1, 0>>)}

-----------------------------------------------------------------------------
(* All the starts of the part that runs, one of each other. *)
From(p, S, idle) == IF part = p THEN S ELSE {idle}

IdleHost == CHOOSE h \in Locals : TRUE
IdleQuery == Ast(1)
IdleTables == CHOOSE t \in MCScalarTables : TRUE
IdleModel == CHOOSE m \in MCCostModels : TRUE
IdleSql == CHOOSE t \in MCSqlTables : TRUE

EngineInit ==
  /\ part \in Parts
  /\ DbInit(From("db", MCHosts, IdleHost))
  /\ TreeInit(From("tree", MCTreeSeeds, {}))
  /\ CellInit(IF part = "cells" THEN {"cells", "rows", "like"} ELSE {"none"})
  /\ FlatInit(From("flat", MCFlatStarts, Kid(FALSE)), From("flat", {FlatRows}, {}))
  /\ PlanInit(From("plan", MCPlanQueries, IdleQuery), From("plan", MCCostModels, IdleModel))
  /\ SqlInit(From("sql", MCSqlTables, IdleSql), From("sql", MCSqlConnections, <<>>))
  /\ FrameInit
  /\ StoreInit(From("store", MCStoreSeeds, {}))
  /\ ScalarInit(From("scalar", MCScalarTables, IdleTables), From("scalar", MCScalarQueries, IdleQuery))
  /\ ConnInit

EngineNext ==
  \/ /\ part = "db" /\ DbNext
     /\ UNCHANGED <<part, treeVars, cellVars, flatVars, planVars, sqlVars, frameVars, storeVars, scalarVars, connVars>>
  \/ /\ part = "tree" /\ TreeNext
     /\ UNCHANGED <<part, vars, cellVars, flatVars, planVars, sqlVars, frameVars, storeVars, scalarVars, connVars>>
  \/ /\ part = "cells" /\ CellNext
     /\ UNCHANGED <<part, vars, treeVars, flatVars, planVars, sqlVars, frameVars, storeVars, scalarVars, connVars>>
  \/ /\ part = "flat" /\ FlatNext
     /\ UNCHANGED <<part, vars, treeVars, cellVars, planVars, sqlVars, frameVars, storeVars, scalarVars, connVars>>
  \/ /\ part = "plan" /\ PlanQuery
     /\ UNCHANGED <<part, vars, treeVars, cellVars, flatVars, sqlVars, frameVars, storeVars, scalarVars, connVars>>
  \/ /\ part = "sql" /\ SqlNext
     /\ UNCHANGED <<part, vars, treeVars, cellVars, flatVars, planVars, frameVars, storeVars, scalarVars, connVars>>
  \/ /\ part = "frame" /\ FrameNext
     /\ UNCHANGED <<part, vars, treeVars, cellVars, flatVars, planVars, sqlVars, storeVars, scalarVars, connVars>>
  \/ /\ part = "store" /\ StoreNext
     /\ UNCHANGED <<part, vars, treeVars, cellVars, flatVars, planVars, sqlVars, frameVars, scalarVars, connVars>>
  \/ /\ part = "scalar" /\ ScalarNext
     /\ UNCHANGED <<part, vars, treeVars, cellVars, flatVars, planVars, sqlVars, frameVars, storeVars, connVars>>
  \/ /\ part = "conns" /\ ConnNext
     /\ UNCHANGED <<part, vars, treeVars, cellVars, flatVars, planVars, sqlVars, frameVars, storeVars, scalarVars>>

engineVars == <<part, vars, treeVars, cellVars, flatVars, planVars, sqlVars, frameVars, storeVars, scalarVars, connVars>>

EngineSpec == EngineInit /\ [][EngineNext]_engineVars
=============================================================================
