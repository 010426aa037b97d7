--------------------------------- MODULE Db ---------------------------------
(* The engine as its JavaScript host sees it (wasm/db.rs, optimistic.rs): one *)
(* graph over the registered tables, live queries with the view the host      *)
(* keeps of each, write transactions, and the cycle in which a batch of the   *)
(* server replaces the optimistic state.  A host call runs to its end: there  *)
(* is one thread.                                                             *)
EXTENDS Dataflow, QueryMeaning

CONSTANTS
  Catalog,        (* per table its [width, pk, int64, local]                  *)
  Writable(_, _), (* the rows hosts of a style write to a table               *)
  Deltas(_),      (* the batches the server sends, given the synced rows      *)
  JsMax,          (* the greatest integer a host can represent                *)
  (* The functions of these names, as the model gives them. *)
  DoRegisterQuery(_, _), DoTxnQuery(_, _, _), DoPushAll(_, _), DoRewind(_, _, _),
  DoDestroyPipeline(_, _), DoDeliverable(_, _), DoDeliver(_, _), DoAnswer(_, _)

VARIABLES
  g,        (* the graph, sources included                                    *)
  queries,  (* live queries by id: [ast, native, sink, manifest, schema,      *)
            (* recv, stale]                                                   *)
  opt,      (* the sync baseline of every tracked table                       *)
  cycle,    (* what the open cycle buffered by query id; None when closed     *)
  txn,      (* the open transaction: None or its staged changes               *)
  read,     (* what the open transaction read last, if it wrote nothing since *)
  host      (* what the host may still do: [seed, asks, style, staged, eager] *)
            (* and a number of calls of each kind; an eager one writes only   *)
            (* after it has registered its queries                            *)

vars == <<g, queries, opt, cycle, txn, read, host>>

-----------------------------------------------------------------------------
(* Tables. *)
Columns(t) == [width |-> Catalog[t].width, pk |-> Catalog[t].pk, int64 |-> Catalog[t].int64]

(* The host never turns change validation on. *)
EmptyGraph ==
  [src |-> <<>>, tables |-> <<>>, nodes |-> <<>>, op |-> <<>>, gens |-> <<>>, free |-> <<>>,
   rec |-> <<>>, err |-> None, fuel |-> None, strict |-> FALSE]

TableRows(h) == [t \in DOMAIN h.src |-> SourceRows(h.src[t])]

Contents(h) == [t \in DOMAIN h.src |-> [rows |-> SourceRows(h.src[t]), pk |-> h.src[t].pk]]

AddSource(h, t, rows) ==
  [h EXCEPT !.tables = @ @@ (t :> Columns(t)), !.src = @ @@ (t :> NewSource(Catalog[t].pk, rows))]

(* A local table has no baseline. *)
Track(o, t, rows) == IF Catalog[t].local THEN o ELSE o @@ (t :> rows)

Without(f, x) == Restrict(f, DOMAIN f \ {x})

-----------------------------------------------------------------------------
(* Integers a host cannot represent. *)
UnsafeRow(row) == \E i \in DOMAIN row : row[i] > JsMax

\* Mutant: only the rows at the top are looked at.
UnsafeNodeTop(node) == UnsafeRow(node.row)

RECURSIVE UnsafeNode(_)
UnsafeNode(node) ==
  \/ UnsafeRow(node.row)
  \/ \E i \in DOMAIN node.rels : \E j \in DOMAIN node.rels[i].th.nodes :
       UnsafeNode(node.rels[i].th.nodes[j])

UnsafeFlatChanges(fcs) ==
  \E i \in DOMAIN fcs :
    \/ \E j \in DOMAIN fcs[i].path : UnsafeRow(fcs[i].path[j].row)
    \/ UnsafeNode(fcs[i].op.node)
    \/ fcs[i].op.t = "Edit" /\ UnsafeRow(fcs[i].op.old.row)

Projected(changes, schema) ==
  LET flat == FlattenAll(changes)
  IN [i \in DOMAIN flat |-> ProjectFlatChange(flat[i], schema)]

-----------------------------------------------------------------------------
(* Registering a query: build, sink, hydrate; whatever fails on the way, the  *)
(* slots recorded so far are given back.                                      *)
NewReceiver == [top |-> <<>>, dead |-> FALSE]

AddChangeSink(h, input) == AddNode(h, [k |-> "sink", input |-> input], [caught |-> <<>>])

AddView(h, input, schema) ==
  AddNode(h, [k |-> "view", input |-> input, schema |-> schema], [items |-> <<>>, dirty |-> FALSE])

SetSinkEdge(h, top, sink) == SetOutEdge(h, top, Edge(sink, "single"))

(* Gives back what was recorded. *)
GiveBack(h) == DestroyPipeline([h EXCEPT !.rec = <<>>], h.rec)

(* A pipeline with its sink or view, and what it holds at first. *)
OpenPipeline(h, q) ==
  LET built == BuildPipeline(BeginRecording(h), q.ast)
      schema == ViewSchema(h.tables, q.ast)
      sunk == IF q.native THEN AddView(built.g, built.end, schema)
              ELSE AddChangeSink(built.g, built.end)
      wired == SetSinkEdge(sunk.g, built.end, sunk.end)
      hyd == IF q.native THEN TryHydrate(wired, sunk.end) @@ [adds |-> <<>>]
             ELSE TryHydrateChangeSink(wired, sunk.end)
  IN IF IsSome(built.bad) \/ ViewSchemaFails(h.tables, q.ast) THEN [g |-> built.g, bad |-> TRUE]
     ELSE [g |-> hyd.g, bad |-> IsSome(hyd.err), sink |-> sunk.end, schema |-> schema, adds |-> hyd.adds]

RegisterQuery(h, q) ==
  LET p == OpenPipeline(h, q)
      snapshot == Projected(p.adds, p.schema)
  IN IF p.bad THEN [g |-> GiveBack(p.g), bad |-> TRUE]
     ELSE IF UnsafeFlatChanges(snapshot) THEN [g |-> GiveBack(p.g), bad |-> TRUE]
     ELSE [g |-> [p.g EXCEPT !.rec = <<>>], bad |-> FALSE,
           reg |-> [ast |-> q.ast, native |-> q.native, sink |-> p.sink, manifest |-> p.g.rec,
                    schema |-> p.schema, stale |-> FALSE,
                    recv |-> ApplyAll(NewReceiver, snapshot, p.schema)]]

-----------------------------------------------------------------------------
(* Transactions.  Staged changes apply in order; a partial edit is completed  *)
(* from the row as the transaction sees it.                                   *)
ApplySourceChangeToTree(rows, ch, pk) ==
  LET without(r) == {x \in rows : ~SamePk(pk, x, r)}
  IN CASE ch.t = "Add" -> without(ch.row) \cup {ch.row}
       [] ch.t = "Remove" -> without(ch.row)
       [] ch.t = "Edit" -> {x \in without(ch.old) : ~SamePk(pk, x, ch.row)} \cup {ch.row}

\* Mutant: the first staged change of the key counts.
LookupEffectiveFirst(h, staged, t, probe) ==
  LET pk == h.tables[t].pk
      row(ch) == IF ch.t = "Remove" THEN None ELSE Some(ch.row)
      hits == {i \in DOMAIN staged : staged[i].table = t /\ SamePk(pk, staged[i].ch.row, probe)}
      live == {r \in SourceRows(h.src[t]) : SamePk(pk, r, probe)}
  IN IF hits # {} THEN row(staged[Min(hits)].ch)
     ELSE IF live = {} THEN None ELSE Some(CHOOSE r \in live : TRUE)

LookupEffective(h, staged, t, probe) ==
  LET pk == h.tables[t].pk
      row(ch) == IF ch.t = "Remove" THEN None ELSE Some(ch.row)
      hits == {i \in DOMAIN staged : staged[i].table = t /\ SamePk(pk, staged[i].ch.row, probe)}
      live == {r \in SourceRows(h.src[t]) : SamePk(pk, r, probe)}
  IN IF hits # {} THEN row(staged[Max(hits)].ch)
     ELSE IF live = {} THEN None ELSE Some(CHOOSE r \in live : TRUE)

StagedEdit(h, staged, t, row, old) ==
  LET base == LookupEffective(h, staged, t, row)
      partial == \E c \in DOMAIN row : row[c] = Absent
  IN IF ~partial \/ ~IsSome(base) THEN SrcEdit(row, old)
     ELSE SrcEdit([c \in DOMAIN row |-> IF row[c] = Absent THEN The(base)[c] ELSE row[c]],
                  The(base))

(* The rows of a table as the transaction sees them: a fork of the live table *)
(* with the staged changes of that table replayed on it.                      *)
EnsureFork(h, staged, t) ==
  FoldLeft(LAMBDA rows, s : IF s.table = t
                            THEN ApplySourceChangeToTree(rows, s.ch, h.tables[t].pk) ELSE rows,
           SourceRows(h.src[t]), staged)

RECURSIVE CollectAstTables(_)
CollectAstTables(ast) ==
  LET csqs == GatherCsqConditions(ast.where)
  IN {ast.table}
     \cup UNION {CollectAstTables(ast.related[i].sub) : i \in DOMAIN ast.related}
     \cup UNION {CollectAstTables(csqs[i].rel.sub) : i \in DOMAIN csqs}

(* A one-shot query of the transaction: a throwaway pipeline over forks of    *)
(* the tables it reads, torn down on every path.  It is refused for an unsafe *)
(* integer in a column it would not report, too.                              *)
TxnQuery(h, staged, ast) ==
  LET scratch == [h EXCEPT !.src = [t \in DOMAIN @ |->
                    IF t \in CollectAstTables(ast)
                    THEN NewSource(h.tables[t].pk, EnsureFork(h, staged, t)) ELSE @[t]]]
      p == OpenPipeline(scratch, [ast |-> ast, native |-> FALSE])
  IN [g |-> [GiveBack(p.g) EXCEPT !.src = h.src],
      out |-> IF p.bad THEN None
              ELSE IF \E i \in DOMAIN p.adds : UnsafeNode(p.adds[i].node) THEN None
              ELSE Some(ApplyAll(NewReceiver, Projected(p.adds, p.schema), p.schema).top)]

(* Pushes changes one after the other until one fails. *)
PushAll(h, changes) ==
  FoldLeft(LAMBDA a, c : IF IsSome(a.err) THEN a ELSE TrySourcePush(a.g, c.table, c.ch),
           [g |-> h, err |-> None], changes)

-----------------------------------------------------------------------------
(* Delivery. *)
Sinks(qs) == {id \in DOMAIN qs : ~qs[id].native}

CaughtBy(h, qs) == [id \in Sinks(qs) |-> h.op[qs[id].sink].caught]

DrainSinks(h, qs) == FoldSet(LAMBDA id, a : TakeSinkChanges(a, qs[id].sink), h, Sinks(qs))

DrainIntoCycle(buf, h, qs) ==
  [id \in DOMAIN buf \cup Sinks(qs) |->
     (IF id \in DOMAIN buf THEN buf[id] ELSE <<>>)
     \o (IF id \in Sinks(qs) THEN h.op[qs[id].sink].caught ELSE <<>>)]

(* All queries are projected and checked before any is told anything. *)
Deliverable(buf, qs) ==
  \A id \in DOMAIN buf \cap DOMAIN qs : ~UnsafeFlatChanges(Projected(buf[id], qs[id].schema))

(* A view that missed a delivery stays behind until it is registered again. *)
Deliver(buf, qs) ==
  [id \in DOMAIN qs |->
     IF qs[id].stale \/ id \notin DOMAIN buf THEN qs[id]
     ELSE [qs[id] EXCEPT !.recv = ApplyAll(@, Projected(buf[id], qs[id].schema), qs[id].schema)]]

Withheld(qs) == [id \in DOMAIN qs |-> [qs[id] EXCEPT !.stale = @ \/ ~qs[id].native]]

-----------------------------------------------------------------------------
(* The rewind. *)


StructuralDiff(head, target, pk) ==
  LET at(rows, r) == {x \in rows : SamePk(pk, x, r)}
      keys == {r \in head : r \notin target} \cup {r \in target \ head : at(head, r) = {}}
      order == Reverse(SortedRows(keys, PrimarySort(pk)))
      step(r) == IF r \notin head THEN SrcAdd(r)
                 ELSE IF at(target, r) = {} THEN SrcRemove(r)
                 ELSE SrcEdit(CHOOSE x \in at(target, r) : TRUE, r)
  IN [i \in DOMAIN order |-> step(order[i])]

(* The rows a table is rewound to. *)
RewindTarget(o, deltas, t, pk) ==
  FoldLeft(LAMBDA rows, ch : ApplySourceChangeToTree(rows, ch, pk), o[t],
           IF t \in DOMAIN deltas THEN deltas[t] ELSE <<>>)

(* Table by table: the baseline with the server's changes replaces the live   *)
(* rows and becomes the baseline.  A failed push leaves it half done.         *)
Rewind(h, o, deltas) ==
  LET names == SetToSortSeq(DOMAIN o, LAMBDA a, b : a < b)
      one(a, t) ==
        LET pk == a.g.tables[t].pk
            diff == StructuralDiff(SourceRows(a.g.src[t]), RewindTarget(a.opt, deltas, t, pk), pk)
            p == PushAll(a.g, [i \in DOMAIN diff |-> [table |-> t, ch |-> diff[i]]])
        IN IF IsSome(a.err) THEN a
           ELSE IF IsSome(p.err) THEN [a EXCEPT !.g = p.g, !.err = p.err]
           ELSE [a EXCEPT !.g = p.g, !.opt[t] = SourceRows(p.g.src[t])]
  IN IF ~(DOMAIN deltas \subseteq DOMAIN o) THEN [g |-> h, opt |-> o, err |-> Some("untracked")]
     ELSE FoldLeft(one, [g |-> h, opt |-> o, err |-> None], names)

(* What is left of a host that gave the engine up. *)
Gone(h) == [h EXCEPT !.style = "gone", !.writes = 0, !.reads = 0, !.registers = 0, !.destroys = 0, !.cycles = 0,
                     !.tables = 0]

-----------------------------------------------------------------------------
(* Host calls. *)
DbInit(hosts) ==
  /\ host \in hosts
  /\ g = FoldSet(LAMBDA t, h : AddSource(h, t, host.seed[t]), EmptyGraph, DOMAIN host.seed)
  /\ opt = FoldSet(LAMBDA t, o : Track(o, t, host.seed[t]), <<>>, DOMAIN host.seed)
  /\ queries = <<>>
  /\ cycle = None
  /\ txn = None
  /\ read = None

Call(kind) == host[kind] > 0 /\ host' = [host EXCEPT ![kind] = @ - 1]

(* A name is registered once; registering the same table again changes        *)
(* nothing, and neither does registering another under its name.              *)
RegisterTable(t) ==
  /\ Call("tables")
  /\ txn = None
  /\ t \notin DOMAIN g.src
  /\ g' = AddSource(g, t, {})
  /\ opt' = Track(opt, t, {})
  /\ UNCHANGED <<queries, cycle, txn, read>>

(* Refused while a query is connected to the table. *)
UnregisterTable(t) ==
  /\ Call("tables")
  /\ txn = None
  /\ t \in DOMAIN g.src
  /\ LiveConnCount(g.src[t].tb) = 0
  /\ g' = [g EXCEPT !.src = Without(@, t), !.tables = Without(@, t)]
  /\ opt' = Without(opt, t)
  /\ UNCHANGED <<queries, cycle, txn, read>>

NextId == IF queries = <<>> THEN 1 ELSE Max(DOMAIN queries) + 1

Query(q) ==
  LET r == DoRegisterQuery(g, q)
  IN /\ Call("registers")
     /\ txn = None
     /\ g' = r.g
     /\ queries' = IF r.bad THEN queries ELSE queries @@ (NextId :> r.reg)
     /\ UNCHANGED <<opt, cycle, txn, read>>

DestroyQuery(id) ==
  /\ Call("destroys")
  /\ txn = None
  /\ id \in DOMAIN queries
  /\ g' = DoDestroyPipeline(g, queries[id].manifest)
  /\ queries' = Without(queries, id)
  /\ UNCHANGED <<opt, cycle, txn, read>>

Write ==
  /\ Call("writes")
  /\ host.eager => host.registers = 0
  /\ txn = None
  /\ txn' = Some(<<>>)
  /\ UNCHANGED <<g, queries, opt, cycle, read>>

(* A mutator stages only what makes sense of the rows it sees: it adds rows   *)
(* under a free key, removes rows, and edits a row under its key or to a free *)
(* one.  A row with absent cells is a partial edit.                           *)
RowOps(rows, domain, pk) ==
  LET free(r) == \A x \in rows : ~SamePk(pk, x, r)
      whole == {r \in domain : \A c \in DOMAIN r : r[c] # Absent}
  IN {SrcAdd(r) : r \in {x \in whole : free(x)}}
     \cup {SrcRemove(r) : r \in rows}
     \cup UNION {{SrcEdit(r, old) : r \in {x \in domain \ {old} : SamePk(pk, x, old) \/ (x \in whole /\ free(x))}} :
                  old \in rows}

Stage(t) ==
  /\ IsSome(txn)
  /\ Len(The(txn)) < host.staged
  /\ t \in DOMAIN g.src
  /\ \E ch \in RowOps(EnsureFork(g, The(txn), t), Writable(host.style, t), g.tables[t].pk) :
       txn' = Some(Append(The(txn), [table |-> t, ch |->
                 IF ch.t = "Edit" THEN StagedEdit(g, The(txn), t, ch.row, ch.old) ELSE ch]))
  /\ read' = None
  /\ UNCHANGED <<g, queries, opt, cycle, host>>

(* A mutator runs a query. *)
ReadInTxn(q) ==
  LET r == DoTxnQuery(g, The(txn), q.ast)
  IN /\ Call("reads")
     /\ IsSome(txn)
     /\ g' = r.g
     /\ read' = Some([ast |-> q.ast, out |-> r.out])
     /\ UNCHANGED <<queries, opt, cycle, txn>>

(* Pushes the staged changes, then delivers, or buffers inside a cycle.  When *)
(* a push fails what was caught is thrown away and the changes before it stay *)
(* applied.                                                                   *)
Commit ==
  /\ IsSome(txn)
  /\ \E p \in {DoPushAll(g, The(txn))} :
       LET buf == CaughtBy(p.g, queries)
           ok == DoDeliverable(buf, queries)
       IN /\ \/ /\ IsSome(p.err)
                /\ queries' = Withheld(queries)
                /\ UNCHANGED cycle
             \/ /\ ~IsSome(p.err)
                /\ IsSome(cycle)
                /\ cycle' = Some(DrainIntoCycle(The(cycle), p.g, queries))
                /\ UNCHANGED queries
             \/ /\ ~IsSome(p.err)
                /\ cycle = None
                /\ queries' = IF ok THEN DoDeliver(buf, queries) ELSE Withheld(queries)
                /\ UNCHANGED cycle
          /\ g' = DrainSinks(p.g, queries)
  /\ txn' = None
  /\ read' = None
  /\ UNCHANGED <<opt, host>>

Rollback ==
  /\ IsSome(txn)
  /\ txn' = None
  /\ read' = None
  /\ UNCHANGED <<g, queries, opt, cycle, host>>

(* After a failed rewind the host discards the engine. *)
ServerBatchBegin ==
  /\ host.cycles > 0
  /\ txn = None
  /\ cycle = None
  /\ \E deltas \in Deltas(opt) :
       LET r == DoRewind(g, opt, deltas)
       IN /\ opt' = r.opt
          /\ \/ /\ IsSome(r.err)
                /\ g' = r.g
                /\ queries' = Withheld(queries)
                /\ host' = Gone(host)
                /\ UNCHANGED cycle
             \/ /\ ~IsSome(r.err)
                /\ g' = DrainSinks(r.g, queries)
                /\ cycle' = Some(DrainIntoCycle(<<>>, r.g, queries))
                /\ Call("cycles")
                /\ UNCHANGED queries
  /\ UNCHANGED <<txn, read>>

ServerBatchEnd ==
  LET buf == DrainIntoCycle(The(cycle), g, queries)
  IN /\ txn = None
     /\ IsSome(cycle)
     /\ g' = DrainSinks(g, queries)
     /\ queries' = IF DoDeliverable(buf, queries) THEN DoDeliver(buf, queries) ELSE Withheld(queries)
     /\ cycle' = None
     /\ UNCHANGED <<opt, txn, read, host>>

DbNext ==
  \/ \E t \in DOMAIN Catalog : RegisterTable(t) \/ UnregisterTable(t) \/ Stage(t)
  \/ \E q \in host.asks : Query(q) \/ ReadInTxn(q)
  \/ \E id \in DOMAIN queries : DestroyQuery(id)
  \/ Write
  \/ Commit
  \/ Rollback
  \/ ServerBatchBegin
  \/ ServerBatchEnd

-----------------------------------------------------------------------------
(* Properties. *)

(* What a host holds of a query. *)
Shown(id) == IF queries[id].native THEN g.op[queries[id].sink].items ELSE queries[id].recv.top

(* Every view a host keeps is the answer of its query over the rows as they   *)
(* are, whatever writes, rewinds and errors came before; a view fed by events *)
(* once the cycle is over.  Incremental maintenance (graph.rs push, view.rs   *)
(* apply_change) equals recomputation.                                        *)
ViewsExact ==
  \A id \in DOMAIN queries :
    ~queries[id].stale /\ txn = None /\ (queries[id].native \/ cycle = None) =>
      Shown(id) = DoAnswer(Contents(g), queries[id].ast)

(* A mutator reads its own writes: a query of the transaction answers over    *)
(* the rows its commit will leave (db.rs, WriteTxn::query), and a lookup by   *)
(* key returns the row there (lookup_effective), except under a key that a    *)
(* staged edit moved a row away from.                                         *)
TxnReads ==
  IsSome(txn) /\ The(txn) # <<>> =>
    LET staged == The(txn)
        forked == [t \in DOMAIN g.src |-> [rows |-> EnsureFork(g, staged, t), pk |-> g.tables[t].pk]]
        at(t, probe) == {r \in forked[t].rows : SamePk(forked[t].pk, r, probe)}
        moved(t, probe) ==
          \E i \in DOMAIN staged : staged[i].table = t /\ staged[i].ch.t = "Edit"
                                   /\ SamePk(forked[t].pk, staged[i].ch.old, probe)
                                   /\ ~SamePk(forked[t].pk, staged[i].ch.row, probe)
    IN /\ IsSome(read) /\ IsSome(The(read).out) =>
            The(The(read).out) = DoAnswer(forked, The(read).ast)
       /\ \A t \in DOMAIN g.src : \A probe \in SourceRows(g.src[t]) \cup forked[t].rows :
            ~moved(t, probe) => Range(LookupEffective(g, staged, t, probe)) = at(t, probe)

(* Between host calls every slot of the arena and every connection belongs to *)
(* one live query: a refused registration, a query of a transaction and a     *)
(* destroyed query leave nothing behind, and no free slot is still referred   *)
(* to (graph.rs, destroy_pipeline; source_common.rs, ConnTable::destroy).     *)
NoDebris ==
  LET owned(id) == {queries[id].manifest[i].idx : i \in DOMAIN queries[id].manifest}
      all == UNION {owned(id) : id \in DOMAIN queries}
      slots(t) == {g.nodes[n].slot : n \in {m \in all : g.nodes[m].k = "conn" /\ g.nodes[m].t = t}}
      indexed(ix) == ix.scan \cup UNION {ix.eq[k] : k \in DOMAIN ix.eq}
  IN /\ \A a, b \in DOMAIN queries : a # b => owned(a) \cap owned(b) = {}
     /\ all = {n \in DOMAIN g.nodes : g.nodes[n].k # "free"}
     /\ Len(g.free) = Len(g.nodes) - Cardinality(all) /\ Range(g.free) \cap all = {}
     /\ \A t \in DOMAIN g.src :
          LET tb == g.src[t].tb
          IN /\ {i \in DOMAIN tb.conns : IsSome(tb.conns[i].out)} = slots(t)
             /\ indexed(tb.index) \subseteq slots(t)
             /\ Range(tb.free) = DOMAIN tb.conns \ slots(t)

(* Between host calls nothing is in flight: no overlay, no join half way      *)
(* through its parents, no union collecting its branches, no event left in a  *)
(* sink for the next delivery, no error parked, and no operator met a case it *)
(* panics on (gen_push, push_join_child, push_union_fan_out, commit); a host  *)
(* whose rewind failed has given the engine up.                               *)
AtRest ==
  host.style # "gone" =>
  /\ g.err = None
  /\ \A t \in DOMAIN g.src : g.src[t].ov = None /\ g.src[t].gate = {}
  /\ \A n \in DOMAIN g.nodes :
       /\ g.nodes[n].k = "join" => g.op[n] = [ov |-> None, pos |-> None]
       /\ g.nodes[n].k = "ufi" => g.op[n].acc = None
       /\ g.nodes[n].k = "exists" => ~g.op[n].inPush
       /\ g.nodes[n].k = "sink" => g.op[n].caught = <<>>

(* A host call, also one that is refused or fails half-way, leaves nothing in *)
(* flight and nothing behind.                                                 *)
Settled == AtRest /\ NoDebris

RECURSIVE SafeEntries(_)
SafeEntries(items) ==
  \A i \in DOMAIN items :
    ~UnsafeRow(items[i].row) /\ \A s \in DOMAIN items[i].rels : SafeEntries(items[i].rels[s])

(* No integer that a host would round reaches it, at any depth of a result,   *)
(* by snapshot or by event (db.rs, check_js_safe).                            *)
HostIntegersSafe == \A id \in Sinks(queries) : SafeEntries(queries[id].recv.top)

=============================================================================
