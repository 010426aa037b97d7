--------------------------- MODULE NormalizedSync ---------------------------
(***************************************************************************)
(* The client's shared base rows under several normalized query streams:   *)
(* packages/normalized/src/sync.ts (the cross-query refcount and column    *)
(* union), fed by packages/remote/src/remote-source.ts and the subscriber  *)
(* of packages/remote/src/normalized.ts (epoch, seq, gap recovery), served *)
(* by the normalized reference server.                                     *)
(*                                                                         *)
(* A base row is one key's cells; a query contributes the columns of its   *)
(* layout.  The primary key is the key itself and no member of Col; a      *)
(* server column the client lacks is dropped by scatter and is no member   *)
(* either.  A query id is never used again once it is given up.            *)
(***************************************************************************)
EXTENDS Naturals, Sequences

CONSTANTS
  Query,        \* the source qids a client may register
  Key,          \* the (table, pk) keys of the rows
  Col, Val,     \* the client's non-key columns, and cell values
  Absent,       \* the cell of a column no query contributes
  Narrowing,    \* BOOLEAN: a re-subscribe may drop a column of the layout
  MaxCommits, MaxTroubles, MaxDown

ASSUME SyncAssumption ==
  /\ Absent \notin Val
  /\ Narrowing \in BOOLEAN
  /\ MaxCommits \in Nat /\ MaxTroubles \in Nat /\ MaxDown \in Nat

VARIABLES
  \* the server
  rows,         \* Key -> the row's cells, or NoRow
  match,        \* Query -> the keys of its footprint
  serving,      \* the queries it streams
  layout,       \* Query -> the columns it streams
  srvEpoch,     \* Query -> epoch of the last registration, 0 if none
  srvSeq,       \* Query -> seq of the last batch sent in that epoch
  commits, troubles,
  \* the wire: one ordered socket
  up, down,
  \* RemoteNormalizedSource and its subscribers
  subs,         \* the registered queries
  life,         \* Query -> "new", "retained" or "gone"
  phase,        \* Query -> "none" (no subscriber), "snapshot" or "live"
  epoch, lastSeq,
  resubscribing, timers,
  \* NormalizedSync
  refs,         \* Key -> the queries that reference the row ({}: no base entry)
  cell,         \* Key -> Col -> the union row's cell
  foot,         \* Query -> its footprint
  qcols         \* Query -> the columns it contributes

srvVars  == <<rows, match, serving, layout, srvEpoch, srvSeq, commits>>
srcVars  == <<subs, life, phase, epoch, lastSeq, resubscribing, timers>>
syncVars == <<refs, cell, foot, qcols>>
vars     == <<srvVars, troubles, up, down, srcVars, syncVars>>

NoRow   == <<>>
Row     == [Col -> Val]
UnionRow == [Col -> Val \cup {Absent}]
WireRow == UNION {[C -> Val] : C \in SUBSET Col}
WireOp  == [op: {"add", "edit", "remove"}, row: WireRow]
Ops     == UNION {[K -> WireOp] : K \in SUBSET Key}
Blank   == [c \in Col |-> Absent]

Frame ==
  [t: {"hello"}, q: Query, epoch: Nat, cols: SUBSET Col]
    \cup [t: {"batch"}, q: Query, epoch: Nat, seq: Nat, ops: Ops]
    \cup [t: {"error"}, q: Query, retryable: BOOLEAN]

\* Type invariant of the server, the wire, the source and the shared base.
TypeOK ==
  /\ rows \in [Key -> Row \cup {NoRow}]
  /\ match \in [Query -> SUBSET Key] /\ serving \in SUBSET Query
  /\ layout \in [Query -> SUBSET Col]
  /\ srvEpoch \in [Query -> Nat] /\ srvSeq \in [Query -> Nat]
  /\ commits \in Nat /\ troubles \in Nat
  /\ up \in Seq([t: {"subscribe", "unsubscribe"}, q: Query]) /\ down \in Seq(Frame)
  /\ subs \in SUBSET Query /\ life \in [Query -> {"new", "retained", "gone"}]
  /\ phase \in [Query -> {"none", "snapshot", "live"}]
  /\ epoch \in [Query -> Nat] /\ lastSeq \in [Query -> Nat]
  /\ resubscribing \in SUBSET Query /\ timers \in SUBSET Query
  /\ refs \in [Key -> SUBSET Query] /\ cell \in [Key -> UnionRow]
  /\ foot \in [Query -> SUBSET Key] /\ qcols \in [Query -> SUBSET Col]

-----------------------------------------------------------------------------
(* The refcount and the column union: one query's op on one row. *)

\* Mutant: a projected row is stored as it came.
ScatterNone(q, row) == row

\* A wire row at its base positions, Absent elsewhere.
Scatter(q, row) == [c \in Col |-> IF c \in qcols[q] THEN row[c] ELSE Absent]

\* mergeInto: the incoming row's present cells over the shared row.
MergeInto(cur, incoming) == [c \in Col |-> IF incoming[c] # Absent THEN incoming[c] ELSE cur[c]]

\* The columns the referencing queries contribute.
PresentCols(qs) == UNION {qcols[q] : q \in qs}

\* add: one reference per query; enter at 0 -> 1, widen at 1 -> N.
AddKey(q, k, row) ==
  IF k \in foot[q] THEN cell[k]
  ELSE IF refs[k] = {} THEN row
  ELSE MergeInto(cell[k], row)

\* Mutant: the shared row is not narrowed when a query leaves it.
RemoveKeyWide(q, k) ==
  IF k \notin foot[q] THEN cell[k]
  ELSE IF refs[k] \subseteq {q} THEN Blank
  ELSE cell[k]

\* removeKey: leave at N -> 0, else narrow to what the others contribute.
RemoveKey(q, k) ==
  IF k \notin foot[q] THEN cell[k]
  ELSE IF refs[k] \subseteq {q} THEN Blank
  ELSE [c \in Col |-> IF c \in PresentCols(refs[k] \ {q}) THEN cell[k][c] ELSE Absent]

\* edit: merge into a tracked row.
EditKey(k, row) == IF refs[k] = {} THEN cell[k] ELSE MergeInto(cell[k], row)

\* The ops of one query, at most one per key, folded into the shared rows.
FoldOps(q, ops) ==
  LET added   == {k \in DOMAIN ops : ops[k].op = "add"}
      removed == {k \in DOMAIN ops : ops[k].op = "remove"}
  IN /\ foot' = [foot EXCEPT ![q] = (@ \cup added) \ removed]
     /\ refs' = [k \in Key |-> IF k \in added THEN refs[k] \cup {q}
                               ELSE IF k \in removed /\ k \in foot[q] THEN refs[k] \ {q}
                               ELSE refs[k]]
     /\ cell' = [k \in Key |-> IF k \in added THEN AddKey(q, k, Scatter(q, ops[k].row))
                               ELSE IF k \in removed THEN RemoveKey(q, k)
                               ELSE IF k \in DOMAIN ops THEN EditKey(k, Scatter(q, ops[k].row))
                               ELSE cell[k]]

\* rehydrate: the diff of a snapshot's adds against the footprint.
RehydrateOps(q, ops) ==
  [k \in DOMAIN ops \cup foot[q] |->
     IF k \notin DOMAIN ops THEN [op |-> "remove", row |-> <<>>]
     ELSE IF k \in foot[q] THEN [ops[k] EXCEPT !.op = "edit"]
     ELSE ops[k]]

-----------------------------------------------------------------------------
(* The source: subscribe, validate, recover. *)

\* The query's subscriber, with its phase and seq, goes.
CloseSubscriber(q) == phase' = [phase EXCEPT ![q] = "none"] /\ lastSeq' = [lastSeq EXCEPT ![q] = 0]

Take == down # <<>> /\ down' = Tail(down)

\* The query's subscribe goes out, or its lease does not resolve; either way it
\* supersedes a scheduled retry.
Subscribe(q) ==
  /\ timers' = timers \ {q}
  /\ \/ /\ up' = Append(up, [t |-> "subscribe", q |-> q])
        /\ resubscribing' = resubscribing \cup IF life[q] = "new" THEN {} ELSE {q}
        /\ UNCHANGED troubles
     \/ /\ troubles < MaxTroubles /\ troubles' = troubles + 1
        /\ resubscribing' = resubscribing \ {q}
        /\ UNCHANGED up

\* retainRemote's registerQuery on the source.
RegisterQuery(q) ==
  /\ life[q] = "new"
  /\ life' = [life EXCEPT ![q] = "retained"] /\ subs' = subs \cup {q}
  /\ Subscribe(q)
  /\ UNCHANGED <<srvVars, down, phase, epoch, lastSeq, syncVars>>

\* Mutant: the query is forgotten without giving its rows up.
DropQueryOnly(q) == foot' = [foot EXCEPT ![q] = {}] /\ UNCHANGED <<refs, cell>>

\* dropQuery: give the footprint up, forget the query.
DropQuery(q) == FoldOps(q, [k \in foot[q] |-> [op |-> "remove", row |-> <<>>]])

\* The last retain of the query goes: unregister at the source, drop the footprint.
UnregisterQuery(q) ==
  /\ life[q] = "retained"
  /\ life' = [life EXCEPT ![q] = "gone"]
  /\ subs' = subs \ {q} /\ timers' = timers \ {q}
  /\ up' = Append(up, [t |-> "unsubscribe", q |-> q])
  /\ DropQuery(q)
  /\ qcols' = [qcols EXCEPT ![q] = {}]
  /\ CloseSubscriber(q) /\ epoch' = [epoch EXCEPT ![q] = 0]
  /\ resubscribing' = resubscribing \ {q}
  /\ UNCHANGED <<srvVars, troubles, down>>

\* A frame of a query that is not registered is ignored.
IgnoreFrame ==
  /\ Take /\ Head(down).q \notin subs
  /\ UNCHANGED <<srvVars, troubles, up, srcVars, syncVars>>

\* openSubscriber, and the hello's column map.
OnHello ==
  LET f == Head(down)
  IN /\ Take /\ f.q \in subs /\ f.t = "hello"
     /\ phase' = [phase EXCEPT ![f.q] = "snapshot"]
     /\ epoch' = [epoch EXCEPT ![f.q] = f.epoch]
     /\ lastSeq' = [lastSeq EXCEPT ![f.q] = 0]
     /\ resubscribing' = resubscribing \ {f.q}
     /\ qcols' = [qcols EXCEPT ![f.q] = f.cols]
     /\ UNCHANGED <<srvVars, troubles, up, subs, life, timers, refs, cell, foot>>

\* Mutant: a batch ahead of the expected seq is applied.
AppliesGap(f) ==
  /\ phase[f.q] # "none" /\ f.epoch = epoch[f.q]
  /\ IF phase[f.q] = "snapshot" THEN f.seq = 0 ELSE f.seq > lastSeq[f.q]

\* What the subscriber makes of a batch: the next one of its epoch is applied.
Applies(f) ==
  /\ phase[f.q] # "none" /\ f.epoch = epoch[f.q]
  /\ f.seq = IF phase[f.q] = "snapshot" THEN 0 ELSE lastSeq[f.q] + 1

\* A batch of an older epoch, one already applied, or one with no subscriber.
Skips(f) ==
  \/ phase[f.q] = "none" \/ f.epoch < epoch[f.q]
  \/ phase[f.q] = "live" /\ f.epoch = epoch[f.q] /\ f.seq <= lastSeq[f.q]

OnSnapshot ==
  LET f == Head(down)
  IN /\ Take /\ f.q \in subs /\ f.t = "batch" /\ Applies(f) /\ f.seq = 0
     /\ phase' = [phase EXCEPT ![f.q] = "live"]
     /\ FoldOps(f.q, RehydrateOps(f.q, f.ops))
     /\ UNCHANGED <<srvVars, troubles, up, subs, life, epoch, lastSeq, resubscribing, timers, qcols>>

OnBatch ==
  LET f == Head(down)
  IN /\ Take /\ f.q \in subs /\ f.t = "batch" /\ Applies(f) /\ f.seq # 0
     /\ lastSeq' = [lastSeq EXCEPT ![f.q] = f.seq]
     /\ FoldOps(f.q, f.ops)
     /\ UNCHANGED <<srvVars, troubles, up, subs, life, phase, epoch, resubscribing, timers, qcols>>

SkipBatch ==
  /\ Take /\ Head(down).q \in subs /\ Head(down).t = "batch" /\ Skips(Head(down))
  /\ UNCHANGED <<srvVars, troubles, up, srcVars, syncVars>>

\* A gap: close the subscriber and re-subscribe, unless that is already under way.
OnGap ==
  LET f == Head(down)
  IN /\ Take /\ f.q \in subs /\ f.t = "batch" /\ ~Applies(f) /\ ~Skips(f)
     /\ IF f.q \in resubscribing
          THEN UNCHANGED <<phase, lastSeq, resubscribing, up, timers, troubles>>
          ELSE CloseSubscriber(f.q) /\ Subscribe(f.q)
     /\ UNCHANGED <<srvVars, subs, life, epoch, syncVars>>

\* onQueryError: a retryable error schedules one re-subscribe, another is final.
OnQueryError ==
  LET f == Head(down)
  IN /\ Take /\ f.q \in subs /\ f.t = "error"
     /\ \/ /\ f.retryable /\ f.q \notin timers
           /\ CloseSubscriber(f.q)
           /\ resubscribing' = resubscribing \cup {f.q}
           /\ timers' = timers \cup {f.q}
           /\ UNCHANGED <<subs, epoch>>
        \/ /\ f.retryable /\ f.q \in timers
           /\ UNCHANGED <<phase, lastSeq, resubscribing, timers, subs, epoch>>
        \/ /\ ~f.retryable
           /\ subs' = subs \ {f.q} /\ timers' = timers \ {f.q}
           /\ CloseSubscriber(f.q) /\ epoch' = [epoch EXCEPT ![f.q] = 0]
           /\ resubscribing' = resubscribing \ {f.q}
     /\ UNCHANGED <<srvVars, troubles, up, life, syncVars>>

RetryTimer(q) ==
  /\ q \in timers
  /\ Subscribe(q)
  /\ UNCHANGED <<srvVars, down, subs, life, phase, epoch, lastSeq, syncVars>>

-----------------------------------------------------------------------------
(* The server. *)

\* dropQuery and conn.delete: the registration goes.
Deregister(q) ==
  /\ serving' = serving \ {q}
  /\ match' = [match EXCEPT ![q] = {}]
  /\ srvEpoch' = [srvEpoch EXCEPT ![q] = 0]
  /\ srvSeq' = [srvSeq EXCEPT ![q] = 0]

Project(q, row) == [c \in layout[q] |-> row[c]]

\* A subscribe: tear the previous registration down, answer hello and snapshot,
\* or an error.
Answer ==
  LET q == Head(up).q
  IN /\ up # <<>> /\ Head(up).t = "subscribe"
     /\ up' = Tail(up)
     /\ \/ \E C \in SUBSET Col, K \in SUBSET {k \in Key : rows[k] # NoRow} :
             LET e == srvEpoch[q] + 1
             IN /\ Len(down) + 2 <= MaxDown
                /\ Narrowing \/ layout[q] \subseteq C
                /\ match' = [match EXCEPT ![q] = K]
                /\ layout' = [layout EXCEPT ![q] = C]
                /\ serving' = serving \cup {q}
                /\ srvEpoch' = [srvEpoch EXCEPT ![q] = e]
                /\ srvSeq' = [srvSeq EXCEPT ![q] = 0]
                /\ down' = down \o
                     << [t |-> "hello", q |-> q, epoch |-> e, cols |-> C],
                        [t |-> "batch", q |-> q, epoch |-> e, seq |-> 0,
                         ops |-> [k \in K |-> [op |-> "add", row |-> [c \in C |-> rows[k][c]]]]] >>
                /\ UNCHANGED troubles
        \/ \E r \in BOOLEAN :
             /\ troubles < MaxTroubles /\ troubles' = troubles + 1
             /\ Len(down) < MaxDown
             /\ Deregister(q)
             /\ down' = Append(down, [t |-> "error", q |-> q, retryable |-> r])
             /\ UNCHANGED layout
     /\ UNCHANGED <<rows, commits, srcVars, syncVars>>

Unsubscribed ==
  /\ up # <<>> /\ Head(up).t = "unsubscribe"
  /\ up' = Tail(up)
  /\ Deregister(Head(up).q)
  /\ layout' = [layout EXCEPT ![Head(up).q] = {}]
  /\ UNCHANGED <<rows, commits, troubles, down, srcVars, syncVars>>

\* A stream already registered fails: the server gives the query up.
Fault(q) ==
  /\ q \in serving
  /\ troubles < MaxTroubles /\ troubles' = troubles + 1
  /\ Len(down) < MaxDown
  /\ Deregister(q)
  /\ down' = Append(down, [t |-> "error", q |-> q, retryable |-> TRUE])
  /\ UNCHANGED <<rows, layout, commits, up, srcVars, syncVars>>

\* How a query's footprint sees one row's change; in: the queries it matches now.
RowOp(q, k, new, in) ==
  IF k \in match[q] /\ q \notin in THEN [op |-> "remove", row |-> Project(q, rows[k])]
  ELSE IF k \notin match[q] THEN [op |-> "add", row |-> Project(q, new)]
  ELSE [op |-> "edit", row |-> Project(q, new)]

\* The orders of a set that fit on the wire.
Orders(S) ==
  UNION {{order \in [1 .. n -> S] : \A x \in S : \E i \in 1 .. n : \A j \in 1 .. n : order[j] = x <=> j = i}
         : n \in 0 .. MaxDown}

\* The queries a row's change concerns, and the batch that tells one of them.
TouchedBy(k, new, in) ==
  {q \in serving : (k \in match[q]) # (q \in in) \/ (q \in in /\ rows[k] # new)}
Wrote(k, new, in, q) ==
  [t |-> "batch", q |-> q, epoch |-> srvEpoch[q], seq |-> srvSeq[q] + 1,
   ops |-> [x \in {k} |-> RowOp(q, k, new, in)]]

\* A transaction writes one row; the footprints of the served queries follow, and
\* each affected query's batch goes out, in any order.
WriteRow(k, new, in) ==
  /\ commits < MaxCommits /\ commits' = commits + 1
  /\ new = NoRow => in = {}
  /\ rows' = [rows EXCEPT ![k] = new]
  /\ match' = [q \in Query |-> IF q \in serving
                                 THEN IF q \in in THEN match[q] \cup {k} ELSE match[q] \ {k}
                                 ELSE match[q]]
  /\ srvSeq' = [q \in Query |-> IF q \in TouchedBy(k, new, in) THEN srvSeq[q] + 1 ELSE srvSeq[q]]
  /\ \E order \in Orders(TouchedBy(k, new, in)) :
       /\ Len(down) + Len(order) <= MaxDown
       /\ down' = down \o [i \in DOMAIN order |-> Wrote(k, new, in, order[i])]
  /\ UNCHANGED <<serving, layout, srvEpoch, troubles, up, srcVars, syncVars>>

Commit == \E k \in Key, new \in Row \cup {NoRow}, in \in SUBSET serving : WriteRow(k, new, in)

\* The sequence without its r-th element.
Without(s, r) == [i \in 1 .. Len(s) - 1 |-> s[IF i < r THEN i ELSE i + 1]]

\* A batch, or a snapshot, is lost on its way.
Lose ==
  /\ troubles < MaxTroubles /\ troubles' = troubles + 1
  /\ \E i \in DOMAIN down : down[i].t = "batch" /\ down' = Without(down, i)
  /\ UNCHANGED <<srvVars, up, srcVars, syncVars>>

-----------------------------------------------------------------------------
Init ==
  /\ rows \in [Key -> Row \cup {NoRow}] /\ match = [q \in Query |-> {}]
  /\ serving = {} /\ layout = [q \in Query |-> {}]
  /\ srvEpoch = [q \in Query |-> 0] /\ srvSeq = [q \in Query |-> 0]
  /\ commits = 0 /\ troubles = 0
  /\ up = <<>> /\ down = <<>>
  /\ subs = {} /\ life = [q \in Query |-> "new"] /\ phase = [q \in Query |-> "none"]
  /\ epoch = [q \in Query |-> 0] /\ lastSeq = [q \in Query |-> 0]
  /\ resubscribing = {} /\ timers = {}
  /\ refs = [k \in Key |-> {}] /\ cell = [k \in Key |-> Blank]
  /\ foot = [q \in Query |-> {}] /\ qcols = [q \in Query |-> {}]

Client ==
  \/ \E q \in Query : RegisterQuery(q) \/ UnregisterQuery(q) \/ RetryTimer(q)
  \/ IgnoreFrame \/ OnHello \/ OnSnapshot \/ OnBatch \/ SkipBatch \/ OnGap \/ OnQueryError

Server == Answer \/ Unsubscribed \/ Commit \/ Lose \/ \E q \in Query : Fault(q)

Next == Client \/ Server

Spec == Init /\ [][Next]_vars

-----------------------------------------------------------------------------
(* Properties. *)

\* The refcount of a base row is exactly the queries whose footprint holds it, and
\* only a row so held has cells: no row leaks after its last query, none is
\* dropped under a query that still shows it.
RefsAgree ==
  \A k \in Key : /\ refs[k] = {q \in Query : k \in foot[q]}
                 /\ refs[k] = {} => cell[k] = Blank

\* A shared row has a cell exactly where some query that references it contributes
\* one: no column outlives the last query that streams it, and every query whose
\* subscriber is live finds all of its own columns.
UnionExact ==
  \A k \in Key :
    LET present == {c \in Col : cell[k][c] # Absent}
    IN /\ present \subseteq PresentCols(refs[k])
       /\ \A q \in refs[k] : phase[q] = "live" => qcols[q] \subseteq present

\* A query whose subscriber has reached the server's epoch and seq holds exactly
\* the server's footprint, and every cell it contributes is the server's, whatever
\* the other queries lost, repeated or gave up meanwhile.  Epochs start over once
\* the server has given a query up, so a hello on its way is a later epoch.
UpToDate(q) ==
  /\ q \in subs \cap serving /\ phase[q] = "live"
  /\ epoch[q] = srvEpoch[q] /\ lastSeq[q] = srvSeq[q]
  /\ \A i \in DOMAIN down : down[i].t = "hello" => down[i].q # q
SyncedExact ==
  \A q \in Query : UpToDate(q) =>
    /\ foot[q] = match[q]
    /\ \A k \in foot[q] : \A c \in layout[q] : cell[k][c] = rows[k][c]

=============================================================================
