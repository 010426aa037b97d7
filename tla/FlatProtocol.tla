---------------------------- MODULE FlatProtocol ----------------------------
(* The subscription protocol of the flat change stream (flat_protocol.rs) and *)
(* the wire form of the schema it carries (wire_schema.rs), over a channel    *)
(* that loses, repeats and reorders frames.  A row's changes are a count that *)
(* goes up and down: applying one twice is not harmless.                      *)
EXTENDS Rows

CONSTANTS
  FlatRows,       (* top-level rows of the result                             *)
  FlatSchemas,    (* the view schemas a publisher may be opened over          *)
  OtherSchemas,   (* those it may be opened over the next time                *)
  Comparators,    (* comparator versions of the handshakes met                *)
  ComparatorVersion,
  MaxPerChunk,    (* rows of a snapshot chunk                                 *)
  MaxEpochs, MaxFlatCommits

VARIABLES
  pub,    (* the publisher: [epoch, schema, next, rows]; next is None until   *)
          (* the snapshot is sent                                             *)
  hist,   (* for each epoch the rows after the snapshot and after each batch  *)
  sent,   (* the frames ever sent                                             *)
  sub     (* the subscriber, if open: [epoch, fp, phase, tree]                *)

flatVars == <<pub, hist, sent, sub>>

-----------------------------------------------------------------------------
(* The wire form of a schema [cols, pk, sort, one, rels]; a relationship is   *)
(* [name, child, project], child and project optional, a projection           *)
(* [col, identity].                                                           *)
RECURSIVE ToWire(_)
ToWire(schema) ==
  [schema EXCEPT !.rels = [i \in DOMAIN @ |->
     [name |-> @[i].name, slot |-> i,
      child |-> [j \in DOMAIN @[i].child |-> ToWire(@[i].child[j])],
      project |-> @[i].project]]]

(* A slot without a child schema keeps its name only. *)
RECURSIVE ToSchema(_)
ToSchema(ws) ==
  [ws EXCEPT !.rels = [i \in DOMAIN @ |->
     [name |-> @[i].name,
      child |-> [j \in DOMAIN @[i].child |-> ToSchema(@[i].child[j])],
      project |-> IF IsSome(@[i].child) THEN @[i].project ELSE None]]]

(* The fingerprint, before the bytes are mixed into 64 bits: keys and sorts   *)
(* by column name, lists after their length, the identity of a projection     *)
(* left out.                                                                  *)
RECURSIVE HashLevel(_)

HashRel(r) ==
  <<r.name>> \o
  (IF ~IsSome(r.child) THEN <<0>>
   ELSE <<1>> \o HashLevel(The(r.child))
        \o (IF IsSome(r.project) THEN <<1, The(r.child).cols[The(r.project).col]>> ELSE <<0>>))

HashLevel(ws) ==
  LET sortTokens(i) == <<ws.cols[ws.sort[i][1]], IF ws.sort[i][2] THEN 1 ELSE 0>>
  IN <<"S", Len(ws.cols)>> \o ws.cols
     \o <<Len(ws.pk)>> \o [i \in DOMAIN ws.pk |-> ws.cols[ws.pk[i]]]
     \o <<Len(ws.sort)>> \o FlattenSeq([i \in DOMAIN ws.sort |-> sortTokens(i)])
     \o <<IF ws.one THEN 1 ELSE 0, Len(ws.rels)>>
     \o FlattenSeq([i \in DOMAIN ws.rels |-> HashRel(ws.rels[i])])

SchemaFp(ws) == HashLevel(ws)

-----------------------------------------------------------------------------
(* The publisher. *)
Hello(p, ver) ==
  [k |-> "hello", epoch |-> p.epoch, ver |-> ver, schema |-> ToWire(p.schema),
   fp |-> SchemaFp(ToWire(p.schema))]

Batch(p, seq, events) ==
  [k |-> "batch", epoch |-> p.epoch, fp |-> SchemaFp(ToWire(p.schema)), seq |-> seq, events |-> events]

(* The chunks of a snapshot; an empty one has a last chunk all the same. *)
SnapshotChunks(p, adds) ==
  LET pages == IF adds = <<>> THEN << <<>> >> ELSE Chunks(adds, MaxPerChunk)
  IN {[k |-> "chunk", epoch |-> p.epoch, fp |-> SchemaFp(ToWire(p.schema)), index |-> i - 1,
       last |-> i = Len(pages), events |-> pages[i]] : i \in DOMAIN pages}

Adds(rows) ==
  LET order == SortedRows({<<r>> : r \in rows}, << <<1, TRUE>> >>)
  IN [i \in DOMAIN order |-> SrcAdd(order[i][1])]

FlatInit(schemas, contents) ==
  /\ \E schema \in schemas, rows \in contents :
       pub = [epoch |-> 1, schema |-> schema, next |-> None, rows |-> rows]
  /\ hist = << <<>> >>
  /\ sent = {Hello(pub, ver) : ver \in Comparators}
  /\ sub = None

(* The consumer gave up: a publisher of the next epoch. *)
Resubscribe ==
  /\ pub.epoch < MaxEpochs
  /\ \E schema \in {pub.schema} \cup OtherSchemas :
       pub' = [pub EXCEPT !.epoch = @ + 1, !.schema = schema, !.next = None]
  /\ hist' = Append(hist, <<>>)
  /\ sent' = sent \cup {Hello(pub', ComparatorVersion)}
  /\ UNCHANGED sub

(* The snapshot, in one batch of number zero or in chunks. *)
Snapshot(chunked) ==
  /\ pub.next = None
  /\ pub' = [pub EXCEPT !.next = Some(1)]
  /\ hist' = [hist EXCEPT ![pub.epoch] = <<pub.rows>>]
  /\ sent' = sent \cup (IF chunked THEN SnapshotChunks(pub, Adds(pub.rows))
                        ELSE {Batch(pub, 0, Adds(pub.rows))})
  /\ UNCHANGED sub

(* A transaction; one that changes nothing sends nothing and takes no number. *)
PublishCommit(rows) ==
  LET gone == pub.rows \ rows
      events == [i \in DOMAIN Adds(gone) |-> SrcRemove(Adds(gone)[i].row)] \o Adds(rows \ pub.rows)
      seq == The(pub.next)
  IN /\ pub.next # None
     /\ Cardinality({f \in sent : f.k = "batch" /\ f.seq > 0}) < MaxFlatCommits
     /\ rows # pub.rows
     /\ pub' = [pub EXCEPT !.rows = rows, !.next = Some(seq + 1)]
     /\ hist' = [hist EXCEPT ![pub.epoch] = Append(@, rows)]
     /\ sent' = sent \cup {Batch(pub, seq, events)}
     /\ UNCHANGED sub

-----------------------------------------------------------------------------
(* The subscriber.  Its phase is [snap, n]: the next chunk while the snapshot *)
(* comes in, then the number of the last batch.                               *)
EmptyFlatTree == [r \in FlatRows |-> 0]

FoldEvents(t, events) ==
  FoldLeft(LAMBDA acc, e : [acc EXCEPT ![e.row] = IF e.t = "Add" THEN @ + 1 ELSE @ - 1], t, events)

(* None when the handshake is refused. *)
OpenSubscriber(hello) ==
  IF hello.ver # ComparatorVersion \/ SchemaFp(hello.schema) # hello.fp THEN None
  ELSE Some([epoch |-> hello.epoch, fp |-> hello.fp, schema |-> ToSchema(hello.schema),
             phase |-> [snap |-> TRUE, n |-> 0], tree |-> EmptyFlatTree])

CheckFrame(s, f) == f.epoch = s.epoch /\ f.fp = s.fp

Advance(s, f, phase) == Some([s EXCEPT !.tree = FoldEvents(@, f.events), !.phase = phase])

Live(n) == [snap |-> FALSE, n |-> n]

(* None when the frame is fatal to the subscription. *)
ApplySnapshotChunk(s, f) ==
  CASE ~s.phase.snap \/ f.index < s.phase.n -> Some(s)
    [] s.phase.snap /\ f.index > s.phase.n -> None
    [] OTHER -> Advance(s, f, IF f.last THEN Live(0) ELSE [snap |-> TRUE, n |-> s.phase.n + 1])

\* Mutant: a batch that was applied before is applied again.
ApplyBatchAgain(s, f) ==
  IF s.phase.snap
  THEN IF s.phase.n = 0 /\ f.seq = 0 THEN Advance(s, f, Live(0)) ELSE None
  ELSE IF f.seq > s.phase.n + 1 THEN None ELSE Advance(s, f, Live(f.seq))

ApplyBatch(s, f) ==
  IF s.phase.snap
  THEN IF s.phase.n = 0 /\ f.seq = 0 THEN Advance(s, f, Live(0)) ELSE None
  ELSE IF f.seq <= s.phase.n THEN Some(s)
  ELSE IF f.seq > s.phase.n + 1 THEN None
  ELSE Advance(s, f, Live(f.seq))

Open(f) ==
  /\ f.k = "hello" /\ sub = None
  /\ sub' = OpenSubscriber(f)
  /\ UNCHANGED <<pub, hist, sent>>

(* A frame of another epoch or schema, or a gap, ends the subscription. *)
DeliverFrame(f) ==
  /\ f.k # "hello" /\ IsSome(sub)
  /\ LET s == The(sub)
     IN sub' = CASE ~CheckFrame(s, f) -> None
                 [] CheckFrame(s, f) /\ f.k = "chunk" -> ApplySnapshotChunk(s, f)
                 [] OTHER -> ApplyBatch(s, f)
  /\ UNCHANGED <<pub, hist, sent>>

FlatNext ==
  \/ Resubscribe
  \/ \E chunked \in BOOLEAN : Snapshot(chunked)
  \/ \E rows \in SUBSET FlatRows : PublishCommit(rows)
  \/ \E f \in sent : Open(f) \/ DeliverFrame(f)

-----------------------------------------------------------------------------
(* Properties. *)

(* Whatever the channel did, a subscriber whose snapshot is complete holds    *)
(* exactly the rows its publisher had after the batch it applied last; while  *)
(* the snapshot comes in it holds a part of it (Subscriber::apply,            *)
(* apply_snapshot_chunk, check_frame).                                        *)
SubscriberExact ==
  IsSome(sub) =>
    LET s == The(sub)
        was == hist[s.epoch]
        ones(rows) == [r \in FlatRows |-> IF r \in rows THEN 1 ELSE 0]
    IN IF s.phase.snap
       THEN \A r \in FlatRows : s.tree[r] = 0 \/ (s.tree[r] = 1 /\ was # <<>> /\ r \in was[1])
       ELSE s.tree = ones(was[s.phase.n + 1])

(* Two publishers have one fingerprint exactly when a receiver would read     *)
(* their rows alike, and the receiver gets back the schema the publisher was  *)
(* opened over (schema_fp, to_wire, to_schema).                               *)
RECURSIVE Unidentified(_)
Unidentified(schema) ==
  [schema EXCEPT !.rels = [i \in DOMAIN @ |->
     [@[i] EXCEPT !.child = [j \in DOMAIN @ |-> Unidentified(@[j])],
                  !.project = [j \in DOMAIN @ |-> @[j].col]]]]

FingerprintExact ==
  /\ \A other \in FlatSchemas :
       (SchemaFp(ToWire(pub.schema)) = SchemaFp(ToWire(other)))
         = (Unidentified(pub.schema) = Unidentified(other))
  /\ ToSchema(ToWire(pub.schema)) = pub.schema

(* A subscriber has its publisher's rows and reads them by its schema.        *)
SubscriptionExact == SubscriberExact /\ FingerprintExact
=============================================================================
