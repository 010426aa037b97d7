----------------------------- MODULE SpillStore -----------------------------
(* The scratch state of stateful operators: the trait and its in-RAM backend  *)
(* (storage.rs), the SQLite spill backend with its blob codec                 *)
(* (rindle-sqlite/src/storage.rs), and the arena of the graph that hands the  *)
(* stores out and takes them back (graph.rs).  A key is a sequence of bytes.  *)
(* A value is [k, size, bound], [k, row], [k, size, pks] or [k, count, accs]. *)
EXTENDS CellValues, Bytes, Functions

CONSTANTS ScanPage,        \* SCAN_PAGE
          CommitInterval,  \* commit_interval
          StoreKeys, StorePrefixes, StoreValues,
          MaxStoreOps,
          (* The functions of these names, as the model gives them. *)
          DoStoreSet(_, _, _, _, _), DoStoreGet(_, _, _, _), DoCursorNext(_, _, _), DoDecodeStorageValue(_)

VARIABLES spill,     \* the database: [rows, next, writes, sink]
          arena,     \* the graph's stores: [ops, gens, free, live]
          twin,      \* handle -> what the in-RAM backend would hold
          scan,      \* a scan under way, optional
          storeOps

storeVars == <<spill, arena, twin, scan, storeOps>>

-----------------------------------------------------------------------------
(* The codec. *)
StorageFormatVersion == 3

PutLen(n) == LeBytes(n, LenBytes)

PutText(bytes) == PutLen(Len(bytes)) \o bytes

(* The bits of an f64: the sign is the highest. *)
PutFloat(f) == LeBytes(f.mag + (IF f.neg THEN ByteBase ^ WordBytes \div 2 ELSE 0), WordBytes)

PutValue(c) ==
  CASE c.t = "Null" -> <<0>>
    [] c.t = "Bool" -> <<1, c.v>>
    [] c.t = "Int" -> <<2>> \o LeBytes(c.v, WordBytes)
    [] c.t = "Float" -> <<3>> \o PutFloat(c.v)
    [] c.t = "Str" -> <<4>> \o PutText(c.v)
    [] c.t = "Json" -> <<5>> \o PutText(c.v)
    [] c.t = "Absent" -> <<6>>

PutRow(row) == PutLen(Len(row)) \o FlattenSeq([i \in DOMAIN row |-> PutValue(row[i])])

PutAcc(a) ==
  LeBytes(a.int, 2 * WordBytes) \o PutFloat(a.float) \o LeBytes(a.nonNull, WordBytes)
  \o LeBytes(a.floats, WordBytes)

EncodeStorageValue(v) ==
  <<StorageFormatVersion>> \o
  CASE v.k = "Take" -> <<1>> \o LeBytes(v.size, LenBytes) \o <<Len(v.bound)>>
                       \o FlattenSeq([i \in DOMAIN v.bound |-> PutRow(v.bound[i])])
    [] v.k = "Bound" -> <<2>> \o PutRow(v.row)
    [] v.k = "Cap" -> <<3>> \o LeBytes(v.size, LenBytes) \o PutLen(Len(v.pks))
                      \o FlattenSeq([i \in DOMAIN v.pks |-> PutText(v.pks[i])])
    [] v.k = "Reduce" -> <<4>> \o LeBytes(v.count, WordBytes) \o PutLen(Len(v.accs))
                         \o FlattenSeq([i \in DOMAIN v.accs |-> PutAcc(v.accs[i])])

(* The decoder: a read gives an optional [v, rest], none when it fails. *)
Got(v, rest) == Some([v |-> v, rest |-> rest])

Bind(got, F(_, _)) == IF IsSome(got) THEN F(The(got).v, The(got).rest) ELSE None

ReadBytes(rest, n) == IF n > Len(rest) THEN None ELSE Got(SubSeq(rest, 1, n), SkipBytes(rest, n))

ReadU8(rest) == Bind(ReadBytes(rest, 1), LAMBDA b, r : Got(b[1], r))

ReadU32(rest) == Bind(ReadBytes(rest, LenBytes), LAMBDA b, r : Got(FromLe(b), r))

ReadInt(rest, width) == Bind(ReadBytes(rest, width), LAMBDA b, r : Got(Signed(FromLe(b), width), r))

ReadF64(rest) ==
  LET top == ByteBase ^ WordBytes \div 2
  IN Bind(ReadBytes(rest, WordBytes), LAMBDA b, r :
       Got([neg |-> FromLe(b) >= top, mag |-> FromLe(b) % top], r))

ReadText(rest) ==
  Bind(ReadU32(rest), LAMBDA n, r : Bind(ReadBytes(r, n), LAMBDA b, q :
    IF IsUtf8(b) THEN Got(b, q) ELSE None))

(* n values, one after the other. *)
ReadMany(Reader(_), n, rest) ==
  FoldLeft(LAMBDA sofar, i : Bind(sofar, LAMBDA vs, r : Bind(Reader(r), LAMBDA v, q : Got(Append(vs, v), q))),
           Got(<<>>, rest), [i \in 1..n |-> i])

ReadValue(rest) ==
  LET as(t, got) == Bind(got, LAMBDA v, r : Got(Cell(t, v), r))
  IN Bind(ReadU8(rest), LAMBDA tag, r :
       CASE tag = 0 -> Got(Cell("Null", 0), r)
         [] tag = 1 -> Bind(ReadU8(r), LAMBDA b, q : IF b < 2 THEN Got(Cell("Bool", b), q) ELSE None)
         [] tag = 2 -> as("Int", ReadInt(r, WordBytes))
         [] tag = 3 -> as("Float", ReadF64(r))
         [] tag = 4 -> as("Str", ReadText(r))
         [] tag = 5 -> as("Json", ReadText(r))
         [] tag = 6 -> Got(Cell("Absent", 0), r)
         [] OTHER -> None)

ReadRow(rest) == Bind(ReadU32(rest), LAMBDA n, r : ReadMany(ReadValue, n, r))

ReadAcc(rest) ==
  Bind(ReadInt(rest, 2 * WordBytes), LAMBDA int, r : Bind(ReadF64(r), LAMBDA float, q :
    Bind(ReadInt(q, WordBytes), LAMBDA nonNull, p : Bind(ReadInt(p, WordBytes), LAMBDA floats, o :
      Got([int |-> int, float |-> float, nonNull |-> nonNull, floats |-> floats], o)))))

ReadTake(rest) ==
  Bind(ReadU32(rest), LAMBDA size, r : Bind(ReadU8(r), LAMBDA tag, q :
    CASE tag = 0 -> Got([k |-> "Take", size |-> size, bound |-> None], q)
      [] tag = 1 -> Bind(ReadRow(q), LAMBDA row, p : Got([k |-> "Take", size |-> size, bound |-> Some(row)], p))
      [] OTHER -> None))

ReadCap(rest) ==
  Bind(ReadU32(rest), LAMBDA size, r : Bind(ReadU32(r), LAMBDA n, q :
    Bind(ReadMany(ReadText, n, q), LAMBDA pks, p : Got([k |-> "Cap", size |-> size, pks |-> pks], p))))

ReadReduce(rest) ==
  Bind(ReadInt(rest, WordBytes), LAMBDA count, r : Bind(ReadU32(r), LAMBDA n, q :
    Bind(ReadMany(ReadAcc, n, q), LAMBDA accs, p : Got([k |-> "Reduce", count |-> count, accs |-> accs], p))))

ReadTagged(rest) ==
  Bind(ReadU8(rest), LAMBDA tag, r :
    CASE tag = 1 -> ReadTake(r)
      [] tag = 2 -> Bind(ReadRow(r), LAMBDA row, q : Got([k |-> "Bound", row |-> row], q))
      [] tag = 3 -> ReadCap(r)
      [] tag = 4 -> ReadReduce(r)
      [] OTHER -> None)

(* The whole blob must be used up. *)
Finish(v, rest) == IF rest = <<>> THEN Some(v) ELSE None

DecodeStorageValue(bytes) ==
  Bind(ReadU8(bytes), LAMBDA version, r :
    IF version = StorageFormatVersion THEN Bind(ReadTagged(r), Finish) ELSE None)

-----------------------------------------------------------------------------
(* The database.  A failure is an input: "commit" for the checkpoint,         *)
(* "statement" for the statement itself; a statement that fails does nothing. *)
EmptyDatabase == [rows |-> [at \in {} |-> <<>>], next |-> 1, writes |-> 0, sink |-> None]

(* The first failure is kept until the graph takes it. *)
Park(s, why) == IF IsSome(s.sink) THEN s ELSE [s EXCEPT !.sink = Some(why)]

(* Counts a call; every CommitInterval calls the transaction is committed. *)
MaybeCheckpoint(s, fault) ==
  LET due == s.writes + 1 >= CommitInterval
  IN CASE CommitInterval = 0 -> [ok |-> TRUE, s |-> s]
       [] CommitInterval # 0 /\ due -> [ok |-> fault # "commit",
                                        s |-> IF fault = "commit" THEN Park(s, "checkpoint")
                                              ELSE [s EXCEPT !.writes = 0]]
       [] OTHER -> [ok |-> TRUE, s |-> [s EXCEPT !.writes = @ + 1]]

(* One checkpointed statement; Step is its effect when it succeeds. *)
PointOp(s, fault, Step(_)) ==
  LET c == MaybeCheckpoint(s, fault)
  IN IF ~c.ok THEN c.s ELSE IF fault = "statement" THEN Park(c.s, "sqlite") ELSE Step(c.s)

StoreSet(s, op, key, value, fault) ==
  PointOp(s, fault, LAMBDA t : [t EXCEPT !.rows = (<<op, key>> :> EncodeStorageValue(value)) @@ @])

(* The answer and the database after it; a blob that does not decode is no    *)
(* value, and is reported.                                                    *)
StoreGet(s, op, key, fault) ==
  LET c == MaybeCheckpoint(s, fault)
      value == DecodeStorageValue(c.s.rows[<<op, key>>])
  IN CASE ~c.ok -> [out |-> None, s |-> c.s]
       [] c.ok /\ fault = "statement" -> [out |-> None, s |-> Park(c.s, "sqlite")]
       [] c.ok /\ fault # "statement" /\ <<op, key>> \notin DOMAIN c.s.rows -> [out |-> None, s |-> c.s]
       [] OTHER -> [out |-> value, s |-> IF IsSome(value) THEN c.s ELSE Park(c.s, "decode")]

StoreDel(s, op, key, fault) ==
  PointOp(s, fault, LAMBDA t : [t EXCEPT !.rows = Restrict(@, DOMAIN @ \ {<<op, key>>})])

(* One statement without a checkpoint. *)
StoreClear(s, op, fault) ==
  IF fault = "statement" THEN Park(s, "sqlite")
  ELSE [s EXCEPT !.rows = Restrict(@, {at \in DOMAIN @ : at[1] # op})]

-----------------------------------------------------------------------------
(* Scans: pages of at most ScanPage pairs, each a statement of its own.       *)
KeysInOrder(keys) ==
  LET before(k) == Cardinality({x \in keys : CompareBytes(x, k) < 0})
  IN [i \in 1..Cardinality(keys) |-> CHOOSE k \in keys : before(k) = i - 1]


(* The keys the statement of a page returns. *)
PageKeys(s, op, prefix, seek) ==
  LET keys == {at[2] : at \in {x \in DOMAIN s.rows : x[1] = op}}
      after(k) == IF IsSome(seek) THEN CompareBytes(k, The(seek)) > 0 ELSE CompareBytes(k, prefix) >= 0
  IN FirstN(KeysInOrder({k \in keys : after(k)}), ScanPage)

(* The pairs up to the first key past the prefix or the first bad blob, and   *)
(* whether the scan ends with this page.                                      *)
QueryPage(s, op, prefix, seek, fault) ==
  LET keys == PageKeys(s, op, prefix, seek)
      value(k) == DecodeStorageValue(s.rows[<<op, k>>])
      mine == TakeWhile(keys, LAMBDA k : IsPrefix(prefix, k))
      good == TakeWhile(mine, LAMBDA k : IsSome(value(k)))
  IN IF fault = "statement" THEN [page |-> <<>>, done |-> TRUE, s |-> Park(s, "sqlite")]
     ELSE [page |-> [i \in DOMAIN good |-> <<good[i], The(value(good[i]))>>],
           done |-> good # keys \/ Len(keys) < ScanPage,
           s |-> IF good = mine THEN s ELSE Park(s, "decode")]

OpenCursor(op, prefix) ==
  [op |-> op, prefix |-> prefix, seek |-> None, page |-> <<>>, done |-> FALSE]

(* The cursor with its next page. *)
FetchPage(c, q) ==
  [c EXCEPT !.page = q.page, !.done = q.done,
            !.seek = IF q.page = <<>> THEN @ ELSE Some(Last(q.page)[1])]

(* The next pair, if any, after at most one page: an empty page ends a scan. *)
CursorNext(s, c, fault) ==
  LET q == QueryPage(s, c.op, c.prefix, c.seek, fault)
      paged == c.page = <<>> /\ ~c.done
      d == IF paged THEN FetchPage(c, q) ELSE c
  IN [s |-> IF paged THEN q.s ELSE s,
      out |-> IF d.page = <<>> THEN None ELSE Some(Head(d.page)),
      c |-> IF d.page = <<>> THEN d ELSE [d EXCEPT !.page = Tail(@)]]

-----------------------------------------------------------------------------
(* The in-RAM backend: a map. *)
EmptyMap == [k \in {} |-> <<>>]

MemorySet(m, key, value) == (key :> value) @@ m

MemoryGet(m, key) == IF key \in DOMAIN m THEN Some(m[key]) ELSE None

MemoryDel(m, key) == Restrict(m, DOMAIN m \ {key})

MemoryScan(m, prefix) ==
  LET keys == KeysInOrder({k \in DOMAIN m : CompareBytes(k, prefix) >= 0})
      mine == TakeWhile(keys, LAMBDA k : IsPrefix(prefix, k))
  IN [i \in DOMAIN mine |-> <<mine[i], m[mine[i]]>>]

-----------------------------------------------------------------------------
(* The arena: slot i holds the store with operator id ops[i].  A handle is    *)
(* <<slot, generation>>.                                                      *)
Handle(a, i) == <<i, a.gens[i]>>

(* A slot that was given back is handed out again with its store. *)
AllocSlot(a, s) ==
  IF a.free # <<>>
  THEN [a |-> [a EXCEPT !.free = Front(@), !.live = @ \cup {Handle(a, Last(a.free))}],
        s |-> s, h |-> Handle(a, Last(a.free))]
  ELSE LET i == Len(a.ops) + 1
       IN [a |-> [a EXCEPT !.ops = Append(@, s.next), !.gens = Append(@, 0), !.live = @ \cup {<<i, 0>>}],
           s |-> [s EXCEPT !.next = @ + 1], h |-> <<i, 0>>]

(* Teardown clears the store and retires the handle. *)
FreeSlot(a, h) ==
  [a EXCEPT !.gens[h[1]] = @ + 1, !.free = Append(@, h[1]), !.live = @ \ {h}]

OpOf(h) == arena.ops[h[1]]

Faults == {"none", "commit", "statement"}

StoreInit(seeds) ==
  \E keys \in seeds :
    LET first == AllocSlot([ops |-> <<>>, gens |-> <<>>, free |-> <<>>, live |-> {}], EmptyDatabase)
        value == CHOOSE v \in StoreValues : v.k = "Cap"
        order == KeysInOrder(keys)
    IN /\ arena = first.a
       /\ spill = FoldLeft(LAMBDA s, k : DoStoreSet(s, 1, k, value, "none"), first.s, order)
       /\ twin = first.h :> FoldLeft(LAMBDA m, k : MemorySet(m, k, value), EmptyMap, order)
       /\ scan = None
       /\ storeOps = 0

StoreStep == storeOps < MaxStoreOps /\ storeOps' = storeOps + 1

(* A scan under way no longer vouches for a key written behind its back. *)
Touched(h, keys) ==
  IF IsSome(scan) /\ The(scan).h = h
  THEN Some([The(scan) EXCEPT !.stable = {kv \in @ : kv[1] \notin keys}]) ELSE scan

AllocStorage ==
  LET r == AllocSlot(arena, spill)
  IN /\ StoreStep /\ Cardinality(arena.live) < 2
     /\ arena' = r.a /\ spill' = r.s /\ twin' = (r.h :> EmptyMap) @@ twin
     /\ UNCHANGED scan

DestroyStorage(h, fault) ==
  /\ StoreStep
  /\ spill' = StoreClear(spill, OpOf(h), fault)
  /\ arena' = FreeSlot(arena, h)
  /\ twin' = Restrict(twin, DOMAIN twin \ {h})
  /\ scan' = IF IsSome(scan) /\ The(scan).h = h THEN None ELSE scan

SetKey(h, key, value, fault) ==
  /\ StoreStep
  /\ spill' = DoStoreSet(spill, OpOf(h), key, value, fault)
  /\ twin' = [twin EXCEPT ![h] = MemorySet(@, key, value)]
  /\ scan' = Touched(h, {key})
  /\ UNCHANGED arena

DelKey(h, key, fault) ==
  /\ StoreStep
  /\ spill' = StoreDel(spill, OpOf(h), key, fault)
  /\ twin' = [twin EXCEPT ![h] = MemoryDel(@, key)]
  /\ scan' = Touched(h, {key})
  /\ UNCHANGED arena

GetKey(h, key, fault) ==
  /\ StoreStep
  /\ spill' = DoStoreGet(spill, OpOf(h), key, fault).s
  /\ UNCHANGED <<arena, twin, scan>>

OpenScan(h, prefix, fault) ==
  LET c == MaybeCheckpoint(spill, fault)
  IN /\ StoreStep /\ scan = None
     /\ spill' = c.s
     /\ scan' = IF c.ok THEN Some([h |-> h, c |-> OpenCursor(OpOf(h), prefix), out |-> <<>>, over |-> FALSE,
                                   stable |-> ToSet(MemoryScan(twin[h], prefix))])
                ELSE None
     /\ UNCHANGED <<arena, twin>>

(* The caller draws one pair; not bounded, as every scan ends. *)
DrawPair(fault) ==
  LET sc == The(scan)
      n == DoCursorNext(spill, sc.c, fault)
  IN /\ IsSome(scan) /\ ~sc.over
     /\ spill' = n.s
     /\ scan' = Some([sc EXCEPT !.c = n.c, !.out = @ \o n.out, !.over = n.out = None])
     /\ UNCHANGED <<arena, twin, storeOps>>

(* A blob left by an engine of another format version. *)
ForeignBlob(at, version) ==
  /\ StoreStep
  /\ version # StorageFormatVersion
  /\ spill' = [spill EXCEPT !.rows[at][1] = version]
  /\ UNCHANGED <<arena, twin, scan>>

StoreNext ==
  \/ AllocStorage
  \/ \E h \in arena.live, fault \in Faults :
       \/ DestroyStorage(h, fault)
       \/ \E key \in StoreKeys :
            GetKey(h, key, fault) \/ DelKey(h, key, fault) \/ \E v \in StoreValues : SetKey(h, key, v, fault)
       \/ \E prefix \in StorePrefixes : OpenScan(h, prefix, fault)
  \/ \E fault \in Faults : DrawPair(fault)
  \/ \E at \in DOMAIN spill.rows, version \in {2, 4} : ForeignBlob(at, version)

-----------------------------------------------------------------------------
(* Until a failure is parked, every store answers every read as the in-RAM    *)
(* backend would: it keeps its keys apart from those of the other stores, and *)
(* a store that is handed out again starts empty (rindle-sqlite storage.rs,   *)
(* OpStorage; graph.rs, alloc_storage and destroy_pipeline).                  *)
SpillMatchesMemory ==
  \A h \in arena.live :
    /\ \A key \in StoreKeys :
         LET got == DoStoreGet(spill, OpOf(h), key, "none")
         IN got.s.sink = None => got.out = MemoryGet(twin[h], key)
    /\ \A other \in arena.live \ {h} : OpOf(other) # OpOf(h)

(* A drained scan has yielded ascending keys of its prefix, each once, and    *)
(* with them every pair that was there throughout, although the caller set    *)
(* and deleted keys meanwhile (rindle-sqlite storage.rs, ScanCursor).         *)
ScanExact ==
  LET sc == The(scan)
  IN IsSome(scan) /\ spill.sink = None =>
       /\ \A i \in DOMAIN sc.out : IsPrefix(sc.c.prefix, sc.out[i][1])
       /\ \A i, j \in DOMAIN sc.out : i < j => CompareBytes(sc.out[i][1], sc.out[j][1]) < 0
       /\ sc.over => sc.stable \subseteq ToSet(sc.out)

(* A blob reads as the value it encodes, or it is refused and reported: no    *)
(* two blobs have the same value, and neither a shorter nor a longer blob is  *)
(* accepted (rindle-sqlite storage.rs, decode_storage_value).                 *)
BlobsChecked ==
  \A at \in DOMAIN spill.rows :
    LET blob == spill.rows[at]
        value == DoDecodeStorageValue(blob)
    IN /\ IsSome(value) => EncodeStorageValue(The(value)) = blob
       /\ value = None => IsSome(DoStoreGet(spill, at[1], at[2], "none").s.sink)
       /\ IsSome(value) => /\ \A n \in 0..(Len(blob) - 1) : DoDecodeStorageValue(SubSeq(blob, 1, n)) = None
                           /\ \A b \in 0..(ByteBase - 1) : DoDecodeStorageValue(Append(blob, b)) = None

=============================================================================
