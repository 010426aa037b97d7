------------------------ MODULE NormalizedClient_proofs ------------------------
(***************************************************************************)
(* The inductive invariant of NormalizedSync, and that the steps of the    *)
(* client keep it.                                                         *)
(***************************************************************************)
EXTENDS NormalizedStream_proofs

StreamInv == TypeOK /\ SyncInv /\ Lives /\ Served /\ \A q \in Query : Stream(q)

-----------------------------------------------------------------------------
(* Frames and their ops, by field. *)
LEMMA FrameTypes ==
  ASSUME NEW f \in Frame
  PROVE  /\ f.q \in Query /\ f.t \in {"hello", "batch", "error"}
         /\ f.t = "hello" => f.epoch \in Nat /\ f.cols \in SUBSET Col
         /\ f.t = "batch" => f.epoch \in Nat /\ f.seq \in Nat /\ f.ops \in Ops
         /\ f.t = "error" => f.retryable \in BOOLEAN
  BY Zenon DEF Frame

LEMMA OpsTypes ==
  ASSUME NEW ops \in Ops
  PROVE  /\ DOMAIN ops \subseteq Key
         /\ \A k \in DOMAIN ops : ops[k].op \in {"add", "edit", "remove"} /\ ops[k].row \in WireRow
  BY Zenon DEF Ops, WireOp

LEMMA WireRowTypes ==
  ASSUME NEW row \in WireRow
  PROVE  DOMAIN row \subseteq Col /\ \A c \in DOMAIN row : row[c] \in Val
  BY Zenon DEF WireRow

(* The head of the socket, and what remains of it. *)
LEMMA Takes ==
  ASSUME TypeOK, Take
  PROVE  /\ Drops(down, down', 1) /\ down' \in Seq(Frame)
         /\ Head(down) = down[1] /\ 1 \in DOMAIN down /\ down[1] \in Frame
  <1>1. down \in Seq(Frame) /\ down # <<>> /\ down' = Tail(down)
    BY Zenon DEF TypeOK, Take
  <1>2. Drops(down, Tail(down), 1) /\ Tail(down) \in Seq(Frame) /\ Head(down) = down[1] /\ 1 \in DOMAIN down
    BY <1>1, TailDrops, Zenon
  <1>3. down[1] \in Frame
    BY <1>1, <1>2, SMT
  <1> QED
    BY <1>1, <1>2, <1>3, Zenon

LEMMA DownTypes ==
  ASSUME TypeOK
  PROVE  \A i \in DOMAIN down : down[i] \in Frame
  BY SMT DEF TypeOK

LEMMA SeqTypes ==
  ASSUME TypeOK, NEW q \in Query
  PROVE  SeqNats(q) /\ qcols[q] \subseteq Col
  <1>1. lastSeq[q] \in Nat /\ srvSeq[q] \in Nat /\ qcols[q] \subseteq Col
    BY Zenon DEF TypeOK
  <1> QED
    BY <1>1, DownTypes, FrameTypes, Zenon DEF SeqNats, IsBatch

(* A socket extends itself. *)
LEMMA SameExtends ==
  ASSUME TypeOK, down' = down
  PROVE  Extends(down, down') /\ \A q : Quiet(q)
  <1>1. down \in Seq(Frame)
    BY Zenon DEF TypeOK
  <1>2. Extends(down, down)
    BY <1>1, SMT DEF Extends
  <1> QED
    BY <1>2, Zenon DEF Quiet

-----------------------------------------------------------------------------
(* Types. *)

(* A fold of rows that have the columns the query contributes. *)
LEMMA FoldTypes ==
  ASSUME TypeOK, NEW q \in Query, NEW ops, FoldOps(q, ops), DOMAIN ops \subseteq Key,
         \A k \in DOMAIN ops : ops[k].op # "remove" => \A c \in qcols[q] : ops[k].row[c] \in Val
  PROVE  foot' \in [Query -> SUBSET Key] /\ refs' \in [Key -> SUBSET Query] /\ cell' \in [Key -> UnionRow]
  <1> DEFINE added   == {k \in DOMAIN ops : ops[k].op = "add"}
             removed == {k \in DOMAIN ops : ops[k].op = "remove"}
  <1>1. /\ foot' = [foot EXCEPT ![q] = (@ \cup added) \ removed]
        /\ refs' = [k \in Key |-> IF k \in added THEN refs[k] \cup {q}
                                  ELSE IF k \in removed /\ k \in foot[q] THEN refs[k] \ {q}
                                  ELSE refs[k]]
        /\ cell' = [k \in Key |-> IF k \in added THEN AddKey(q, k, Scatter(q, ops[k].row))
                                  ELSE IF k \in removed THEN RemoveKey(q, k)
                                  ELSE IF k \in DOMAIN ops THEN EditKey(k, Scatter(q, ops[k].row))
                                  ELSE cell[k]]
    BY Zenon DEF FoldOps
  <1>2. foot \in [Query -> SUBSET Key] /\ refs \in [Key -> SUBSET Query] /\ cell \in [Key -> UnionRow]
    BY Zenon DEF TypeOK
  <1>3. added \subseteq Key /\ removed \subseteq DOMAIN ops
    BY Zenon
  <1>4. ASSUME NEW k \in DOMAIN ops, ops[k].op # "remove"
        PROVE  Scatter(q, ops[k].row) \in UnionRow
    BY <1>4, Zenon DEF Scatter, UnionRow
  <1>5. ASSUME NEW k \in Key
        PROVE  cell[k] \in UnionRow /\ RemoveKey(q, k) \in UnionRow
    <2>1. cell[k] \in [Col -> Val \cup {Absent}]
      BY <1>2, Zenon DEF UnionRow
    <2> QED
      BY <2>1, Zenon DEF RemoveKey, UnionRow, Blank
  <1>6. ASSUME NEW k \in Key, NEW row \in UnionRow
        PROVE  MergeInto(cell[k], row) \in UnionRow
    <2>1. cell[k] \in [Col -> Val \cup {Absent}] /\ row \in [Col -> Val \cup {Absent}]
      BY <1>2, <1>6, Zenon DEF UnionRow
    <2> QED
      BY <2>1, Zenon DEF MergeInto, UnionRow
  <1>7. ASSUME NEW k \in Key, NEW row \in UnionRow
        PROVE  AddKey(q, k, row) \in UnionRow /\ EditKey(k, row) \in UnionRow
    BY <1>5, <1>6, <1>7, Zenon DEF AddKey, EditKey
  <1>8. foot' \in [Query -> SUBSET Key]
    BY <1>1, <1>2, <1>3, SMT
  <1>9. refs' \in [Key -> SUBSET Query]
    BY <1>1, <1>2, SMT
  <1>10. ASSUME NEW k \in Key
         PROVE  cell'[k] \in UnionRow
    <2>1. CASE k \in added
      <3>1. cell'[k] = AddKey(q, k, Scatter(q, ops[k].row)) /\ k \in DOMAIN ops /\ ops[k].op # "remove"
        BY <1>1, <2>1, Zenon
      <3> QED
        BY <1>4, <1>7, <3>1, Zenon
    <2>2. CASE k \in removed
      <3>1. cell'[k] = RemoveKey(q, k)
        BY <1>1, <2>2, Zenon
      <3> QED
        BY <1>5, <3>1, Zenon
    <2>3. CASE k \notin added /\ k \notin removed /\ k \in DOMAIN ops
      <3>1. cell'[k] = EditKey(k, Scatter(q, ops[k].row)) /\ ops[k].op # "remove"
        BY <1>1, <2>3, Zenon
      <3> QED
        BY <1>4, <1>7, <2>3, <3>1, Zenon
    <2>4. CASE k \notin added /\ k \notin removed /\ k \notin DOMAIN ops
      <3>1. cell'[k] = cell[k]
        BY <1>1, <2>4, Zenon
      <3> QED
        BY <1>5, <3>1, Zenon
    <2> QED
      BY <2>1, <2>2, <2>3, <2>4, Zenon
  <1>11. cell' = [k \in Key |-> cell'[k]]
    BY <1>1, Zenon
  <1> QED
    BY <1>8, <1>9, <1>10, <1>11, Zenon

(* The rows of a batch that a subscriber takes have the columns its hello said. *)
LEMMA HeadCols ==
  ASSUME TypeOK, NEW q \in Query, Stream(q), Listens(q), 1 \in DOMAIN down, IsBatch(down[1], q)
  PROVE  /\ RowsOver(down[1], qcols[q]) /\ down[1].ops \in Ops
         /\ \A k \in DOMAIN down[1].ops : /\ down[1].ops[k].row \in WireRow
                                          /\ \A c \in qcols[q] : down[1].ops[k].row[c] \in Val
  <1>1. ASSUME NEW l \in DOMAIN down PROVE ~(0 < l /\ l < 1)
    BY SMT DEF TypeOK
  <1>2. NoHello(down, q, 0, 1)
    BY <1>1, Zenon DEF NoHello
  <1>3. ClientCols(q)
    BY Zenon DEF Stream, Listening
  <1>4. RowsOver(down[1], qcols[q])
    BY <1>2, <1>3, Zenon DEF ClientCols
  <1>5. down[1].ops \in Ops
    BY DownTypes, FrameTypes, Zenon DEF IsBatch
  <1>6. \A k \in DOMAIN down[1].ops : down[1].ops[k].row \in WireRow /\ DOMAIN down[1].ops[k].row = qcols[q]
    BY <1>4, <1>5, OpsTypes, Zenon DEF RowsOver
  <1> QED
    BY <1>4, <1>5, <1>6, WireRowTypes, Zenon

(* Re-stating a snapshot against the footprint keeps its rows. *)
LEMMA Rehydrated ==
  ASSUME NEW q, NEW ops, NEW k, k \in DOMAIN RehydrateOps(q, ops)
  PROVE  /\ k \in DOMAIN ops \cup foot[q]
         /\ k \notin DOMAIN ops => RehydrateOps(q, ops)[k].op = "remove"
         /\ k \in DOMAIN ops /\ k \notin foot[q] => RehydrateOps(q, ops)[k] = ops[k]
         /\ k \in DOMAIN ops /\ k \in foot[q] => RehydrateOps(q, ops)[k] = [ops[k] EXCEPT !.op = "edit"]
  BY Zenon DEF RehydrateOps

LEMMA RehydratedRows ==
  ASSUME NEW q, NEW ops \in Ops, NEW k \in DOMAIN ops
  PROVE  /\ k \in DOMAIN RehydrateOps(q, ops) /\ RehydrateOps(q, ops)[k].row = ops[k].row
         /\ RehydrateOps(q, ops)[k].op = IF k \in foot[q] THEN "edit" ELSE ops[k].op
  <1>1. ops[k] \in WireOp
    BY Zenon DEF Ops
  <1>2. [ops[k] EXCEPT !.op = "edit"].row = ops[k].row /\ [ops[k] EXCEPT !.op = "edit"].op = "edit"
    BY <1>1, Zenon DEF WireOp
  <1>3. k \in DOMAIN RehydrateOps(q, ops)
    BY Zenon DEF RehydrateOps
  <1>4. CASE k \in foot[q]
    <2>1. RehydrateOps(q, ops)[k] = [ops[k] EXCEPT !.op = "edit"]
      BY <1>4, SMT DEF RehydrateOps
    <2>2. RehydrateOps(q, ops)[k].row = ops[k].row /\ RehydrateOps(q, ops)[k].op = "edit"
      BY <1>2, <2>1, Zenon
    <2> QED
      BY <1>3, <1>4, <2>2, Zenon
  <1>5. CASE k \notin foot[q]
    BY <1>3, <1>5, Rehydrated, Zenon
  <1> QED
    BY <1>4, <1>5, Zenon

(* What a re-subscribe may do: a subscribe goes out, or none does. *)
LEMMA SubscribeTypes ==
  ASSUME TypeOK, NEW q \in Query, Subscribe(q)
  PROVE  /\ timers' \in SUBSET Query /\ resubscribing' \in SUBSET Query /\ troubles' \in Nat
         /\ up' \in Seq([t: {"subscribe", "unsubscribe"}, q: Query])
         /\ \A i \in DOMAIN up' : up'[i].t = "unsubscribe" => i \in DOMAIN up /\ up'[i] = up[i]
  <1> DEFINE m == [t |-> "subscribe", q |-> q]
             M == [t: {"subscribe", "unsubscribe"}, q: Query]
  <1>1. up \in Seq(M) /\ timers \in SUBSET Query /\ resubscribing \in SUBSET Query /\ troubles \in Nat
    BY Zenon DEF TypeOK
  <1>2. timers' \in SUBSET Query /\ resubscribing' \in SUBSET Query
    BY <1>1, Zenon DEF Subscribe
  <1>3. troubles' = troubles \/ troubles' = troubles + 1
    BY Zenon DEF Subscribe
  <1>4. troubles' \in Nat
    BY <1>1, <1>3, SMT
  <1>5. up' = Append(up, m) \/ up' = up
    BY Zenon DEF Subscribe
  <1>6. m \in M /\ m.t # "unsubscribe"
    BY Zenon
  <1> HIDE DEF m, M
  <1>7. up' \in Seq(M) /\ \A i \in DOMAIN up' : up'[i].t = "unsubscribe" => i \in DOMAIN up /\ up'[i] = up[i]
    BY <1>1, <1>5, <1>6, SMT
  <1> QED
    BY <1>2, <1>4, <1>7, Zenon DEF M

LEMMA CloseTypes ==
  ASSUME TypeOK, NEW q \in Query, CloseSubscriber(q)
  PROVE  /\ phase' \in [Query -> {"none", "snapshot", "live"}] /\ lastSeq' \in [Query -> Nat]
         /\ phase'[q] = "none" /\ \A p \in Query : p # q => phase'[p] = phase[p] /\ lastSeq'[p] = lastSeq[p]
         /\ lastSeq'[q] = 0
  <1>1. phase \in [Query -> {"none", "snapshot", "live"}] /\ lastSeq \in [Query -> Nat]
    BY Zenon DEF TypeOK
  <1>2. phase' = [phase EXCEPT ![q] = "none"] /\ lastSeq' = [lastSeq EXCEPT ![q] = 0]
    BY Zenon DEF CloseSubscriber
  <1>3. 0 \in Nat
    BY SMT
  <1> QED
    BY <1>1, <1>2, <1>3, Zenon

-----------------------------------------------------------------------------
(* Steps of the client that take no frame. *)

LEMMA Parts ==
  ASSUME StreamInv
  PROVE  TypeOK /\ SyncInv /\ Lives /\ Served /\ \A q \in Query : Stream(q) /\ SeqNats(q) /\ qcols[q] \subseteq Col
  BY SeqTypes, Zenon DEF StreamInv

LEMMA ServedSame == ASSUME Served, UNCHANGED <<rows, match, serving>> PROVE Served'
  BY Zenon DEF Served

LEMMA ClientOnly ==
  ASSUME StreamInv, UNCHANGED srvVars, down' = down, \A q \in Query : ClientStands(q)
  PROVE  \A q \in Query : Stream(q)'
  <1> SUFFICES ASSUME NEW q \in Query PROVE Stream(q)'
    BY Zenon
  <1>1. TypeOK /\ Stream(q) /\ SeqNats(q)
    BY Parts, Zenon
  <1>2. Extends(down, down') /\ Quiet(q)
    BY <1>1, SameExtends, Zenon
  <1>3. ServerStands(q)
    BY Zenon DEF ServerStands, srvVars
  <1> QED
    BY <1>1, <1>2, <1>3, QuietStream, Zenon

LEMMA SameStands ==
  ASSUME NEW q, UNCHANGED <<phase, lastSeq, syncVars>>
  PROVE  ClientStands(q)
  BY Zenon DEF ClientStands, Listens, IsLive, syncVars

(* A query whose request is not on its way may be registered or not. *)
LEMMA UpQueries ==
  ASSUME TypeOK, NEW i \in DOMAIN up
  PROVE  up[i].q \in Query
  <1> DEFINE M == [t: {"subscribe", "unsubscribe"}, q: Query]
  <1>1. up \in Seq(M)
    BY Zenon DEF TypeOK
  <1>2. \A m \in M : m.q \in Query
    BY Zenon
  <1> HIDE DEF M
  <1>3. up[i] \in M
    BY <1>1, SMT
  <1> QED
    BY <1>2, <1>3, Zenon

LEMMA RegisterStep ==
  ASSUME StreamInv, NEW q \in Query, RegisterQuery(q)
  PROVE  TypeOK' /\ Lives' /\ Served' /\ \A p \in Query : Stream(p)'
  <1>1. TypeOK /\ Lives /\ Served
    BY Parts, Zenon
  <1>2. /\ life[q] = "new" /\ life' = [life EXCEPT ![q] = "retained"] /\ subs' = subs \cup {q} /\ Subscribe(q)
        /\ UNCHANGED <<srvVars, down, phase, epoch, lastSeq, syncVars>>
    BY Zenon DEF RegisterQuery
  <1>3. /\ timers' \in SUBSET Query /\ resubscribing' \in SUBSET Query /\ troubles' \in Nat
        /\ up' \in Seq([t: {"subscribe", "unsubscribe"}, q: Query])
        /\ \A i \in DOMAIN up' : up'[i].t = "unsubscribe" => i \in DOMAIN up /\ up'[i] = up[i]
    BY <1>1, <1>2, SubscribeTypes, Zenon
  <1>4. /\ life \in [Query -> {"new", "retained", "gone"}] /\ subs \in SUBSET Query
        /\ life'[q] = "retained" /\ \A p \in Query : p # q => life'[p] = life[p]
    BY <1>1, <1>2, Zenon DEF TypeOK
  <1>5. life' \in [Query -> {"new", "retained", "gone"}] /\ subs' \in SUBSET Query
    BY <1>2, <1>4, Zenon
  <1>6. TypeOK'
    BY <1>1, <1>2, <1>3, <1>5, Zenon DEF TypeOK, srvVars, syncVars
  <1>7. ASSUME NEW i \in DOMAIN up', up'[i].t = "unsubscribe" PROVE life'[up'[i].q] = "gone"
    <2>1. i \in DOMAIN up /\ up'[i] = up[i] /\ up[i].q \in Query
      BY <1>1, <1>3, <1>7, UpQueries, Zenon
    <2>2. life[up[i].q] = "gone"
      BY <1>1, <1>7, <2>1, Zenon DEF Lives
    <2>3. up[i].q # q
      BY <1>2, <2>2, Zenon
    <2> QED
      BY <1>4, <2>1, <2>2, <2>3, Zenon
  <1>8. Lives'
    <2>1. \A p \in subs' : life'[p] = "retained"
      BY <1>1, <1>2, <1>4, Zenon DEF Lives
    <2>2. \A p \in Query : Listens(p)' => p \in subs'
      BY <1>1, <1>2, Zenon DEF Lives, Listens
    <2>3. \A p \in Query : phase'[p] = "snapshot" => lastSeq'[p] = 0
      BY <1>1, <1>2, Zenon DEF Lives
    <2>4. \A i \in DOMAIN up' : up'[i].t = "unsubscribe" => life'[up'[i].q] = "gone"
      BY <1>7, Zenon
    <2> QED
      BY <2>1, <2>2, <2>3, <2>4, Zenon DEF Lives
  <1>9. UNCHANGED <<rows, match, serving, srvVars, phase, lastSeq, syncVars>> /\ down' = down
    BY <1>2, Zenon DEF srvVars
  <1> QED
    BY <1>1, <1>6, <1>8, <1>9, ServedSame, SameStands, ClientOnly, Zenon

LEMMA RetryStep ==
  ASSUME StreamInv, NEW q \in Query, RetryTimer(q)
  PROVE  TypeOK' /\ Lives' /\ Served' /\ \A p \in Query : Stream(p)'
  <1>1. TypeOK /\ Lives /\ Served
    BY Parts, Zenon
  <1>2. Subscribe(q) /\ UNCHANGED <<srvVars, down, subs, life, phase, epoch, lastSeq, syncVars>>
    BY Zenon DEF RetryTimer
  <1>3. /\ timers' \in SUBSET Query /\ resubscribing' \in SUBSET Query /\ troubles' \in Nat
        /\ up' \in Seq([t: {"subscribe", "unsubscribe"}, q: Query])
        /\ \A i \in DOMAIN up' : up'[i].t = "unsubscribe" => i \in DOMAIN up /\ up'[i] = up[i]
    BY <1>1, <1>2, SubscribeTypes, Zenon
  <1>4. TypeOK'
    BY <1>1, <1>2, <1>3, Zenon DEF TypeOK, srvVars, syncVars
  <1>5. Lives'
    BY <1>1, <1>2, <1>3 DEF Lives, Listens
  <1>6. UNCHANGED <<rows, match, serving, srvVars, phase, lastSeq, syncVars>> /\ down' = down
    BY <1>2, Zenon DEF srvVars
  <1> QED
    BY <1>1, <1>4, <1>5, <1>6, ServedSame, SameStands, ClientOnly, Zenon

(* Giving a query up leaves the columns of the others. *)
LEMMA UnregisterStep ==
  ASSUME StreamInv, NEW q \in Query, UnregisterQuery(q)
  PROVE  TypeOK' /\ Lives' /\ Served' /\ \A p \in Query : Stream(p)'
  <1> DEFINE ops == [k \in foot[q] |-> [op |-> "remove", row |-> <<>>]]
             M == [t: {"subscribe", "unsubscribe"}, q: Query]
             m == [t |-> "unsubscribe", q |-> q]
  <1>1. TypeOK /\ SyncInv /\ Lives /\ Served
    BY Parts, Zenon
  <1>2. /\ life' = [life EXCEPT ![q] = "gone"] /\ subs' = subs \ {q} /\ timers' = timers \ {q}
        /\ up' = Append(up, m) /\ FoldOps(q, ops) /\ qcols' = [qcols EXCEPT ![q] = {}]
        /\ CloseSubscriber(q) /\ epoch' = [epoch EXCEPT ![q] = 0] /\ resubscribing' = resubscribing \ {q}
        /\ UNCHANGED <<srvVars, troubles, down>>
    BY Zenon DEF UnregisterQuery, DropQuery
  <1>3. m \in M /\ m.q = q /\ up \in Seq(M) /\ foot[q] \subseteq Key
    BY <1>1, Zenon DEF TypeOK
  <1>4. DOMAIN ops = foot[q] /\ \A k \in foot[q] : ops[k].op = "remove"
    BY Zenon
  <1>5. up' \in Seq(M) /\ \A i \in DOMAIN up' : (i \in DOMAIN up /\ up'[i] = up[i]) \/ up'[i] = m
    <2> HIDE DEF M, m
    <2> QED
      BY <1>2, <1>3, SMT
  <1> HIDE DEF ops, m
  <1>6. foot' \in [Query -> SUBSET Key] /\ refs' \in [Key -> SUBSET Query] /\ cell' \in [Key -> UnionRow]
    BY <1>1, <1>2, <1>3, <1>4, FoldTypes, Zenon
  <1>7. /\ phase' \in [Query -> {"none", "snapshot", "live"}] /\ lastSeq' \in [Query -> Nat]
        /\ phase'[q] = "none" /\ lastSeq'[q] = 0
        /\ \A p \in Query : p # q => phase'[p] = phase[p] /\ lastSeq'[p] = lastSeq[p]
    BY <1>1, <1>2, CloseTypes, Zenon
  <1>8. 0 \in Nat
    BY SMT
  <1>9. /\ life' \in [Query -> {"new", "retained", "gone"}] /\ qcols' \in [Query -> SUBSET Col] /\ epoch' \in [Query -> Nat]
        /\ subs' \in SUBSET Query /\ timers' \in SUBSET Query /\ resubscribing' \in SUBSET Query
    BY <1>1, <1>2, <1>8, Zenon DEF TypeOK
  <1>10. TypeOK'
    BY <1>1, <1>2, <1>5, <1>6, <1>7, <1>9, Zenon DEF TypeOK, srvVars
  <1>11. /\ life'[q] = "gone" /\ \A p \in Query : p # q => life'[p] = life[p] /\ qcols'[p] = qcols[p]
         /\ subs \subseteq Query
    BY <1>1, <1>2, Zenon DEF TypeOK
  <1>12. Lives'
    <2>1. \A p \in subs' : life'[p] = "retained"
      BY <1>1, <1>2, <1>11, Zenon DEF Lives
    <2>2. \A p \in Query : Listens(p)' => p \in subs'
      BY <1>1, <1>2, <1>7, Zenon DEF Lives, Listens
    <2>3. \A p \in Query : phase'[p] = "snapshot" => lastSeq'[p] = 0
      BY <1>1, <1>7, Zenon DEF Lives
    <2>4. ASSUME NEW i \in DOMAIN up', up'[i].t = "unsubscribe" PROVE life'[up'[i].q] = "gone"
      <3>1. CASE up'[i] = m
        BY <1>3, <1>11, <3>1, Zenon
      <3>2. CASE i \in DOMAIN up /\ up'[i] = up[i]
        <4>1. up[i].q \in Query /\ life[up[i].q] = "gone"
          BY <1>1, <2>4, <3>2, UpQueries, Zenon DEF Lives
        <4> QED
          BY <1>11, <3>2, <4>1, Zenon
      <3> QED
        BY <1>5, <3>1, <3>2, Zenon
    <2> QED
      BY <2>1, <2>2, <2>3, <2>4, Zenon DEF Lives
  <1>13. ASSUME NEW p \in Query PROVE ClientStands(p)
    <2>1. CASE p = q
      BY <1>7, <2>1, Zenon DEF ClientStands, Listens, IsLive
    <2>2. CASE p # q
      <3>1. foot'[p] = foot[p]
        BY <1>1, <1>2, <2>2, Zenon DEF FoldOps, TypeOK
      <3>2. qcols[p] \subseteq Col /\ qcols'[p] = qcols[p] /\ phase'[p] = phase[p] /\ lastSeq'[p] = lastSeq[p]
        BY <1>1, <1>7, <1>11, <2>2, SeqTypes, Zenon
      <3>3. ASSUME NEW k \in Key \cap foot[p], NEW c \in qcols[p] PROVE cell'[k][c] = cell[k][c]
        <4>1. k \in Key /\ k \in foot[p] /\ c \in Col /\ q # p
          BY <2>2, <3>2, Zenon
        <4>2. \/ cell'[k][c] = cell[k][c]
              \/ k \in DOMAIN ops /\ ops[k].op # "remove"
          BY <1>1, <1>2, <4>1, FoldOthers
        <4> QED
          BY <1>4, <4>2, Zenon
      <3> QED
        BY <3>1, <3>2, <3>3, Zenon DEF ClientStands, Listens, IsLive
    <2> QED
      BY <2>1, <2>2, Zenon
  <1>14. UNCHANGED <<rows, match, serving, srvVars>> /\ down' = down
    BY <1>2, Zenon DEF srvVars
  <1> QED
    BY <1>1, <1>10, <1>12, <1>13, <1>14, ServedSame, ClientOnly, Zenon

-----------------------------------------------------------------------------
(* Steps of the client that take a frame. *)

(* A frame goes that q has no part in, or that its subscriber does not apply. *)
LEMMA DropsStream ==
  ASSUME StreamInv, NEW q \in Query, NEW r, Drops(down, down', r), UNCHANGED <<srvVars, cell>>,
         IsHello(down[r], q) => r = 1 /\ ~Listens(q)', ClientStands(q)
  PROVE  Stream(q)'
  <1>1. Stream(q) /\ UNCHANGED <<rows, match, serving, layout, srvSeq, cell>>
    BY Parts, Zenon DEF srvVars
  <1> QED
    BY <1>1, DropStream, Zenon

LEMMA IgnoreStep ==
  ASSUME StreamInv, IgnoreFrame \/ SkipBatch
  PROVE  TypeOK' /\ Lives' /\ Served' /\ \A p \in Query : Stream(p)'
  <1>1. TypeOK /\ Lives /\ Served
    BY Parts, Zenon
  <1>2. Take /\ UNCHANGED <<srvVars, troubles, up, srcVars, syncVars>>
    BY Zenon DEF IgnoreFrame, SkipBatch
  <1>3. Head(down).q \notin subs \/ Head(down).t = "batch"
    BY Zenon DEF IgnoreFrame, SkipBatch
  <1>4. Drops(down, down', 1) /\ down' \in Seq(Frame) /\ Head(down) = down[1]
    BY <1>1, <1>2, Takes, Zenon
  <1>5. TypeOK'
    BY <1>1, <1>2, <1>4, Zenon DEF TypeOK, srvVars, srcVars, syncVars
  <1>6. Lives'
    BY <1>1, <1>2, Zenon DEF Lives, Listens, srcVars
  <1>7. UNCHANGED <<rows, match, serving, srvVars, cell, phase, lastSeq, syncVars>>
    BY <1>2, Zenon DEF srvVars, srcVars, syncVars
  <1>8. ASSUME NEW p \in Query PROVE Stream(p)'
    <2>1. IsHello(down[1], p) => 1 = 1 /\ ~Listens(p)'
      BY <1>1, <1>3, <1>4, <1>7, Zenon DEF IsHello, Lives, Listens
    <2> QED
      BY <1>4, <1>7, <2>1, DropsStream, SameStands, Zenon
  <1> QED
    BY <1>1, <1>5, <1>6, <1>7, <1>8, ServedSame, Zenon

LEMMA HelloStep ==
  ASSUME StreamInv, OnHello
  PROVE  TypeOK' /\ Lives' /\ Served' /\ \A p \in Query : Stream(p)'
  <1>1. TypeOK /\ Lives /\ Served
    BY Parts, Zenon
  <1>2. Take /\ Head(down).q \in subs /\ Head(down).t = "hello"
    BY Zenon DEF OnHello
  <1>3. Drops(down, down', 1) /\ down' \in Seq(Frame) /\ Head(down) = down[1] /\ down[1] \in Frame
    BY <1>1, <1>2, Takes, Zenon
  <1>4. PICK q \in Query : q = down[1].q
    BY <1>3, FrameTypes, Zenon
  <1>5. /\ phase' = [phase EXCEPT ![q] = "snapshot"] /\ epoch' = [epoch EXCEPT ![q] = down[1].epoch]
        /\ lastSeq' = [lastSeq EXCEPT ![q] = 0] /\ resubscribing' = resubscribing \ {q}
        /\ qcols' = [qcols EXCEPT ![q] = down[1].cols]
        /\ UNCHANGED <<srvVars, troubles, up, subs, life, timers, refs, cell, foot>>
    <2>1. UNCHANGED <<srvVars, troubles, up, subs, life, timers, refs, cell, foot>>
      BY Zenon DEF OnHello
    <2>2. /\ phase' = [phase EXCEPT ![Head(down).q] = "snapshot"] /\ epoch' = [epoch EXCEPT ![Head(down).q] = Head(down).epoch]
          /\ lastSeq' = [lastSeq EXCEPT ![Head(down).q] = 0] /\ resubscribing' = resubscribing \ {Head(down).q}
          /\ qcols' = [qcols EXCEPT ![Head(down).q] = Head(down).cols]
      BY Zenon DEF OnHello
    <2> QED
      BY <1>3, <1>4, <2>1, <2>2, Zenon
  <1>6. down[1].t = "hello" /\ q \in subs /\ down[1].epoch \in Nat /\ down[1].cols \in SUBSET Col
    BY <1>2, <1>3, <1>4, FrameTypes, Zenon
  <1>7. 0 \in Nat
    BY SMT
  <1>8. /\ phase' \in [Query -> {"none", "snapshot", "live"}] /\ epoch' \in [Query -> Nat] /\ lastSeq' \in [Query -> Nat]
        /\ resubscribing' \in SUBSET Query /\ qcols' \in [Query -> SUBSET Col]
    BY <1>1, <1>5, <1>6, <1>7, Zenon DEF TypeOK
  <1>9. /\ phase'[q] = "snapshot" /\ lastSeq'[q] = 0 /\ qcols'[q] = down[1].cols
        /\ \A p \in Query : p # q => phase'[p] = phase[p] /\ lastSeq'[p] = lastSeq[p] /\ qcols'[p] = qcols[p]
    BY <1>1, <1>5, Zenon DEF TypeOK
  <1>10. TypeOK'
    BY <1>1, <1>3, <1>5, <1>8, Zenon DEF TypeOK, srvVars
  <1>11. Lives'
    <2>1. \A p \in Query : Listens(p)' => p \in subs'
      BY <1>1, <1>5, <1>6, <1>9, Zenon DEF Lives, Listens
    <2>2. \A p \in Query : phase'[p] = "snapshot" => lastSeq'[p] = 0
      BY <1>1, <1>9, Zenon DEF Lives
    <2> QED
      BY <1>1, <1>5, <2>1, <2>2 DEF Lives
  <1>12. UNCHANGED <<rows, match, serving, layout, srvSeq, srvVars, cell>>
    BY <1>5, Zenon DEF srvVars
  <1>13. ASSUME NEW p \in Query PROVE Stream(p)'
    <2>1. CASE p = q
      <3>1. IsHello(down[1], p) /\ Frames(p) /\ srvSeq[p] \in Nat
        BY <1>4, <1>6, <2>1, Parts, Zenon DEF IsHello, Stream, SeqNats
      <3>2. phase'[p] = "snapshot" /\ lastSeq'[p] = 0 /\ qcols'[p] = down[1].cols
        BY <1>9, <2>1, Zenon
      <3> QED
        BY <1>3, <1>12, <3>1, <3>2, HelloStream, Zenon
    <2>2. CASE p # q
      <3>1. ~IsHello(down[1], p)
        BY <1>4, <2>2, Zenon DEF IsHello
      <3>2. ClientStands(p)
        BY <1>5, <1>9, <2>2, Zenon DEF ClientStands, Listens, IsLive
      <3> QED
        BY <1>3, <1>12, <3>1, <3>2, DropsStream, Zenon
    <2> QED
      BY <2>1, <2>2, Zenon
  <1> QED
    BY <1>1, <1>10, <1>11, <1>12, <1>13, ServedSame, Zenon

(* A subscriber closes, or stands. *)
LEMMA ClosedStream ==
  ASSUME StreamInv, Drops(down, down', 1), UNCHANGED <<srvVars, syncVars>>, ~(down[1].t = "hello"),
         \A p \in Query : phase'[p] = "none" \/ (phase'[p] = phase[p] /\ lastSeq'[p] = lastSeq[p])
  PROVE  Served' /\ \A p \in Query : Stream(p)'
  <1>1. UNCHANGED <<rows, match, serving, srvVars, cell, foot, qcols>>
    BY Zenon DEF srvVars, syncVars
  <1>2. ASSUME NEW p \in Query PROVE Stream(p)'
    <2>1. ~IsHello(down[1], p)
      BY Zenon DEF IsHello
    <2>2. ClientStands(p)
      BY <1>1, Zenon DEF ClientStands, Listens, IsLive
    <2> QED
      BY <1>1, <2>1, <2>2, DropsStream, Zenon
  <1> QED
    BY <1>1, <1>2, Parts, ServedSame, Zenon

LEMMA GapStep ==
  ASSUME StreamInv, OnGap
  PROVE  TypeOK' /\ Lives' /\ Served' /\ \A p \in Query : Stream(p)'
  <1>1. TypeOK /\ Lives /\ Served
    BY Parts, Zenon
  <1>2. Take /\ Head(down).q \in subs /\ Head(down).t = "batch" /\ UNCHANGED <<srvVars, subs, life, epoch, syncVars>>
    BY Zenon DEF OnGap
  <1>3. Drops(down, down', 1) /\ down' \in Seq(Frame) /\ Head(down) = down[1] /\ down[1] \in Frame
    BY <1>1, <1>2, Takes, Zenon
  <1>4. PICK q \in Query : q = Head(down).q
    BY <1>3, FrameTypes, Zenon
  <1>5. /\ phase' \in [Query -> {"none", "snapshot", "live"}] /\ lastSeq' \in [Query -> Nat]
        /\ timers' \in SUBSET Query /\ resubscribing' \in SUBSET Query /\ troubles' \in Nat
        /\ up' \in Seq([t: {"subscribe", "unsubscribe"}, q: Query])
        /\ \A i \in DOMAIN up' : up'[i].t = "unsubscribe" => i \in DOMAIN up /\ up'[i] = up[i]
        /\ \A p \in Query : \/ phase'[p] = "none" /\ lastSeq'[p] = 0
                            \/ phase'[p] = phase[p] /\ lastSeq'[p] = lastSeq[p]
    <2>1. CASE q \in resubscribing
      <3>1. UNCHANGED <<phase, lastSeq, resubscribing, up, timers, troubles>>
        BY <1>4, <2>1, SMT DEF OnGap
      <3> QED
        BY <1>1, <3>1, Zenon DEF TypeOK
    <2>2. CASE q \notin resubscribing
      <3>1. CloseSubscriber(q) /\ Subscribe(q)
        BY <1>4, <2>2, SMT DEF OnGap
      <3>2. /\ phase' \in [Query -> {"none", "snapshot", "live"}] /\ lastSeq' \in [Query -> Nat]
            /\ phase'[q] = "none" /\ \A p \in Query : p # q => phase'[p] = phase[p] /\ lastSeq'[p] = lastSeq[p]
            /\ lastSeq'[q] = 0
        BY <1>1, <3>1, CloseTypes, Zenon
      <3>3. /\ timers' \in SUBSET Query /\ resubscribing' \in SUBSET Query /\ troubles' \in Nat
            /\ up' \in Seq([t: {"subscribe", "unsubscribe"}, q: Query])
            /\ \A i \in DOMAIN up' : up'[i].t = "unsubscribe" => i \in DOMAIN up /\ up'[i] = up[i]
        BY <1>1, <3>1, SubscribeTypes, Zenon
      <3> QED
        BY <3>2, <3>3, Zenon
    <2> QED
      BY <2>1, <2>2, Zenon
  <1>6. TypeOK'
    BY <1>1, <1>2, <1>3, <1>5, Zenon DEF TypeOK, srvVars, syncVars
  <1>7. Lives'
    <2>1. \A p \in Query : Listens(p)' => p \in subs'
      BY <1>1, <1>2, <1>5, Zenon DEF Lives, Listens
    <2>2. \A p \in Query : phase'[p] = "snapshot" => lastSeq'[p] = 0
      BY <1>1, <1>5, Zenon DEF Lives
    <2>3. \A p \in subs' : life'[p] = "retained"
      BY <1>1, <1>2, Zenon DEF Lives
    <2>4. ASSUME NEW i \in DOMAIN up', up'[i].t = "unsubscribe" PROVE life'[up'[i].q] = "gone"
      <3>1. i \in DOMAIN up /\ up'[i] = up[i] /\ life' = life
        BY <1>2, <1>5, <2>4, Zenon
      <3>2. up[i].t = "unsubscribe"
        BY <2>4, <3>1, Zenon
      <3> QED
        BY <1>1, <3>1, <3>2, Zenon DEF Lives
    <2> QED
      BY <2>1, <2>2, <2>3, <2>4 DEF Lives
  <1>8. UNCHANGED <<srvVars, syncVars>> /\ ~(down[1].t = "hello")
    BY <1>2, <1>3, Zenon
  <1> QED
    BY <1>3, <1>5, <1>6, <1>7, <1>8, ClosedStream, Zenon

LEMMA ErrorStep ==
  ASSUME StreamInv, OnQueryError
  PROVE  TypeOK' /\ Lives' /\ Served' /\ \A p \in Query : Stream(p)'
  <1>1. TypeOK /\ Lives /\ Served
    BY Parts, Zenon
  <1>2. Take /\ Head(down).t = "error" /\ UNCHANGED <<srvVars, troubles, up, life, syncVars>>
    BY Zenon DEF OnQueryError
  <1>3. Drops(down, down', 1) /\ down' \in Seq(Frame) /\ Head(down) = down[1] /\ down[1] \in Frame
    BY <1>1, <1>2, Takes, Zenon
  <1>4. PICK q \in Query : q = Head(down).q
    BY <1>3, FrameTypes, Zenon
  <1>5. \/ /\ CloseSubscriber(q) /\ resubscribing' = resubscribing \cup {q} /\ timers' = timers \cup {q}
           /\ UNCHANGED <<subs, epoch>>
        \/ UNCHANGED <<phase, lastSeq, resubscribing, timers, subs, epoch>>
        \/ /\ subs' = subs \ {q} /\ timers' = timers \ {q} /\ CloseSubscriber(q)
           /\ epoch' = [epoch EXCEPT ![q] = 0] /\ resubscribing' = resubscribing \ {q}
    BY <1>4, SMT DEF OnQueryError
  <1>6. 0 \in Nat
    BY SMT
  <1>7. timers' \in SUBSET Query /\ resubscribing' \in SUBSET Query /\ epoch' \in [Query -> Nat] /\ subs' \in SUBSET Query
    <2>1. timers \in SUBSET Query /\ resubscribing \in SUBSET Query /\ epoch \in [Query -> Nat] /\ subs \in SUBSET Query
      BY <1>1, Zenon DEF TypeOK
    <2>2. timers' \in SUBSET Query /\ resubscribing' \in SUBSET Query /\ subs' \in SUBSET Query
      BY <1>5, <2>1, Zenon
    <2>3. epoch' = epoch \/ epoch' = [epoch EXCEPT ![q] = 0]
      BY <1>5, Zenon
    <2> QED
      BY <1>6, <2>1, <2>2, <2>3, Zenon
  <1>8. /\ phase' \in [Query -> {"none", "snapshot", "live"}] /\ lastSeq' \in [Query -> Nat]
        /\ \A p \in Query : \/ phase'[p] = "none" /\ lastSeq'[p] = 0
                            \/ phase'[p] = phase[p] /\ lastSeq'[p] = lastSeq[p]
        /\ subs' \subseteq subs /\ \A p \in subs : p \in subs' \/ (p = q /\ phase'[q] = "none")
    <2>1. CASE CloseSubscriber(q)
      <3>1. /\ phase' \in [Query -> {"none", "snapshot", "live"}] /\ lastSeq' \in [Query -> Nat]
            /\ phase'[q] = "none" /\ \A p \in Query : p # q => phase'[p] = phase[p] /\ lastSeq'[p] = lastSeq[p]
            /\ lastSeq'[q] = 0
        BY <1>1, <2>1, CloseTypes, Zenon
      <3>2. subs' = subs \/ subs' = subs \ {q}
        BY <1>5, Zenon
      <3> QED
        BY <3>1, <3>2, Zenon
    <2>2. CASE UNCHANGED <<phase, lastSeq, resubscribing, timers, subs, epoch>>
      BY <1>1, <2>2, Zenon DEF TypeOK
    <2> QED
      BY <1>5, <2>1, <2>2, Zenon
  <1>9. TypeOK'
    BY <1>1, <1>2, <1>3, <1>7, <1>8, Zenon DEF TypeOK, srvVars, syncVars
  <1>10. Lives'
    <2>1. \A p \in Query : Listens(p)' => p \in subs'
      BY <1>1, <1>8, Zenon DEF Lives, Listens
    <2>2. \A p \in Query : phase'[p] = "snapshot" => lastSeq'[p] = 0
      BY <1>1, <1>8, Zenon DEF Lives
    <2>3. \A p \in subs' : life'[p] = "retained"
      BY <1>1, <1>2, <1>8, Zenon DEF Lives
    <2>4. \A i \in DOMAIN up' : up'[i].t = "unsubscribe" => life'[up'[i].q] = "gone"
      BY <1>1, <1>2, Zenon DEF Lives
    <2> QED
      BY <2>1, <2>2, <2>3, <2>4 DEF Lives
  <1>11. UNCHANGED <<srvVars, syncVars>> /\ ~(down[1].t = "hello")
    BY <1>2, <1>3, Zenon
  <1> QED
    BY <1>3, <1>8, <1>9, <1>10, <1>11, ClosedStream, Zenon

(* The subscriber of q applies the frame at the head. *)
LEMMA TakenStep ==
  ASSUME StreamInv, NEW q \in Query, Listens(q), Drops(down, down', 1), down' \in Seq(Frame), 1 \in DOMAIN down,
         IsBatch(down[1], q), NEW ops, FoldOps(q, ops), Refolds(q, down[1], ops), DOMAIN ops \subseteq Key,
         \A k \in DOMAIN ops : ops[k].op # "remove" =>
           k \in DOMAIN down[1].ops /\ down[1].ops[k].op # "remove" /\ ops[k].row = down[1].ops[k].row,
         UNCHANGED <<srvVars, troubles, up, subs, life, epoch, resubscribing, timers, qcols>>,
         phase' \in [Query -> {"none", "snapshot", "live"}], lastSeq' \in [Query -> Nat],
         phase'[q] = "live", lastSeq'[q] = down[1].seq,
         \A p \in Query : p # q => phase'[p] = phase[p] /\ lastSeq'[p] = lastSeq[p]
  PROVE  TypeOK' /\ Lives' /\ Served' /\ \A p \in Query : Stream(p)'
  <1>1. TypeOK /\ SyncInv /\ Lives /\ Served /\ Stream(q) /\ SeqNats(q)
    BY Parts, Zenon
  <1>2. /\ RowsOver(down[1], qcols[q])
        /\ \A k \in DOMAIN down[1].ops : /\ down[1].ops[k].row \in WireRow
                                         /\ \A c \in qcols[q] : down[1].ops[k].row[c] \in Val
    BY <1>1, HeadCols, Zenon
  <1>3. \A k \in DOMAIN ops : ops[k].op # "remove" => \A c \in qcols[q] : ops[k].row[c] \in Val
    BY <1>2, Zenon
  <1>4. foot' \in [Query -> SUBSET Key] /\ refs' \in [Key -> SUBSET Query] /\ cell' \in [Key -> UnionRow]
    BY <1>1, <1>3, FoldTypes, Zenon
  <1>5. UNCHANGED <<rows, match, serving, layout, srvEpoch, srvSeq, commits, qcols>>
    BY Zenon DEF srvVars
  <1>6. UNCHANGED <<troubles, up, subs, life, epoch, resubscribing, timers>>
    BY Zenon
  <1>7. TypeOK'
    BY <1>1, <1>4, <1>5, <1>6, Zenon DEF TypeOK
  <1>8. Lives'
    <2>1. \A p \in Query : Listens(p)' => p \in subs'
      BY <1>1, <1>6, Zenon DEF Lives, Listens
    <2>2. \A p \in Query : phase'[p] = "snapshot" => lastSeq'[p] = 0
      BY <1>1, Zenon DEF Lives
    <2>3. \A p \in subs' : life'[p] = "retained"
      BY <1>1, <1>6, Zenon DEF Lives
    <2>4. \A i \in DOMAIN up' : up'[i].t = "unsubscribe" => life'[up'[i].q] = "gone"
      BY <1>1, <1>6, Zenon DEF Lives
    <2> QED
      BY <2>1, <2>2, <2>3, <2>4 DEF Lives
  <1>9. ASSUME NEW p \in Query PROVE Stream(p)'
    <2>1. Stream(p) /\ qcols[p] \subseteq Col /\ UNCHANGED <<rows, match, serving, layout, srvSeq, qcols>>
      BY <1>5, Parts, Zenon
    <2>2. CASE p = q
      <3>1. Stream(q)'
        BY <1>1, <1>2, <2>1, <2>2, TakenBySelf, Zenon
      <3> QED
        BY <2>2, <3>1
    <2>3. CASE p # q
      <3>1. phase'[p] = phase[p] /\ lastSeq'[p] = lastSeq[p] /\ q # p
        BY <2>3, Zenon
      <3> QED
        BY <1>1, <1>2, <2>1, <3>1, TakenByOther, Zenon
    <2> QED
      BY <2>2, <2>3, Zenon
  <1> QED
    BY <1>1, <1>5, <1>7, <1>8, <1>9, ServedSame, Zenon

(* The subscriber of q applies the frame at the head by folding ops. *)
Applied(q, ops) ==
  /\ Listens(q) /\ Drops(down, down', 1) /\ down' \in Seq(Frame) /\ 1 \in DOMAIN down /\ IsBatch(down[1], q)
  /\ FoldOps(q, ops) /\ Refolds(q, down[1], ops) /\ DOMAIN ops \subseteq Key
  /\ \A k \in DOMAIN ops : ops[k].op # "remove" =>
       k \in DOMAIN down[1].ops /\ down[1].ops[k].op # "remove" /\ ops[k].row = down[1].ops[k].row
  /\ UNCHANGED <<srvVars, troubles, up, subs, life, epoch, resubscribing, timers, qcols>>
  /\ phase' \in [Query -> {"none", "snapshot", "live"}] /\ lastSeq' \in [Query -> Nat]
  /\ phase'[q] = "live" /\ lastSeq'[q] = down[1].seq
  /\ \A p \in Query : p # q => phase'[p] = phase[p] /\ lastSeq'[p] = lastSeq[p]

LEMMA AppliedStep ==
  ASSUME StreamInv, \E q \in Query : \E ops : Applied(q, ops)
  PROVE  TypeOK' /\ Lives' /\ Served' /\ \A p \in Query : Stream(p)'
  <1>1. PICK q \in Query : \E ops : Applied(q, ops)
    BY Zenon
  <1>2. PICK ops : Applied(q, ops)
    BY <1>1, Zenon
  <1> QED
    BY <1>2, TakenStep, Zenon DEF Applied

LEMMA SnapshotApplied ==
  ASSUME StreamInv, OnSnapshot
  PROVE  \E q \in Query : \E ops : Applied(q, ops)
  <1>1. TypeOK /\ Lives
    BY Parts, Zenon
  <1>2. /\ Take /\ Head(down).t = "batch" /\ Applies(Head(down)) /\ Head(down).seq = 0
        /\ phase' = [phase EXCEPT ![Head(down).q] = "live"]
        /\ FoldOps(Head(down).q, RehydrateOps(Head(down).q, Head(down).ops))
    BY Zenon DEF OnSnapshot
  <1>3. UNCHANGED <<srvVars, troubles, up, subs, life, epoch, resubscribing, timers, qcols>> /\ lastSeq' = lastSeq
    BY Zenon DEF OnSnapshot
  <1>4. Drops(down, down', 1) /\ down' \in Seq(Frame) /\ Head(down) = down[1] /\ 1 \in DOMAIN down /\ down[1] \in Frame
    BY <1>1, <1>2, Takes, Zenon
  <1>5. PICK q \in Query : q = down[1].q
    BY <1>4, FrameTypes, Zenon
  <1>6. PICK ops : ops = RehydrateOps(q, down[1].ops)
    BY Zenon
  <1>7. Applies(down[1]) /\ down[1].seq = 0 /\ phase' = [phase EXCEPT ![q] = "live"] /\ FoldOps(q, ops)
    BY <1>2, <1>4, <1>5, <1>6
  <1>8. IsBatch(down[1], q) /\ down[1].ops \in Ops /\ lastSeq[q] \in Nat /\ phase[q] \in {"none", "snapshot", "live"}
    BY <1>1, <1>2, <1>4, <1>5, FrameTypes, Zenon DEF IsBatch, TypeOK
  <1>9. phase[q] = "snapshot"
    <2>1. phase[q] # "none" /\ 0 = IF phase[q] = "snapshot" THEN 0 ELSE lastSeq[q] + 1
      BY <1>5, <1>7 DEF Applies
    <2> QED
      BY <1>8, <2>1, SMT
  <1>10. lastSeq[q] = 0
    BY <1>1, <1>9, Zenon DEF Lives
  <1>11. Listens(q) /\ Snapshots(q)
    BY <1>9, Parts, Zenon DEF Listens, Stream, Frames
  <1>12. \A k \in DOMAIN down[1].ops : down[1].ops[k].op = "add"
    BY <1>4, <1>7, <1>8, <1>11, Zenon DEF Snapshots
  <1>13. \A k \in DOMAIN down[1].ops : /\ k \in DOMAIN ops /\ ops[k].row = down[1].ops[k].row
                                       /\ ops[k].op = IF k \in foot[q] THEN "edit" ELSE "add"
    BY <1>6, <1>8, <1>12, RehydratedRows
  <1>14. \A k \in DOMAIN ops : k \in DOMAIN down[1].ops \cup foot[q] /\ (k \notin DOMAIN down[1].ops => ops[k].op = "remove")
    BY <1>6, Rehydrated
  <1>15. \A k \in foot[q] : k \in DOMAIN ops
    BY <1>6, Zenon DEF RehydrateOps
  <1>16. Refolds(q, down[1], ops)
    <2> SUFFICES ASSUME NEW k \in Key
                 PROVE  /\ Keeps(down[1], k) =>
                             /\ k \in DOMAIN ops /\ ops[k].row = down[1].ops[k].row
                             /\ ops[k].op = IF k \in foot[q] THEN "edit" ELSE "add"
                        /\ ~Keeps(down[1], k) => IF k \in DOMAIN ops THEN ops[k].op = "remove" ELSE k \notin foot[q]
      BY <1>7, Zenon DEF Refolds, Decides
    <2>1. Keeps(down[1], k) <=> k \in DOMAIN down[1].ops
      BY <1>12, Zenon DEF Keeps
    <2> QED
      BY <1>13, <1>14, <1>15, <2>1, Zenon
  <1>17. DOMAIN ops \subseteq Key
    <2>1. DOMAIN down[1].ops \subseteq Key /\ foot[q] \subseteq Key
      BY <1>1, <1>8, OpsTypes, Zenon DEF TypeOK
    <2> QED
      BY <1>14, <2>1, Zenon
  <1>18. \A k \in DOMAIN ops : ops[k].op # "remove" =>
           k \in DOMAIN down[1].ops /\ down[1].ops[k].op # "remove" /\ ops[k].row = down[1].ops[k].row
    BY <1>12, <1>13, <1>14, Zenon
  <1>19. /\ phase' \in [Query -> {"none", "snapshot", "live"}] /\ lastSeq' \in [Query -> Nat]
         /\ phase'[q] = "live" /\ lastSeq'[q] = down[1].seq
         /\ \A p \in Query : p # q => phase'[p] = phase[p] /\ lastSeq'[p] = lastSeq[p]
    BY <1>1, <1>3, <1>7, <1>10, Zenon DEF TypeOK
  <1> HIDE <1>6
  <1>20. Applied(q, ops)
    BY <1>3, <1>4, <1>7, <1>8, <1>11, <1>16, <1>17, <1>18, <1>19, Zenon DEF Applied
  <1> QED
    BY <1>20, Zenon

LEMMA BatchApplied ==
  ASSUME StreamInv, OnBatch
  PROVE  \E q \in Query : \E ops : Applied(q, ops)
  <1>1. TypeOK /\ Lives
    BY Parts, Zenon
  <1>2. /\ Take /\ Head(down).t = "batch" /\ Applies(Head(down)) /\ Head(down).seq # 0
        /\ lastSeq' = [lastSeq EXCEPT ![Head(down).q] = Head(down).seq]
        /\ FoldOps(Head(down).q, Head(down).ops)
    BY Zenon DEF OnBatch
  <1>3. UNCHANGED <<srvVars, troubles, up, subs, life, epoch, resubscribing, timers, qcols>> /\ phase' = phase
    BY Zenon DEF OnBatch
  <1>4. Drops(down, down', 1) /\ down' \in Seq(Frame) /\ Head(down) = down[1] /\ 1 \in DOMAIN down /\ down[1] \in Frame
    BY <1>1, <1>2, Takes, Zenon
  <1>5. PICK q \in Query : q = down[1].q
    BY <1>4, FrameTypes, Zenon
  <1>6. PICK ops : ops = down[1].ops
    BY Zenon
  <1>7. /\ Applies(down[1]) /\ down[1].seq # 0 /\ lastSeq' = [lastSeq EXCEPT ![q] = down[1].seq]
        /\ FoldOps(q, ops)
    BY <1>2, <1>4, <1>5, <1>6
  <1>8. /\ IsBatch(down[1], q) /\ down[1].ops \in Ops /\ lastSeq[q] \in Nat /\ down[1].seq \in Nat
        /\ phase[q] \in {"none", "snapshot", "live"}
    BY <1>1, <1>2, <1>4, <1>5, FrameTypes, Zenon DEF IsBatch, TypeOK
  <1>9. phase[q] = "live" /\ down[1].seq = lastSeq[q] + 1
    <2>1. phase[q] # "none" /\ down[1].seq = IF phase[q] = "snapshot" THEN 0 ELSE lastSeq[q] + 1
      BY <1>5, <1>7 DEF Applies
    <2> QED
      BY <1>7, <1>8, <2>1, SMT
  <1>10. Listens(q) /\ IsLive(q) /\ ChainClient(q)
    BY <1>9, Parts, Zenon DEF Listens, IsLive, Stream, Chained
  <1>11. ASSUME NEW k \in Key PROVE Link(down, q, k, 0, lastSeq[q], 1, down[1].seq)
    <2>1. \A l \in DOMAIN down : ~(0 < l /\ l < 1)
      BY <1>1, SMT DEF TypeOK
    <2>2. lastSeq[q] + 1 .. down[1].seq - 1 = {}
      BY <1>8, <1>9, SMT
    <2> QED
      BY <2>1, <2>2, Zenon DEF Link, NoHello, Passes
  <1>12. lastSeq[q] < down[1].seq
    BY <1>8, <1>9, SMT
  <1>13. \A k \in DOMAIN down[1].ops : /\ k \in Key /\ down[1].ops[k].op \in {"add", "edit", "remove"}
                                       /\ (k \in foot[q] <=> down[1].ops[k].op # "add")
    <2>1. \A k \in DOMAIN down[1].ops : k \in Key /\ down[1].ops[k].op \in {"add", "edit", "remove"}
      BY <1>8, OpsTypes, Zenon
    <2> QED
      BY <1>4, <1>8, <1>10, <1>11, <1>12, <2>1, Zenon DEF ChainClient
  <1>14. Refolds(q, down[1], ops)
    <2> SUFFICES ASSUME NEW k \in Key, k \in DOMAIN down[1].ops
                 PROVE  /\ down[1].ops[k].op # "remove" => down[1].ops[k].op = IF k \in foot[q] THEN "edit" ELSE "add"
      BY <1>6, <1>7, <1>9, <1>10, SMT DEF Refolds, Decides, Keeps
    <2> QED
      BY <1>13, Zenon
  <1>15. /\ DOMAIN ops \subseteq Key
         /\ \A k \in DOMAIN ops : ops[k].op # "remove" =>
              k \in DOMAIN down[1].ops /\ down[1].ops[k].op # "remove" /\ ops[k].row = down[1].ops[k].row
    BY <1>6, <1>13, SMT
  <1>16. /\ phase' \in [Query -> {"none", "snapshot", "live"}] /\ lastSeq' \in [Query -> Nat]
         /\ phase'[q] = "live" /\ lastSeq'[q] = down[1].seq
         /\ \A p \in Query : p # q => phase'[p] = phase[p] /\ lastSeq'[p] = lastSeq[p]
    BY <1>1, <1>3, <1>7, <1>8, <1>9, Zenon DEF TypeOK
  <1> HIDE <1>6
  <1>17. Applied(q, ops)
    BY <1>3, <1>4, <1>7, <1>8, <1>10, <1>14, <1>15, <1>16, Zenon DEF Applied
  <1> QED
    BY <1>17, Zenon

===============================================================================
