----------------------- MODULE NormalizedStream_proofs -----------------------
(***************************************************************************)
(* What a client shows of a normalized query that is up to date is what    *)
(* the server has, cell by cell, for any queries, keys, columns and        *)
(* values: through lost batches, gaps, errors, retries and re-subscribes   *)
(* of every query on the socket.                                           *)
(*                                                                         *)
(* The batches of a query between two of its hellos are one session.  The  *)
(* argument follows one key through a session: the client, each batch that *)
(* touches the key and the server form a chain, and two neighbours of it   *)
(* agree as long as no batch between them is lost.                         *)
(***************************************************************************)
EXTENDS NormalizedSync, TLAPS

-----------------------------------------------------------------------------
(* The cross-query refcount: its proof uses nothing of the frames but the   *)
(* query they name, whatever the server streams, loses or repeats.          *)


(* The footprints and the reference sets are total. *)
Maps ==
  /\ subs \subseteq Query
  /\ foot = [q \in Query |-> foot[q]]
  /\ refs = [k \in Key |-> refs[k]]
  /\ cell = [k \in Key |-> cell[k]]

SyncInv == Maps /\ RefsAgree

(* Folding any ops of one query keeps the refcount exact. *)
LEMMA FoldKeepsRefs ==
  ASSUME SyncInv, NEW q \in Query, NEW ops, FoldOps(q, ops)
  PROVE  /\ RefsAgree'
         /\ (foot = [p \in Query |-> foot[p]])'
         /\ (refs = [k \in Key |-> refs[k]])' /\ (cell = [k \in Key |-> cell[k]])'
  <1> DEFINE added   == {k \in DOMAIN ops : ops[k].op = "add"}
             removed == {k \in DOMAIN ops : ops[k].op = "remove"}
  <1>1. /\ foot' = [foot EXCEPT ![q] = (@ \cup added) \ removed]
        /\ refs' = [k \in Key |-> IF k \in added THEN refs[k] \cup {q}
                                  ELSE IF k \in removed /\ k \in foot[q] THEN refs[k] \ {q}
                                  ELSE refs[k]]
        /\ cell' = [k \in Key |-> IF k \in added THEN AddKey(q, k, Scatter(q, ops[k].row))
                                  ELSE IF k \in removed THEN RemoveKey(q, k)
                                  ELSE IF k \in DOMAIN ops THEN EditKey(k, Scatter(q, ops[k].row))
                                  ELSE cell[k]]
    BY Zenon DEF FoldOps
  <1>2. added \cap removed = {}
    BY Zenon
  <1>3. /\ foot'[q] = (foot[q] \cup added) \ removed
        /\ \A p \in Query \ {q} : foot'[p] = foot[p]
        /\ foot' = [p \in Query |-> foot'[p]]
    BY <1>1, Zenon DEF SyncInv, Maps
  <1>4. ASSUME NEW k \in Key
        PROVE  refs'[k] = {p \in Query : k \in foot'[p]} /\ (refs'[k] = {} => cell'[k] = Blank)
    <2>1. refs[k] = {p \in Query : k \in foot[p]} /\ (refs[k] = {} => cell[k] = Blank)
      BY Zenon DEF SyncInv, RefsAgree
    <2>2. CASE k \in added
      <3>1. refs'[k] = refs[k] \cup {q}
        BY <1>1, <2>2, Zenon
      <3>2. k \in foot'[q]
        BY <1>2, <1>3, <2>2, Zenon
      <3> QED
        BY <1>3, <2>1, <3>1, <3>2, Zenon
    <2>3. CASE k \in removed /\ k \in foot[q]
      <3>1. refs'[k] = refs[k] \ {q} /\ cell'[k] = RemoveKey(q, k)
        BY <1>1, <1>2, <2>3, Zenon
      <3>2. k \notin foot'[q]
        BY <1>3, <2>3, Zenon
      <3>3. refs'[k] = {p \in Query : k \in foot'[p]}
        BY <1>3, <2>1, <3>1, <3>2, Zenon
      <3>4. refs'[k] = {} => RemoveKey(q, k) = Blank
        BY <2>3, <3>1, Zenon DEF RemoveKey
      <3> QED
        BY <3>1, <3>3, <3>4, Zenon
    <2>4. CASE k \notin added /\ ~(k \in removed /\ k \in foot[q])
      <3>1. refs'[k] = refs[k]
        BY <1>1, <2>4, Zenon
      <3>2. \A p \in Query : k \in foot'[p] <=> k \in foot[p]
        BY <1>3, <2>4, Zenon
      <3>3. refs[k] = {} => cell'[k] = cell[k]
        BY <1>1, <2>4, Zenon DEF RemoveKey, EditKey
      <3> QED
        BY <2>1, <3>1, <3>2, <3>3, Zenon
    <2> QED
      BY <2>2, <2>3, <2>4, Zenon
  <1>5. refs' = [k \in Key |-> refs'[k]] /\ cell' = [k \in Key |-> cell'[k]]
    BY <1>1, Zenon
  <1> QED
    BY <1>3, <1>4, <1>5, Zenon DEF RefsAgree, Blank

(* An empty client satisfies the invariant.                                *)
LEMMA RefsInit == Init => SyncInv
  BY Zenon DEF Init, SyncInv, Maps, RefsAgree

(* Every step of the specification keeps the invariant.                    *)
LEMMA RefsStep == SyncInv /\ [Next]_vars => SyncInv'
  <1> SUFFICES ASSUME SyncInv, [Next]_vars PROVE SyncInv'
    BY Zenon
  <1>1. ASSUME UNCHANGED <<refs, cell, foot>>, subs' \subseteq Query PROVE SyncInv'
    BY <1>1, Zenon DEF SyncInv, Maps, RefsAgree, Blank
  <1>2. subs \subseteq Query
    BY Zenon DEF SyncInv, Maps
  <1>3. ASSUME NEW q \in Query, RegisterQuery(q) \/ RetryTimer(q) \/ Fault(q) PROVE SyncInv'
    BY <1>1, <1>2, <1>3, Zenon DEF RegisterQuery, RetryTimer, Fault, syncVars, srcVars
  <1>4. ASSUME NEW q \in Query, UnregisterQuery(q) PROVE SyncInv'
    <2>1. FoldOps(q, [k \in foot[q] |-> [op |-> "remove", row |-> <<>>]]) /\ subs' \subseteq Query
      BY <1>2, <1>4, Zenon DEF UnregisterQuery, DropQuery
    <2> QED
      BY <2>1, FoldKeepsRefs, Zenon DEF SyncInv, Maps
  <1>5. CASE OnSnapshot
    <2>1. FoldOps(Head(down).q, RehydrateOps(Head(down).q, Head(down).ops))
          /\ Head(down).q \in Query /\ subs' = subs
      BY <1>2, <1>5, Zenon DEF OnSnapshot
    <2> QED
      BY <1>2, <2>1, FoldKeepsRefs, Zenon DEF SyncInv, Maps
  <1>6. CASE OnBatch
    <2>1. FoldOps(Head(down).q, Head(down).ops) /\ Head(down).q \in Query /\ subs' = subs
      BY <1>2, <1>6, Zenon DEF OnBatch
    <2> QED
      BY <1>2, <2>1, FoldKeepsRefs, Zenon DEF SyncInv, Maps
  <1>7. CASE OnHello
    BY <1>1, <1>2, <1>7, Zenon DEF OnHello
  <1>8. CASE IgnoreFrame \/ SkipBatch \/ OnGap
    BY <1>1, <1>2, <1>8, Zenon DEF IgnoreFrame, SkipBatch, OnGap, srcVars, syncVars
  <1>9. CASE OnQueryError
    BY <1>1, <1>2, <1>9, Zenon DEF OnQueryError, syncVars
  <1>10. CASE Answer \/ Unsubscribed \/ Commit \/ Lose
    <2>1. CASE Answer
      BY <1>1, <1>2, <2>1, Zenon DEF Answer, srcVars, syncVars
    <2>2. CASE Commit
      <3>1. UNCHANGED <<srcVars, syncVars>>
        BY <2>2, Zenon DEF Commit, WriteRow
      <3> QED
        BY <1>1, <1>2, <3>1, Zenon DEF srcVars, syncVars
    <2>3. CASE Unsubscribed \/ Lose
      BY <1>1, <1>2, <2>3, Zenon DEF Unsubscribed, Lose, srcVars, syncVars
    <2> QED
      BY <1>10, <2>1, <2>2, <2>3, Zenon
  <1>11. CASE UNCHANGED vars
    BY <1>1, <1>2, <1>11, Zenon DEF vars, srcVars, syncVars
  <1> QED
    BY <1>3, <1>4, <1>5, <1>6, <1>7, <1>8, <1>9, <1>10, <1>11, Zenon DEF Next, Client, Server

(* The refcount of every base row is exactly the set of queries that still     *)
(* show it, and a row without one is gone: applyBatch, rehydrate and dropQuery *)
(* neither leak a row nor drop one under a query.                               *)
THEOREM RefsAlways == Spec => []RefsAgree
  <1>1. SyncInv => RefsAgree
    BY Zenon DEF SyncInv
  <1> QED
    BY RefsInit, RefsStep, <1>1, PTL DEF Spec

-----------------------------------------------------------------------------
(* Sessions. *)

IsHello(f, q) == f.t = "hello" /\ f.q = q
IsBatch(f, q) == f.t = "batch" /\ f.q = q

(* No hello of q, and every seq between n and m in a batch of q that leaves k *)
(* alone, strictly between the positions i and j of the frames d.             *)
NoHello(d, q, i, j) == \A l \in DOMAIN d : i < l /\ l < j => ~IsHello(d[l], q)
Passes(d, q, k, i, n, j, m) ==
  \A s \in n + 1 .. m - 1 : \E l \in DOMAIN d :
    i < l /\ l < j /\ IsBatch(d[l], q) /\ d[l].seq = s /\ k \notin DOMAIN d[l].ops
Link(d, q, k, i, n, j, m) == NoHello(d, q, i, j) /\ Passes(d, q, k, i, n, j, m)

End == Len(down) + 1

(* A snapshot decides about every key, a batch about the keys of its ops. *)
Decides(f, k) == f.seq = 0 \/ k \in DOMAIN f.ops
Keeps(f, k) == k \in DOMAIN f.ops /\ f.ops[k].op # "remove"
RowsOver(f, C) == \A k \in DOMAIN f.ops : DOMAIN f.ops[k].row = C
Writes(f, k) == f.t = "batch" /\ k \in DOMAIN f.ops /\ f.ops[k].op # "remove"
Current(f, k, row) == \A c \in DOMAIN f.ops[k].row : f.ops[k].row[c] = row[c]

Listens(q) == phase[q] # "none"
IsLive(q) == phase[q] = "live"

(* A query with a subscriber is registered, and a registered one is retained; *)
(* only a query given up unsubscribes.                                        *)
Lives ==
  /\ \A q \in Query : Listens(q) => q \in subs
  /\ \A q \in Query : phase[q] = "snapshot" => lastSeq[q] = 0
  /\ \A q \in subs : life[q] = "retained"
  /\ \A i \in DOMAIN up : up[i].t = "unsubscribe" => life[up[i].q] = "gone"

(* The server keeps a footprint for the queries it serves, of rows that exist. *)
Served ==
  \A q \in Query : /\ q \notin serving => match[q] = {}
                   /\ \A k \in match[q] : rows[k] # NoRow

-----------------------------------------------------------------------------
(* The frames of q and the server.  The rows of a session have the columns of *)
(* its hello, and its seqs rise to the server's.                              *)
FrameCols(q) ==
  \A i, j \in DOMAIN down :
    i < j /\ IsHello(down[i], q) /\ IsBatch(down[j], q) /\ NoHello(down, q, i, j)
      => RowsOver(down[j], down[i].cols)
ServedCols(q) ==
  \A i \in DOMAIN down :
    q \in serving /\ IsHello(down[i], q) /\ NoHello(down, q, i, End) => down[i].cols = layout[q]
Rising(q) ==
  \A i, j \in DOMAIN down :
    i < j /\ IsBatch(down[i], q) /\ IsBatch(down[j], q) /\ NoHello(down, q, i, j)
      => down[i].seq < down[j].seq
Capped(q) ==
  \A i \in DOMAIN down :
    q \in serving /\ IsBatch(down[i], q) /\ NoHello(down, q, i, End) => down[i].seq <= srvSeq[q]
Snapshots(q) ==
  \A i \in DOMAIN down : IsBatch(down[i], q) /\ down[i].seq = 0
    => \A k \in DOMAIN down[i].ops : down[i].ops[k].op = "add"

(* Neighbours agree on whether a key is in the footprint; and a row on its    *)
(* way, in whosever batch, is the server's once q hears of no further change. *)
ChainFrames(q) ==
  \A k \in Key : \A i, j \in DOMAIN down :
    /\ i < j /\ IsBatch(down[i], q) /\ IsBatch(down[j], q)
    /\ Decides(down[i], k) /\ k \in DOMAIN down[j].ops
    /\ Link(down, q, k, i, down[i].seq, j, down[j].seq)
    => (Keeps(down[i], k) <=> down[j].ops[k].op # "add")
ChainServer(q) ==
  \A k \in Key : \A i \in DOMAIN down :
    /\ q \in serving /\ IsBatch(down[i], q) /\ Decides(down[i], k)
    /\ Link(down, q, k, i, down[i].seq, End, srvSeq[q] + 1)
    => (Keeps(down[i], k) <=> k \in match[q])
FreshFrames(q) ==
  \A k \in Key : \A p, i \in DOMAIN down :
    /\ q \in serving /\ k \in match[q] /\ Writes(down[i], k)
    /\ p <= i /\ IsBatch(down[p], q) /\ NoHello(down, q, p, End)
    /\ Passes(down, q, k, i, down[p].seq, End, srvSeq[q] + 1)
    => Current(down[i], k, rows[k])

Frames(q) ==
  /\ FrameCols(q) /\ ServedCols(q) /\ Rising(q) /\ Capped(q) /\ Snapshots(q)
  /\ ChainFrames(q) /\ ChainServer(q) /\ FreshFrames(q)

(* The same of the subscriber, from the first frame on.                       *)
ClientCols(q) ==
  \A j \in DOMAIN down :
    Listens(q) /\ IsBatch(down[j], q) /\ NoHello(down, q, 0, j) => RowsOver(down[j], qcols[q])
LayoutCols(q) ==
  q \in serving /\ Listens(q) /\ NoHello(down, q, 0, End) => qcols[q] = layout[q]
Behind(q) ==
  q \in serving /\ Listens(q) /\ NoHello(down, q, 0, End) => lastSeq[q] <= srvSeq[q]
Listening(q) == ClientCols(q) /\ LayoutCols(q) /\ Behind(q)

ChainClient(q) ==
  \A k \in Key : \A j \in DOMAIN down :
    /\ IsLive(q) /\ IsBatch(down[j], q) /\ k \in DOMAIN down[j].ops
    /\ lastSeq[q] < down[j].seq
    /\ Link(down, q, k, 0, lastSeq[q], j, down[j].seq)
    => (k \in foot[q] <=> down[j].ops[k].op # "add")
ChainEnds(q) ==
  \A k \in Key :
    q \in serving /\ IsLive(q) /\ Link(down, q, k, 0, lastSeq[q], End, srvSeq[q] + 1)
      => (k \in foot[q] <=> k \in match[q])
FreshClient(q) ==
  \A k \in Key : \A i \in DOMAIN down :
    /\ q \in serving /\ k \in match[q] /\ Writes(down[i], k)
    /\ IsLive(q) /\ NoHello(down, q, 0, End)
    /\ Passes(down, q, k, i, lastSeq[q], End, srvSeq[q] + 1)
    => Current(down[i], k, rows[k])
Chained(q) == ChainClient(q) /\ ChainEnds(q) /\ FreshClient(q)

(* And so is a cell of the base that q contributes.                           *)
FreshCells(q) ==
  \A k \in Key :
    /\ q \in serving /\ k \in match[q]
    /\ IsLive(q) /\ Link(down, q, k, 0, lastSeq[q], End, srvSeq[q] + 1)
    => \A c \in layout[q] : cell[k][c] = rows[k][c]

Stream(q) == Frames(q) /\ Listening(q) /\ Chained(q) /\ FreshCells(q)

(* Unless layouts narrow, hellos only widen what a query contributes.         *)
Widens(q) ==
  life[q] # "gone" =>
    /\ qcols[q] \subseteq layout[q]
    /\ \A i \in DOMAIN down : IsHello(down[i], q) => qcols[q] \subseteq down[i].cols /\ down[i].cols \subseteq layout[q]
    /\ \A i, j \in DOMAIN down : i < j /\ IsHello(down[i], q) /\ IsHello(down[j], q) => down[i].cols \subseteq down[j].cols

-----------------------------------------------------------------------------
(* Frames come off the socket at one place and join it at its end. *)
Up(r, i) == IF i < r THEN i ELSE i + 1
Drops(d, e, r) ==
  /\ Len(d) \in Nat /\ Len(e) \in Nat /\ Len(d) = Len(e) + 1 /\ r \in 1 .. Len(d)
  /\ DOMAIN d = 1 .. Len(d) /\ DOMAIN e = 1 .. Len(e)
  /\ \A i \in 1 .. Len(e) : e[i] = d[Up(r, i)]
Extends(d, e) ==
  /\ Len(d) \in Nat /\ Len(e) \in Nat /\ Len(d) <= Len(e)
  /\ DOMAIN d = 1 .. Len(d) /\ DOMAIN e = 1 .. Len(e)
  /\ \A i \in 1 .. Len(d) : e[i] = d[i]

LEMMA TailDrops ==
  ASSUME NEW S, NEW d \in Seq(S), d # <<>>
  PROVE  Drops(d, Tail(d), 1) /\ Tail(d) \in Seq(S) /\ Head(d) = d[1] /\ 1 \in DOMAIN d
  BY SMT DEF Drops, Up

LEMMA ConcatExtends ==
  ASSUME NEW S, NEW d \in Seq(S), NEW a \in Seq(S)
  PROVE  /\ Extends(d, d \o a) /\ d \o a \in Seq(S) /\ Len(d \o a) = Len(d) + Len(a)
         /\ \A i \in 1 .. Len(a) : (d \o a)[Len(d) + i] = a[i]
  BY SMT DEF Extends

LEMMA WithoutDrops ==
  ASSUME NEW S, NEW d \in Seq(S), NEW r \in DOMAIN d
  PROVE  Drops(d, Without(d, r), r) /\ Without(d, r) \in Seq(S)
  <1>1. Len(d) \in Nat /\ r \in 1 .. Len(d) /\ DOMAIN d = 1 .. Len(d)
    BY SMT
  <1>2. \A i \in 1 .. Len(d) - 1 : d[IF i < r THEN i ELSE i + 1] \in S
    BY <1>1, SMT
  <1>3. Without(d, r) \in [1 .. Len(d) - 1 -> S] /\ Len(d) - 1 \in Nat
    BY <1>1, <1>2, SMT DEF Without
  <1>4. Without(d, r) \in Seq(S) /\ Len(Without(d, r)) = Len(d) - 1
    BY <1>3, SMT
  <1>5. \A i \in 1 .. Len(d) - 1 : Without(d, r)[i] = d[Up(r, i)]
    BY SMT DEF Without, Up
  <1> QED
    BY <1>1, <1>3, <1>4, <1>5, SMT DEF Drops

LEMMA DropNoHello ==
  ASSUME NEW d, NEW e, NEW r, NEW q, NEW i \in Nat, NEW j \in Nat,
         Drops(d, e, r), j <= Len(d), NoHello(e, q, i, j),
         ~IsHello(d[r], q) \/ r <= i
  PROVE  NoHello(d, q, Up(r, i), Up(r, j))
  <1> SUFFICES ASSUME NEW l \in DOMAIN d, Up(r, i) < l, l < Up(r, j) PROVE ~IsHello(d[l], q)
    BY DEF NoHello
  <1>1. CASE l = r
    BY <1>1, SMT DEF Up, Drops
  <1>2. CASE l < r
    <2>1. l \in DOMAIN e /\ e[l] = d[l] /\ i < l /\ l < j
      BY <1>2, SMT DEF Up, Drops
    <2> QED
      BY <2>1 DEF NoHello
  <1>3. CASE l > r
    <2>1. l - 1 \in DOMAIN e /\ e[l - 1] = d[l] /\ i < l - 1 /\ l - 1 < j
      BY <1>3, SMT DEF Up, Drops
    <2> QED
      BY <2>1 DEF NoHello
  <1> QED
    BY <1>1, <1>2, <1>3, SMT DEF Drops

LEMMA DropPasses ==
  ASSUME NEW d, NEW e, NEW r, NEW q, NEW k, NEW i \in Nat, NEW n, NEW j \in Nat, NEW m,
         Drops(d, e, r), j <= Len(d), Passes(e, q, k, i, n, j, m)
  PROVE  Passes(d, q, k, Up(r, i), n, Up(r, j), m)
  <1> SUFFICES ASSUME NEW s \in n + 1 .. m - 1
               PROVE  \E l \in DOMAIN d : Up(r, i) < l /\ l < Up(r, j) /\ IsBatch(d[l], q)
                                            /\ d[l].seq = s /\ k \notin DOMAIN d[l].ops
    BY Zenon DEF Passes
  <1>1. PICK l \in DOMAIN e : i < l /\ l < j /\ IsBatch(e[l], q) /\ e[l].seq = s /\ k \notin DOMAIN e[l].ops
    BY Zenon DEF Passes
  <1>2. Up(r, l) \in DOMAIN d /\ e[l] = d[Up(r, l)] /\ Up(r, i) < Up(r, l) /\ Up(r, l) < Up(r, j)
    BY <1>1, SMT DEF Drops, Up
  <1> QED
    BY <1>1, <1>2, Zenon

LEMMA DropPlaces ==
  ASSUME NEW d, NEW e, NEW r, Drops(d, e, r)
  PROVE  /\ \A i \in DOMAIN e : /\ i \in Nat /\ i <= Len(d) /\ e[i] = d[Up(r, i)]
                                /\ Up(r, i) \in DOMAIN d /\ Up(r, i) \in Nat
         /\ \A i, j \in DOMAIN e : /\ i < j => Up(r, i) < Up(r, j)
                                   /\ i <= j => Up(r, i) <= Up(r, j)
         /\ 0 \in Nat /\ Up(r, 0) = 0 /\ Up(r, Len(e) + 1) = Len(d) + 1
         /\ Len(e) + 1 \in Nat /\ Len(e) + 1 <= Len(d)
  BY SMT DEF Drops, Up

(* Past a head taken off, every place moves down by one. *)
LEMMA TailNoHello ==
  ASSUME NEW d, NEW e, NEW q, NEW i \in Nat, NEW j \in Nat, Drops(d, e, 1), NoHello(e, q, i, j)
  PROVE  NoHello(d, q, i + 1, j + 1)
  <1> SUFFICES ASSUME NEW l \in DOMAIN d, i + 1 < l, l < j + 1 PROVE ~IsHello(d[l], q)
    BY DEF NoHello
  <1>1. l - 1 \in DOMAIN e /\ e[l - 1] = d[l] /\ i < l - 1 /\ l - 1 < j
    BY SMT DEF Up, Drops
  <1> QED
    BY <1>1 DEF NoHello

LEMMA TailPasses ==
  ASSUME NEW d, NEW e, NEW q, NEW k, NEW i \in Nat, NEW n, NEW j \in Nat, NEW m,
         Drops(d, e, 1), Passes(e, q, k, i, n, j, m)
  PROVE  Passes(d, q, k, i + 1, n, j + 1, m)
  <1> SUFFICES ASSUME NEW s \in n + 1 .. m - 1
               PROVE  \E l \in DOMAIN d : i + 1 < l /\ l < j + 1 /\ IsBatch(d[l], q)
                                            /\ d[l].seq = s /\ k \notin DOMAIN d[l].ops
    BY Zenon DEF Passes
  <1>1. PICK l \in DOMAIN e : i < l /\ l < j /\ IsBatch(e[l], q) /\ e[l].seq = s /\ k \notin DOMAIN e[l].ops
    BY Zenon DEF Passes
  <1>2. l + 1 \in DOMAIN d /\ e[l] = d[l + 1] /\ i + 1 < l + 1 /\ l + 1 < j + 1
    BY <1>1, SMT DEF Drops, Up
  <1> QED
    BY <1>1, <1>2, Zenon

LEMMA TailPlaces ==
  ASSUME NEW d, NEW e, Drops(d, e, 1)
  PROVE  /\ \A i \in DOMAIN e : /\ i \in Nat /\ e[i] = d[i + 1] /\ i + 1 \in DOMAIN d
                                /\ 1 < i + 1 /\ 1 <= i + 1
         /\ 1 \in DOMAIN d /\ Len(e) + 1 \in Nat /\ Len(e) + 1 + 1 = Len(d) + 1 /\ 0 + 1 = 1 /\ 0 \in Nat
  BY SMT DEF Drops, Up

(* What holds up to a place among the old frames held before the new ones. *)
LEMMA ExtendNoHello ==
  ASSUME NEW d, NEW e, NEW q, NEW i, NEW j \in Nat, NEW z \in Nat,
         Extends(d, e), NoHello(e, q, i, j), z <= j, z <= Len(d) + 1
  PROVE  NoHello(d, q, i, z)
  <1> SUFFICES ASSUME NEW l \in DOMAIN d, i < l, l < z PROVE ~IsHello(d[l], q)
    BY DEF NoHello
  <1>1. l \in DOMAIN e /\ e[l] = d[l] /\ l < j
    BY SMT DEF Extends
  <1> QED
    BY <1>1 DEF NoHello

LEMMA ExtendPasses ==
  ASSUME NEW d, NEW e, NEW q, NEW k, NEW i \in Nat, NEW n \in Nat, NEW j \in Nat, NEW m \in Nat,
         NEW z \in Nat, NEW u \in Nat,
         Extends(d, e), Passes(e, q, k, i, n, j, m), u <= m,
         \A l \in DOMAIN e : l < j /\ IsBatch(e[l], q) => l < z \/ u <= e[l].seq,
         z <= Len(d) + 1
  PROVE  Passes(d, q, k, i, n, z, u)
  <1> SUFFICES ASSUME NEW s \in n + 1 .. u - 1
               PROVE  \E l \in DOMAIN d : i < l /\ l < z /\ IsBatch(d[l], q)
                                            /\ d[l].seq = s /\ k \notin DOMAIN d[l].ops
    BY Zenon DEF Passes
  <1>1. s \in n + 1 .. m - 1 /\ ~(u <= s)
    BY SMT
  <1>2. PICK l \in DOMAIN e : i < l /\ l < j /\ IsBatch(e[l], q) /\ e[l].seq = s /\ k \notin DOMAIN e[l].ops
    BY <1>1, Zenon DEF Passes
  <1>3. l < z
    BY <1>1, <1>2, Zenon
  <1>4. l \in DOMAIN d /\ e[l] = d[l]
    BY <1>2, <1>3, SMT DEF Extends
  <1> QED
    BY <1>2, <1>3, <1>4, Zenon

-----------------------------------------------------------------------------
(* Where the frames of a shorter socket were. *)
Shifts(r) ==
  /\ \A i \in DOMAIN down' : /\ i \in Nat /\ i <= Len(down) /\ down'[i] = down[Up(r, i)]
                             /\ Up(r, i) \in DOMAIN down /\ Up(r, i) \in Nat
  /\ \A i, j \in DOMAIN down' : /\ i < j => Up(r, i) < Up(r, j)
                                /\ i <= j => Up(r, i) <= Up(r, j)
  /\ Up(r, End') = End /\ End' \in Nat /\ End' <= Len(down)
  /\ 0 \in Nat /\ Up(r, 0) = 0 /\ \A i \in DOMAIN down' : r = 1 => r <= i

LEMMA LeftPlaces == ASSUME NEW r, Drops(down, down', r) PROVE Shifts(r)
  <1>1. 0 \in Nat /\ Up(r, 0) = 0 /\ \A i \in DOMAIN down' : r = 1 => r <= i
    BY SMT DEF Drops, Up
  <1>2. Up(r, End') = End /\ End' \in Nat /\ End' <= Len(down)
    BY DropPlaces, Zenon DEF End
  <1>3. /\ \A i \in DOMAIN down' : /\ i \in Nat /\ i <= Len(down) /\ down'[i] = down[Up(r, i)]
                                   /\ Up(r, i) \in DOMAIN down /\ Up(r, i) \in Nat
        /\ \A i, j \in DOMAIN down' : /\ i < j => Up(r, i) < Up(r, j)
                                      /\ i <= j => Up(r, i) <= Up(r, j)
    BY DropPlaces, Zenon
  <1> QED
    BY <1>1, <1>2, <1>3, Zenon DEF Shifts

(* The instance of ChainFrames for two frames of the socket. *)
LEMMA ChainedFrames ==
  ASSUME NEW q, ChainFrames(q), NEW k \in Key, NEW i \in DOMAIN down, NEW j \in DOMAIN down,
         NEW f, NEW g, f = down[i], g = down[j], i < j, IsBatch(f, q), IsBatch(g, q),
         Decides(f, k), k \in DOMAIN g.ops, Link(down, q, k, i, f.seq, j, g.seq)
  PROVE  Keeps(f, k) <=> g.ops[k].op # "add"
  BY Zenon DEF ChainFrames

(* A frame leaves: its neighbours become neighbours.  Only the head can be a   *)
(* hello.                                                                      *)
LEMMA DropFrames ==
  ASSUME NEW q, NEW r, Frames(q), Drops(down, down', r), IsHello(down[r], q) => r = 1,
         UNCHANGED <<rows, match, serving, layout, srvSeq>>
  PROVE  Frames(q)'
  <1>1. Shifts(r)
    BY LeftPlaces
  <1>3. ASSUME NEW i \in DOMAIN down', NEW j \in DOMAIN down' \cup {End'}, NoHello(down', q, i, j)
        PROVE  NoHello(down, q, Up(r, i), Up(r, j))
    BY <1>1, <1>3, DropNoHello, Zenon DEF Shifts
  <1>4. ASSUME NEW k, NEW i \in DOMAIN down', NEW n, NEW j \in DOMAIN down' \cup {End'}, NEW m,
               Passes(down', q, k, i, n, j, m)
        PROVE  Passes(down, q, k, Up(r, i), n, Up(r, j), m)
    BY <1>1, <1>4, DropPasses, Zenon DEF Shifts
  <1>5. FrameCols(q)' /\ ServedCols(q)' /\ Rising(q)' /\ Capped(q)' /\ Snapshots(q)'
    <2>1. FrameCols(q)'
      BY <1>1, <1>3, Zenon DEF Frames, FrameCols, Shifts
    <2>2. ServedCols(q)'
      BY <1>1, <1>3, Zenon DEF Frames, ServedCols, Shifts
    <2>3. Rising(q)'
      BY <1>1, <1>3, Zenon DEF Frames, Rising, Shifts
    <2>4. Capped(q)'
      BY <1>1, <1>3, Zenon DEF Frames, Capped, Shifts
    <2>5. Snapshots(q)'
      <3> SUFFICES ASSUME NEW i \in DOMAIN down', IsBatch(down'[i], q), down'[i].seq = 0
                   PROVE  \A k \in DOMAIN down'[i].ops : down'[i].ops[k].op = "add"
        BY Zenon DEF Snapshots
      <3>1. Up(r, i) \in DOMAIN down /\ down'[i] = down[Up(r, i)]
        BY <1>1, Zenon DEF Shifts
      <3> QED
        BY <3>1, Zenon DEF Frames, Snapshots
    <2> QED
      BY <2>1, <2>2, <2>3, <2>4, <2>5, Zenon
  <1>6. ChainFrames(q)'
    <2> SUFFICES ASSUME NEW k \in Key, NEW i \in DOMAIN down', NEW j \in DOMAIN down',
                        i < j, IsBatch(down'[i], q), IsBatch(down'[j], q),
                        Decides(down'[i], k), k \in DOMAIN down'[j].ops,
                        Link(down', q, k, i, down'[i].seq, j, down'[j].seq)
                 PROVE  Keeps(down'[i], k) <=> down'[j].ops[k].op # "add"
      BY Zenon DEF ChainFrames
    <2>1. /\ Up(r, i) \in DOMAIN down /\ Up(r, j) \in DOMAIN down /\ Up(r, i) < Up(r, j)
          /\ down'[i] = down[Up(r, i)] /\ down'[j] = down[Up(r, j)]
      BY <1>1, Zenon DEF Shifts
    <2>2. Link(down, q, k, Up(r, i), down'[i].seq, Up(r, j), down'[j].seq)
      BY <1>3, <1>4, Zenon DEF Link
    <2>3. ChainFrames(q)
      BY Zenon DEF Frames
    <2> QED
      BY <2>1, <2>2, <2>3, ChainedFrames, Zenon
  <1>7. ChainServer(q)'
    BY <1>1, <1>3, <1>4, Zenon DEF Frames, ChainServer, Link, Shifts
  <1>8. FreshFrames(q)'
    <2> SUFFICES ASSUME NEW k \in Key, NEW p \in DOMAIN down', NEW i \in DOMAIN down',
                        q \in serving, k \in match[q], Writes(down'[i], k),
                        p <= i, IsBatch(down'[p], q), NoHello(down', q, p, End'),
                        Passes(down', q, k, i, down'[p].seq, End', srvSeq[q] + 1)
                 PROVE  Current(down'[i], k, rows'[k])
      BY Zenon DEF FreshFrames
    <2>1. Current(down[Up(r, i)], k, rows[k])
      BY <1>1, <1>3, <1>4, Zenon DEF Frames, FreshFrames, Shifts
    <2> QED
      BY <1>1, <2>1, Zenon DEF Shifts
  <1> QED
    BY <1>5, <1>6, <1>7, <1>8, Zenon DEF Frames

LEMMA DropListening ==
  ASSUME NEW q, NEW r, Listening(q), Drops(down, down', r),
         UNCHANGED <<serving, layout, srvSeq>>,
         Listens(q)' => /\ Listens(q) /\ ~IsHello(down[r], q)
                        /\ qcols'[q] = qcols[q]
                        /\ lastSeq'[q] = lastSeq[q] \/ Behind(q)'
  PROVE  Listening(q)'
  <1>1. Shifts(r)
    BY LeftPlaces
  <1>2. ASSUME NEW j \in DOMAIN down' \cup {End'}, NoHello(down', q, 0, j), Listens(q)'
        PROVE  NoHello(down, q, 0, Up(r, j))
    BY <1>1, <1>2, DropNoHello, Zenon DEF Shifts
  <1>3. ClientCols(q)'
    <2> SUFFICES ASSUME NEW j \in DOMAIN down', Listens(q)', IsBatch(down'[j], q), NoHello(down', q, 0, j)
                 PROVE  RowsOver(down'[j], qcols'[q])
      BY Zenon DEF ClientCols
    <2>1. RowsOver(down[Up(r, j)], qcols[q])
      BY <1>1, <1>2, Zenon DEF Listening, ClientCols, Shifts
    <2> QED
      BY <1>1, <2>1, Zenon DEF Shifts
  <1>4. LayoutCols(q)' /\ Behind(q)'
    BY <1>1, <1>2, Zenon DEF Listening, LayoutCols, Behind, Shifts
  <1> QED
    BY <1>3, <1>4, Zenon DEF Listening

(* A live subscriber that did not take the frame itself. *)
LEMMA DropLinks ==
  ASSUME NEW q, NEW r, Drops(down, down', r), ~IsHello(down[r], q)
  PROVE  /\ \A j \in DOMAIN down' \cup {End'} : NoHello(down', q, 0, j) => NoHello(down, q, 0, Up(r, j))
         /\ \A k, n, m : \A i \in DOMAIN down' \cup {0} : \A j \in DOMAIN down' \cup {End'} :
              Passes(down', q, k, i, n, j, m) => Passes(down, q, k, Up(r, i), n, Up(r, j), m)
  <1>1. Shifts(r)
    BY LeftPlaces
  <1>2. ASSUME NEW j \in DOMAIN down' \cup {End'}, NoHello(down', q, 0, j)
        PROVE  NoHello(down, q, 0, Up(r, j))
    BY <1>1, <1>2, DropNoHello, Zenon DEF Shifts
  <1>3. ASSUME NEW k, NEW n, NEW m, NEW i \in DOMAIN down' \cup {0}, NEW j \in DOMAIN down' \cup {End'},
               Passes(down', q, k, i, n, j, m)
        PROVE  Passes(down, q, k, Up(r, i), n, Up(r, j), m)
    BY <1>1, <1>3, DropPasses, Zenon DEF Shifts
  <1> QED
    BY <1>2, <1>3, Zenon

LEMMA DropChained ==
  ASSUME NEW q, NEW r, Chained(q), Drops(down, down', r),
         UNCHANGED <<rows, match, serving, layout, srvSeq>>,
         IsLive(q)' => /\ IsLive(q) /\ ~IsHello(down[r], q)
                       /\ lastSeq'[q] = lastSeq[q] /\ foot'[q] = foot[q]
  PROVE  Chained(q)'
  <1> SUFFICES ASSUME IsLive(q)' PROVE Chained(q)'
    BY Zenon DEF Chained, ChainClient, ChainEnds, FreshClient
  <1>1. Shifts(r)
    BY LeftPlaces
  <1>2. /\ \A j \in DOMAIN down' \cup {End'} : NoHello(down', q, 0, j) => NoHello(down, q, 0, Up(r, j))
        /\ \A k, n, m : \A i \in DOMAIN down' \cup {0} : \A j \in DOMAIN down' \cup {End'} :
             Passes(down', q, k, i, n, j, m) => Passes(down, q, k, Up(r, i), n, Up(r, j), m)
    BY DropLinks, Zenon
  <1>3. ASSUME NEW k \in Key, NEW j \in DOMAIN down', IsBatch(down'[j], q), k \in DOMAIN down'[j].ops,
               lastSeq'[q] < down'[j].seq, Link(down', q, k, 0, lastSeq'[q], j, down'[j].seq)
        PROVE  k \in foot'[q] <=> down'[j].ops[k].op # "add"
    <2>1. Up(r, j) \in DOMAIN down /\ down'[j] = down[Up(r, j)] /\ Up(r, 0) = 0
      BY <1>1, Zenon DEF Shifts
    <2>2. Link(down, q, k, 0, lastSeq[q], Up(r, j), down[Up(r, j)].seq)
      BY <1>2, <1>3, <2>1, Zenon DEF Link
    <2> QED
      BY <1>3, <2>1, <2>2, Zenon DEF Chained, ChainClient
  <1>4. ASSUME NEW k \in Key, q \in serving, Link(down', q, k, 0, lastSeq'[q], End', srvSeq[q] + 1)
        PROVE  k \in foot'[q] <=> k \in match[q]
    <2>1. Link(down, q, k, 0, lastSeq[q], End, srvSeq[q] + 1)
      BY <1>1, <1>2, <1>4, Zenon DEF Link, Shifts
    <2> QED
      BY <1>4, <2>1, Zenon DEF Chained, ChainEnds
  <1>5. ASSUME NEW k \in Key, NEW i \in DOMAIN down', q \in serving, k \in match[q], Writes(down'[i], k),
               NoHello(down', q, 0, End'), Passes(down', q, k, i, lastSeq'[q], End', srvSeq[q] + 1)
        PROVE  Current(down'[i], k, rows[k])
    <2>1. Up(r, i) \in DOMAIN down /\ down'[i] = down[Up(r, i)] /\ Up(r, End') = End
      BY <1>1, Zenon DEF Shifts
    <2>2. NoHello(down, q, 0, End) /\ Passes(down, q, k, Up(r, i), lastSeq[q], End, srvSeq[q] + 1)
      BY <1>2, <1>5, <2>1, Zenon
    <2> QED
      BY <1>5, <2>1, <2>2, Zenon DEF Chained, FreshClient
  <1>6. ChainClient(q)'
    BY <1>3, Zenon DEF ChainClient
  <1>7. ChainEnds(q)'
    BY <1>4, Zenon DEF ChainEnds
  <1>8. FreshClient(q)'
    BY <1>5, Zenon DEF FreshClient
  <1> QED
    BY <1>6, <1>7, <1>8, Zenon DEF Chained

-----------------------------------------------------------------------------
(* The head is taken: the subscriber stands where the frame stood. *)
LEMMA TailPrepend ==
  ASSUME NEW d, NEW e, NEW q, NEW k, NEW n \in Nat, NEW j \in Nat, NEW m \in Nat,
         Drops(d, e, 1), 0 < j, IsBatch(d[1], q), d[1].seq = n + 1, k \notin DOMAIN d[1].ops,
         Link(e, q, k, 0, n + 1, j, m)
  PROVE  Link(d, q, k, 0, n, j + 1, m)
  <1>1. NoHello(d, q, 0 + 1, j + 1) /\ Passes(d, q, k, 0 + 1, n + 1, j + 1, m)
    BY TailNoHello, TailPasses, SMT DEF Link
  <1>2. NoHello(d, q, 0, j + 1)
    <2> SUFFICES ASSUME NEW l \in DOMAIN d, 0 < l, l < j + 1 PROVE ~IsHello(d[l], q)
      BY DEF NoHello
    <2>1. CASE l = 1
      BY <2>1, Zenon DEF IsHello, IsBatch
    <2>2. CASE l # 1
      <3>1. 0 + 1 < l
        BY <2>2, SMT DEF Drops
      <3> QED
        BY <1>1, <3>1, Zenon DEF NoHello
    <2> QED
      BY <2>1, <2>2, Zenon
  <1>3. Passes(d, q, k, 0, n, j + 1, m)
    <2> SUFFICES ASSUME NEW s \in n + 1 .. m - 1
                 PROVE  \E l \in DOMAIN d : 0 < l /\ l < j + 1 /\ IsBatch(d[l], q)
                                              /\ d[l].seq = s /\ k \notin DOMAIN d[l].ops
      BY Zenon DEF Passes
    <2>1. CASE s = n + 1
      <3>1. 1 \in DOMAIN d /\ 0 < 1 /\ 1 < j + 1
        BY SMT DEF Drops
      <3> QED
        BY <2>1, <3>1, Zenon
    <2>2. CASE s # n + 1
      <3>1. s \in n + 1 + 1 .. m - 1
        BY <2>2, SMT
      <3>2. PICK l \in DOMAIN d : 0 + 1 < l /\ l < j + 1 /\ IsBatch(d[l], q)
                                    /\ d[l].seq = s /\ k \notin DOMAIN d[l].ops
        BY <1>1, <3>1, Zenon DEF Passes
      <3>3. 0 < l
        BY <3>2, SMT DEF Drops
      <3> QED
        BY <3>2, <3>3, Zenon
    <2> QED
      BY <2>1, <2>2, Zenon
  <1> QED
    BY <1>2, <1>3, Zenon DEF Link

LEMMA AppliedChained ==
  ASSUME NEW q, Frames(q), Chained(q), Drops(down, down', 1), IsBatch(down[1], q),
         UNCHANGED <<rows, match, serving, layout, srvSeq>>,
         lastSeq[q] \in Nat, srvSeq[q] \in Nat, \A i \in DOMAIN down : IsBatch(down[i], q) => down[i].seq \in Nat,
         lastSeq'[q] = down[1].seq,
         \A k \in Key : Decides(down[1], k) => (k \in foot'[q] <=> Keeps(down[1], k)),
         \A k \in Key : ~Decides(down[1], k) =>
           IsLive(q) /\ lastSeq'[q] = lastSeq[q] + 1 /\ (k \in foot'[q] <=> k \in foot[q])
  PROVE  Chained(q)'
  <1>1. /\ \A i \in DOMAIN down' : /\ i \in Nat /\ down'[i] = down[i + 1] /\ i + 1 \in DOMAIN down
                                   /\ 1 < i + 1 /\ 1 <= i + 1 /\ 0 < i
        /\ 1 \in DOMAIN down /\ End' \in Nat /\ End' + 1 = End /\ 0 < End'
        /\ 0 + 1 = 1 /\ 0 \in Nat /\ srvSeq[q] + 1 \in Nat
    BY SMT DEF Drops, Up, End
  <1>2. ASSUME NEW i \in Nat, NEW j \in Nat, NoHello(down', q, i, j)
        PROVE  NoHello(down, q, i + 1, j + 1)
    BY <1>2, TailNoHello
  <1>3. ASSUME NEW k, NEW i \in Nat, NEW n, NEW j \in Nat, NEW m, Passes(down', q, k, i, n, j, m)
        PROVE  Passes(down, q, k, i + 1, n, j + 1, m)
    BY <1>3, TailPasses
  <1>4. ASSUME NEW k \in Key, NEW j \in Nat, NEW m \in Nat, 0 < j, ~Decides(down[1], k),
               Link(down', q, k, 0, lastSeq'[q], j, m)
        PROVE  Link(down, q, k, 0, lastSeq[q], j + 1, m)
    BY <1>4, TailPrepend, Zenon DEF Decides
  <1>5. ASSUME NEW k \in Key, NEW j \in Nat, NEW m \in Nat, Link(down', q, k, 0, lastSeq'[q], j, m)
        PROVE  Link(down, q, k, 1, down[1].seq, j + 1, m)
    <2>1. NoHello(down, q, 0 + 1, j + 1) /\ Passes(down, q, k, 0 + 1, lastSeq'[q], j + 1, m)
      BY <1>1, <1>2, <1>3, <1>5, Zenon DEF Link
    <2> QED
      BY <1>1, <2>1, Zenon DEF Link
  <1>6. ChainClient(q)'
    <2> SUFFICES ASSUME NEW k \in Key, NEW j \in DOMAIN down', IsBatch(down'[j], q), k \in DOMAIN down'[j].ops,
                        lastSeq'[q] < down'[j].seq, Link(down', q, k, 0, lastSeq'[q], j, down'[j].seq)
                 PROVE  k \in foot'[q] <=> down'[j].ops[k].op # "add"
      BY Zenon DEF ChainClient
    <2>1. j \in Nat /\ down'[j] = down[j + 1] /\ j + 1 \in DOMAIN down /\ down'[j].seq \in Nat /\ 0 < j /\ 1 < j + 1
      BY <1>1, Zenon
    <2>2. CASE Decides(down[1], k)
      <3>1. Link(down, q, k, 1, down[1].seq, j + 1, down'[j].seq)
        BY <1>5, <2>1, Zenon
      <3>2. ChainFrames(q) /\ 1 \in DOMAIN down
        BY <1>1, Zenon DEF Frames
      <3>3. Keeps(down[1], k) <=> down'[j].ops[k].op # "add"
        BY <2>1, <2>2, <3>1, <3>2, ChainedFrames, Zenon
      <3> QED
        BY <2>2, <3>3, Zenon
    <2>3. CASE ~Decides(down[1], k)
      <3>1. lastSeq[q] < down'[j].seq
        BY <2>1, <2>3, SMT
      <3> QED
        BY <1>4, <2>1, <2>3, <3>1, Zenon DEF Chained, ChainClient
    <2> QED
      BY <2>2, <2>3, Zenon
  <1>7. ChainEnds(q)'
    <2> SUFFICES ASSUME NEW k \in Key, q \in serving, Link(down', q, k, 0, lastSeq'[q], End', srvSeq[q] + 1)
                 PROVE  k \in foot'[q] <=> k \in match[q]
      BY Zenon DEF ChainEnds
    <2>1. CASE Decides(down[1], k)
      BY <1>1, <1>5, <2>1, Zenon DEF Frames, ChainServer
    <2>2. CASE ~Decides(down[1], k)
      BY <1>1, <1>4, <2>2, Zenon DEF Chained, ChainEnds
    <2> QED
      BY <2>1, <2>2, Zenon
  <1>8. FreshClient(q)'
    <2> SUFFICES ASSUME NEW k \in Key, NEW i \in DOMAIN down', q \in serving, k \in match[q], Writes(down'[i], k),
                        NoHello(down', q, 0, End'), Passes(down', q, k, i, lastSeq'[q], End', srvSeq[q] + 1)
                 PROVE  Current(down'[i], k, rows[k])
      BY Zenon DEF FreshClient
    <2>1. NoHello(down, q, 1, End) /\ Passes(down, q, k, i + 1, down[1].seq, End, srvSeq[q] + 1)
      BY <1>1, <1>2, <1>3, Zenon
    <2> QED
      BY <1>1, <2>1, Zenon DEF Frames, FreshFrames
  <1> QED
    BY <1>6, <1>7, <1>8, Zenon DEF Chained

LEMMA HelloStream ==
  ASSUME NEW q, Frames(q), Drops(down, down', 1), IsHello(down[1], q),
         UNCHANGED <<rows, match, serving, layout, srvSeq>>, srvSeq[q] \in Nat,
         phase'[q] = "snapshot", qcols'[q] = down[1].cols, lastSeq'[q] = 0
  PROVE  Stream(q)'
  <1>1. /\ \A i \in DOMAIN down' : /\ i \in Nat /\ down'[i] = down[i + 1] /\ i + 1 \in DOMAIN down /\ 1 < i + 1
        /\ 1 \in DOMAIN down /\ End' \in Nat /\ End' + 1 = End /\ 0 + 1 = 1 /\ 0 \in Nat
    BY SMT DEF Drops, Up, End
  <1>2. ASSUME NEW j \in Nat, NoHello(down', q, 0, j)
        PROVE  NoHello(down, q, 1, j + 1)
    <2>1. NoHello(down, q, 0 + 1, j + 1)
      BY <1>1, <1>2, TailNoHello, Zenon
    <2> QED
      BY <1>1, <2>1, Zenon
  <1>3. ClientCols(q)'
    BY <1>1, <1>2, Zenon DEF ClientCols, Frames, FrameCols
  <1>4. LayoutCols(q)'
    BY <1>1, <1>2, Zenon DEF LayoutCols, Frames, ServedCols
  <1>5. Behind(q)'
    BY SMT DEF Behind
  <1>6. Frames(q)'
    BY DropFrames, Zenon
  <1> QED
    BY <1>3, <1>4, <1>5, <1>6, Zenon
    DEF Stream, Listening, Chained, ChainClient, ChainEnds, FreshClient, FreshCells, IsLive

-----------------------------------------------------------------------------
(* Frames join at the end: what the old ones said of each other stands. *)
LEMMA OldPlaces ==
  ASSUME Extends(down, down')
  PROVE  /\ \A i \in DOMAIN down : /\ i \in Nat /\ i \in DOMAIN down' /\ down'[i] = down[i]
                                   /\ i < End /\ i <= Len(down) + 1 /\ i <= i /\ i < End'
         /\ \A i \in DOMAIN down' : i \in Nat /\ (i \in DOMAIN down <=> i < End) /\ i < End'
         /\ End \in Nat /\ End' \in Nat /\ End <= End' /\ End <= Len(down) + 1 /\ 0 \in Nat
         /\ \A i \in DOMAIN down', j \in DOMAIN down : i < j \/ i <= j => i \in DOMAIN down
  BY SMT DEF Extends, End

LEMMA OldLinks ==
  ASSUME NEW q, Extends(down, down')
  PROVE  /\ \A i : \A j \in DOMAIN down : NoHello(down', q, i, j) => NoHello(down, q, i, j)
         /\ \A i : \A j \in DOMAIN down' \cup {End'} :
              j \notin DOMAIN down /\ NoHello(down', q, i, j) => NoHello(down, q, i, End)
         /\ \A k : \A i, n, m \in Nat : \A j \in DOMAIN down :
              Passes(down', q, k, i, n, j, m) => Passes(down, q, k, i, n, j, m)
         /\ \A k : \A i, n, m, u \in Nat : \A j \in DOMAIN down' \cup {End'} :
              /\ j \notin DOMAIN down /\ u <= m
              /\ \A l \in DOMAIN down' : l < j /\ IsBatch(down'[l], q) => l \in DOMAIN down \/ u <= down'[l].seq
              /\ Passes(down', q, k, i, n, j, m)
              => Passes(down, q, k, i, n, End, u)
  <1>1. /\ \A i \in DOMAIN down : i \in Nat /\ i <= Len(down) + 1 /\ i <= i /\ i < End
        /\ \A j \in DOMAIN down' \cup {End'} : j \in Nat /\ (j \notin DOMAIN down => End <= j)
        /\ End \in Nat /\ End <= Len(down) + 1 /\ \A m \in Nat : m <= m
    BY SMT DEF Extends, End
  <1>2. ASSUME NEW i, NEW j \in DOMAIN down, NoHello(down', q, i, j) PROVE NoHello(down, q, i, j)
    BY <1>1, <1>2, ExtendNoHello, Zenon
  <1>3. ASSUME NEW i, NEW j \in DOMAIN down' \cup {End'}, j \notin DOMAIN down, NoHello(down', q, i, j)
        PROVE  NoHello(down, q, i, End)
    BY <1>1, <1>3, ExtendNoHello, Zenon
  <1>4. ASSUME NEW k, NEW i \in Nat, NEW n \in Nat, NEW m \in Nat, NEW j \in DOMAIN down,
               Passes(down', q, k, i, n, j, m)
        PROVE  Passes(down, q, k, i, n, j, m)
    BY <1>1, <1>4, ExtendPasses, Zenon
  <1>5. ASSUME NEW k, NEW i \in Nat, NEW n \in Nat, NEW m \in Nat, NEW u \in Nat,
               NEW j \in DOMAIN down' \cup {End'}, j \notin DOMAIN down, u <= m,
               \A l \in DOMAIN down' : l < j /\ IsBatch(down'[l], q) => l \in DOMAIN down \/ u <= down'[l].seq,
               Passes(down', q, k, i, n, j, m)
        PROVE  Passes(down, q, k, i, n, End, u)
    <2>1. \A l \in DOMAIN down' : l < j /\ IsBatch(down'[l], q) => l < End \/ u <= down'[l].seq
      BY <1>1, <1>5, Zenon
    <2> QED
      BY <1>1, <1>5, <2>1, ExtendPasses, Zenon
  <1>6. \A i : \A j \in DOMAIN down : NoHello(down', q, i, j) => NoHello(down, q, i, j)
    BY <1>2, Zenon
  <1>7. \A i : \A j \in DOMAIN down' \cup {End'} :
          j \notin DOMAIN down /\ NoHello(down', q, i, j) => NoHello(down, q, i, End)
    BY <1>3, Zenon
  <1>8. \A k : \A i, n, m \in Nat : \A j \in DOMAIN down :
          Passes(down', q, k, i, n, j, m) => Passes(down, q, k, i, n, j, m)
    BY <1>4, Zenon
  <1>9. \A k : \A i, n, m, u \in Nat : \A j \in DOMAIN down' \cup {End'} :
          /\ j \notin DOMAIN down /\ u <= m
          /\ \A l \in DOMAIN down' : l < j /\ IsBatch(down'[l], q) => l \in DOMAIN down \/ u <= down'[l].seq
          /\ Passes(down', q, k, i, n, j, m)
          => Passes(down, q, k, i, n, End, u)
    BY <1>5, Zenon
  <1> QED
    BY <1>6, <1>7, <1>8, <1>9, Zenon

SeqNats(q) ==
  /\ lastSeq[q] \in Nat /\ srvSeq[q] \in Nat
  /\ \A i \in DOMAIN down : IsBatch(down[i], q) => down[i].seq \in Nat

(* The client's side of q stands, or its subscriber closes. *)
ClientStands(q) ==
  /\ Listens(q)' => Listens(q) /\ qcols'[q] = qcols[q] /\ lastSeq'[q] = lastSeq[q]
  /\ IsLive(q)' => /\ IsLive(q) /\ foot'[q] = foot[q]
                   /\ \A k \in Key \cap foot[q] : \A c \in qcols[q] : cell'[k][c] = cell[k][c]

(* The server goes on serving q as it is, or gives it up. *)
ServerStands(q) ==
  q \in serving' =>
    /\ q \in serving /\ match'[q] = match[q] /\ layout'[q] = layout[q] /\ srvSeq'[q] = srvSeq[q]
    /\ \A k \in match[q] : rows'[k] = rows[k]
    /\ \A l \in DOMAIN down', k \in match[q] :
         l \notin DOMAIN down /\ Writes(down'[l], k) => Current(down'[l], k, rows'[k])

(* No frame of q joins. *)
Quiet(q) == \A l \in DOMAIN down' : l \in DOMAIN down \/ (~IsHello(down'[l], q) /\ ~IsBatch(down'[l], q))

LEMMA QuietLinks ==
  ASSUME NEW q, Extends(down, down'), Quiet(q)
  PROVE  /\ \A i : NoHello(down', q, i, End') => NoHello(down, q, i, End)
         /\ \A k : \A i, n, m \in Nat :
              Passes(down', q, k, i, n, End', m) => Passes(down, q, k, i, n, End, m)
  <1>1. End' \notin DOMAIN down /\ \A m \in Nat : m <= m
    BY SMT DEF Extends, End
  <1>2. \A l \in DOMAIN down' : l < End' /\ IsBatch(down'[l], q) => l \in DOMAIN down
    BY Zenon DEF Quiet
  <1> QED
    BY <1>1, <1>2, OldLinks, Zenon

LEMMA QuietFrames ==
  ASSUME NEW q, Frames(q), SeqNats(q), Extends(down, down'), Quiet(q), ServerStands(q)
  PROVE  Frames(q)'
  <1>1. /\ \A i \in DOMAIN down : i \in Nat /\ i \in DOMAIN down' /\ down'[i] = down[i]
        /\ \A i \in DOMAIN down', j \in DOMAIN down : i < j \/ i <= j => i \in DOMAIN down
        /\ \A i \in DOMAIN down' : i \in Nat
        /\ srvSeq[q] + 1 \in Nat
    BY OldPlaces, SMT DEF SeqNats
  <1>2. \A i : \A j \in DOMAIN down : NoHello(down', q, i, j) => NoHello(down, q, i, j)
    BY OldLinks, Zenon
  <1>3. \A k : \A i, n, m \in Nat : \A j \in DOMAIN down :
          Passes(down', q, k, i, n, j, m) => Passes(down, q, k, i, n, j, m)
    BY OldLinks, Zenon
  <1>4. \A i : NoHello(down', q, i, End') => NoHello(down, q, i, End)
    BY QuietLinks, Zenon
  <1>5. \A k : \A i, n, m \in Nat : Passes(down', q, k, i, n, End', m) => Passes(down, q, k, i, n, End, m)
    BY QuietLinks, Zenon
  <1>6. \A l \in DOMAIN down' : IsHello(down'[l], q) \/ IsBatch(down'[l], q) => l \in DOMAIN down
    BY Zenon DEF Quiet
  <1>7. FrameCols(q)' /\ Rising(q)'
    BY <1>1, <1>2, <1>6, Zenon DEF Frames, FrameCols, Rising
  <1>8. ServedCols(q)' /\ Capped(q)'
    BY <1>1, <1>4, <1>6, Zenon DEF Frames, ServedCols, Capped, ServerStands
  <1>9. Snapshots(q)'
    <2> SUFFICES ASSUME NEW i \in DOMAIN down', IsBatch(down'[i], q), down'[i].seq = 0
                 PROVE  \A k \in DOMAIN down'[i].ops : down'[i].ops[k].op = "add"
      BY Zenon DEF Snapshots
    <2>1. i \in DOMAIN down /\ down'[i] = down[i]
      BY <1>1, <1>6, Zenon
    <2> QED
      BY <2>1, Zenon DEF Frames, Snapshots
  <1>10. ChainFrames(q)'
    <2> SUFFICES ASSUME NEW k \in Key, NEW i \in DOMAIN down', NEW j \in DOMAIN down',
                        i < j, IsBatch(down'[i], q), IsBatch(down'[j], q),
                        Decides(down'[i], k), k \in DOMAIN down'[j].ops,
                        Link(down', q, k, i, down'[i].seq, j, down'[j].seq)
                 PROVE  Keeps(down'[i], k) <=> down'[j].ops[k].op # "add"
      BY Zenon DEF ChainFrames
    <2>1. i \in DOMAIN down /\ j \in DOMAIN down /\ down'[i] = down[i] /\ down'[j] = down[j]
      BY <1>1, <1>6, Zenon
    <2>2. Link(down, q, k, i, down[i].seq, j, down[j].seq)
      BY <1>1, <1>2, <1>3, <2>1, Zenon DEF Link, SeqNats
    <2> QED
      BY <2>1, <2>2, Zenon DEF Frames, ChainFrames
  <1>11. ChainServer(q)'
    <2> SUFFICES ASSUME NEW k \in Key, NEW i \in DOMAIN down', q \in serving', IsBatch(down'[i], q),
                        Decides(down'[i], k), Link(down', q, k, i, down'[i].seq, End', srvSeq'[q] + 1)
                 PROVE  Keeps(down'[i], k) <=> k \in match'[q]
      BY Zenon DEF ChainServer
    <2>1. i \in DOMAIN down /\ down'[i] = down[i] /\ i \in Nat
      BY <1>1, <1>6, Zenon
    <2>2. Link(down, q, k, i, down[i].seq, End, srvSeq[q] + 1)
      BY <1>1, <1>4, <1>5, <2>1, Zenon DEF Link, SeqNats, ServerStands
    <2> QED
      BY <2>1, <2>2, Zenon DEF Frames, ChainServer, ServerStands
  <1>12. FreshFrames(q)'
    <2> SUFFICES ASSUME NEW k \in Key, NEW p \in DOMAIN down', NEW i \in DOMAIN down',
                        q \in serving', k \in match'[q], Writes(down'[i], k),
                        p <= i, IsBatch(down'[p], q), NoHello(down', q, p, End'),
                        Passes(down', q, k, i, down'[p].seq, End', srvSeq'[q] + 1)
                 PROVE  Current(down'[i], k, rows'[k])
      BY Zenon DEF FreshFrames
    <2>1. CASE i \notin DOMAIN down
      BY <2>1, Zenon DEF ServerStands
    <2>2. CASE i \in DOMAIN down
      <3>1. p \in DOMAIN down /\ down'[p] = down[p] /\ down'[i] = down[i] /\ i \in Nat
        BY <1>1, <1>6, <2>2, Zenon
      <3>2. NoHello(down, q, p, End) /\ Passes(down, q, k, i, down[p].seq, End, srvSeq[q] + 1)
        BY <1>1, <1>4, <1>5, <3>1, Zenon DEF SeqNats, ServerStands
      <3> QED
        BY <2>2, <3>1, <3>2, Zenon DEF Frames, FreshFrames, ServerStands
    <2> QED
      BY <2>1, <2>2, Zenon
  <1> QED
    BY <1>7, <1>8, <1>9, <1>10, <1>11, <1>12, Zenon DEF Frames

LEMMA QuietStream ==
  ASSUME NEW q, Stream(q), SeqNats(q), Extends(down, down'), Quiet(q), ServerStands(q), ClientStands(q)
  PROVE  Stream(q)'
  <1>1. /\ \A i \in DOMAIN down : i \in Nat /\ i \in DOMAIN down' /\ down'[i] = down[i]
        /\ \A i \in DOMAIN down' : i \in Nat
        /\ 0 \in Nat /\ srvSeq[q] + 1 \in Nat
    BY OldPlaces, SMT DEF SeqNats
  <1>2. \A i : \A j \in DOMAIN down : NoHello(down', q, i, j) => NoHello(down, q, i, j)
    BY OldLinks, Zenon
  <1>3. \A k : \A i, n, m \in Nat : \A j \in DOMAIN down :
          Passes(down', q, k, i, n, j, m) => Passes(down, q, k, i, n, j, m)
    BY OldLinks, Zenon
  <1>4. \A i : NoHello(down', q, i, End') => NoHello(down, q, i, End)
    BY QuietLinks, Zenon
  <1>5. \A k : \A i, n, m \in Nat : Passes(down', q, k, i, n, End', m) => Passes(down, q, k, i, n, End, m)
    BY QuietLinks, Zenon
  <1>6. \A l \in DOMAIN down' : IsBatch(down'[l], q) => l \in DOMAIN down /\ down'[l] = down[l]
    BY <1>1, Zenon DEF Quiet
  <1>7. ClientCols(q)'
    <2> SUFFICES ASSUME NEW j \in DOMAIN down', Listens(q)', IsBatch(down'[j], q), NoHello(down', q, 0, j)
                 PROVE  RowsOver(down'[j], qcols'[q])
      BY Zenon DEF ClientCols
    <2>1. RowsOver(down[j], qcols[q])
      BY <1>2, <1>6, Zenon DEF Stream, Listening, ClientCols, ClientStands
    <2> QED
      BY <1>6, <2>1, Zenon DEF ClientStands
  <1>8. LayoutCols(q)' /\ Behind(q)'
    BY <1>4, Zenon DEF Stream, Listening, LayoutCols, Behind, ClientStands, ServerStands
  <1>9. ChainClient(q)'
    <2> SUFFICES ASSUME NEW k \in Key, NEW j \in DOMAIN down', IsLive(q)', IsBatch(down'[j], q),
                        k \in DOMAIN down'[j].ops, lastSeq'[q] < down'[j].seq,
                        Link(down', q, k, 0, lastSeq'[q], j, down'[j].seq)
                 PROVE  k \in foot'[q] <=> down'[j].ops[k].op # "add"
      BY Zenon DEF ChainClient
    <2>1. IsLive(q) /\ foot'[q] = foot[q] /\ lastSeq'[q] = lastSeq[q]
      BY Zenon DEF ClientStands, Listens, IsLive
    <2>2. j \in DOMAIN down /\ down'[j] = down[j]
      BY <1>6, Zenon
    <2>3. Link(down, q, k, 0, lastSeq[q], j, down[j].seq)
      BY <1>1, <1>2, <1>3, <2>1, <2>2, Zenon DEF Link, SeqNats
    <2> QED
      BY <2>1, <2>2, <2>3, Zenon DEF Stream, Chained, ChainClient
  <1>10. ASSUME NEW k \in Key, q \in serving', IsLive(q)', Link(down', q, k, 0, lastSeq'[q], End', srvSeq'[q] + 1)
         PROVE  /\ Link(down, q, k, 0, lastSeq[q], End, srvSeq[q] + 1)
                /\ q \in serving /\ IsLive(q) /\ Listens(q)
    <2>1. lastSeq'[q] = lastSeq[q] /\ srvSeq'[q] = srvSeq[q] /\ q \in serving /\ IsLive(q) /\ Listens(q)
      BY <1>10, Zenon DEF ClientStands, ServerStands, Listens, IsLive
    <2> QED
      BY <1>1, <1>4, <1>5, <1>10, <2>1, Zenon DEF Link, SeqNats
  <1>11. ChainEnds(q)'
    BY <1>10, Zenon DEF ChainEnds, Stream, Chained, ClientStands, ServerStands
  <1>12. FreshClient(q)'
    <2> SUFFICES ASSUME NEW k \in Key, NEW i \in DOMAIN down', q \in serving', k \in match'[q], Writes(down'[i], k),
                        IsLive(q)', NoHello(down', q, 0, End'),
                        Passes(down', q, k, i, lastSeq'[q], End', srvSeq'[q] + 1)
                 PROVE  Current(down'[i], k, rows'[k])
      BY Zenon DEF FreshClient
    <2>1. CASE i \notin DOMAIN down
      BY <2>1, Zenon DEF ServerStands
    <2>2. CASE i \in DOMAIN down
      <3>1. lastSeq'[q] = lastSeq[q] /\ srvSeq'[q] = srvSeq[q] /\ IsLive(q)
        BY Zenon DEF ClientStands, ServerStands, Listens, IsLive
      <3>2. NoHello(down, q, 0, End) /\ Passes(down, q, k, i, lastSeq[q], End, srvSeq[q] + 1)
        BY <1>1, <1>4, <1>5, <2>2, <3>1, Zenon DEF SeqNats
      <3> QED
        BY <1>1, <2>2, <3>1, <3>2, Zenon DEF Stream, Chained, FreshClient, ServerStands
    <2> QED
      BY <2>1, <2>2, Zenon
  <1>13. FreshCells(q)'
    <2> SUFFICES ASSUME NEW k \in Key, q \in serving', k \in match'[q], IsLive(q)',
                        Link(down', q, k, 0, lastSeq'[q], End', srvSeq'[q] + 1),
                        NEW c \in layout'[q]
                 PROVE  cell'[k][c] = rows'[k][c]
      BY Zenon DEF FreshCells
    <2>1. Link(down, q, k, 0, lastSeq[q], End, srvSeq[q] + 1) /\ q \in serving /\ IsLive(q) /\ Listens(q)
      BY <1>10, Zenon
    <2>2. match'[q] = match[q] /\ layout'[q] = layout[q] /\ rows'[k] = rows[k]
      BY Zenon DEF ServerStands
    <2>3. cell[k][c] = rows[k][c]
      BY <2>1, <2>2, Zenon DEF Stream, FreshCells
    <2>4. k \in foot[q] /\ c \in qcols[q]
      BY <2>1, <2>2, Zenon DEF Stream, Chained, ChainEnds, Listening, LayoutCols, Link
    <2> QED
      BY <2>2, <2>3, <2>4, Zenon DEF ClientStands
  <1>14. Frames(q)'
    BY QuietFrames, Zenon DEF Stream
  <1> QED
    BY <1>7, <1>8, <1>9, <1>11, <1>12, <1>13, <1>14, Zenon DEF Stream, Listening, Chained

(* A hello and a snapshot begin a session: nothing before them is q's any more. *)
LEMMA AnsweredStream ==
  ASSUME NEW q, NEW C, NEW K, Stream(q), SeqNats(q), Extends(down, down'),
         Len(down') = Len(down) + 2,
         down'[Len(down) + 1].t = "hello", down'[Len(down) + 1].q = q, down'[Len(down) + 1].cols = C,
         IsBatch(down'[Len(down) + 2], q), down'[Len(down) + 2].seq = 0,
         down'[Len(down) + 2].ops = [k \in K |-> [op |-> "add", row |-> [c \in C |-> rows[k][c]]]],
         rows' = rows, match'[q] = K, layout'[q] = C, srvSeq'[q] = 0,
         UNCHANGED <<phase, lastSeq, foot, qcols, cell>>
  PROVE  Stream(q)'
  <1> DEFINE h == Len(down) + 1
             b == Len(down) + 2
  <1>1. /\ \A i \in DOMAIN down : /\ i \in Nat /\ i \in DOMAIN down' /\ down'[i] = down[i]
                                  /\ i < h /\ ~(h < i) /\ ~(b < i)
        /\ DOMAIN down' = DOMAIN down \cup {h, b}
        /\ h \in Nat /\ b \in Nat /\ h < b /\ ~(h < h) /\ ~(b < b) /\ ~(b < h)
        /\ h < End' /\ 0 < h /\ 0 \in Nat /\ h \notin DOMAIN down /\ b \notin DOMAIN down /\ h # b
        /\ ~(b <= h)
    BY SMT DEF Extends, End
  <1>2. IsHello(down'[h], q) /\ ~IsBatch(down'[h], q) /\ ~IsHello(down'[b], q)
    BY Zenon DEF IsHello, IsBatch
  <1>3. \A i, j : i < h /\ h < j => ~NoHello(down', q, i, j)
    BY <1>1, <1>2, Zenon DEF NoHello
  <1> HIDE DEF h, b
  <1>4. \A i : \A j \in DOMAIN down : NoHello(down', q, i, j) => NoHello(down, q, i, j)
    BY OldLinks, Zenon
  <1>5. \A k : \A i, n, m \in Nat : \A j \in DOMAIN down :
          Passes(down', q, k, i, n, j, m) => Passes(down, q, k, i, n, j, m)
    BY OldLinks, Zenon
  <1>6. /\ DOMAIN down'[b].ops = K
        /\ \A k \in K : /\ down'[b].ops[k].op = "add"
                        /\ DOMAIN down'[b].ops[k].row = C
                        /\ \A c \in C : down'[b].ops[k].row[c] = rows[k][c]
    BY SMT DEF b
  <1>7. down'[h].cols = C /\ IsBatch(down'[b], q) /\ down'[b].seq = 0
    BY Zenon DEF h, b
  <1>8. FrameCols(q)'
    <2> SUFFICES ASSUME NEW i \in DOMAIN down', NEW j \in DOMAIN down', i < j, IsHello(down'[i], q),
                        IsBatch(down'[j], q), NoHello(down', q, i, j)
                 PROVE  RowsOver(down'[j], down'[i].cols)
      BY Zenon DEF FrameCols
    <2>1. CASE j \in DOMAIN down
      <3>1. i \in DOMAIN down
        BY <2>1, OldPlaces, Zenon
      <3> QED
        BY <1>1, <1>4, <2>1, <3>1, Zenon DEF Stream, Frames, FrameCols
    <2>2. CASE j = b
      <3>1. i = h
        BY <1>1, <1>2, <1>3, <2>2, Zenon
      <3> QED
        BY <1>6, <1>7, <2>2, <3>1, Zenon DEF RowsOver
    <2> QED
      BY <1>1, <1>2, <2>1, <2>2, Zenon
  <1>9. ServedCols(q)'
    BY <1>1, <1>2, <1>3, <1>7, Zenon DEF ServedCols
  <1>10. Rising(q)'
    <2> SUFFICES ASSUME NEW i \in DOMAIN down', NEW j \in DOMAIN down', i < j, IsBatch(down'[i], q),
                        IsBatch(down'[j], q), NoHello(down', q, i, j)
                 PROVE  down'[i].seq < down'[j].seq
      BY Zenon DEF Rising
    <2>1. i \in DOMAIN down /\ j \in DOMAIN down /\ down'[i] = down[i] /\ down'[j] = down[j]
      BY <1>1, <1>2, <1>3, Zenon
    <2>2. NoHello(down, q, i, j) /\ Rising(q)
      BY <1>4, <2>1, Zenon DEF Stream, Frames
    <2> QED
      BY <2>1, <2>2, Zenon DEF Rising
  <1>11. Capped(q)'
    <2> SUFFICES ASSUME NEW i \in DOMAIN down', IsBatch(down'[i], q), NoHello(down', q, i, End')
                 PROVE  down'[i].seq <= srvSeq'[q]
      BY Zenon DEF Capped
    <2>1. i = b
      BY <1>1, <1>2, <1>3, Zenon
    <2> QED
      BY <1>7, <2>1, SMT
  <1>12. Snapshots(q)'
    <2> SUFFICES ASSUME NEW i \in DOMAIN down', IsBatch(down'[i], q), down'[i].seq = 0
                 PROVE  \A k \in DOMAIN down'[i].ops : down'[i].ops[k].op = "add"
      BY Zenon DEF Snapshots
    <2>1. CASE i \in DOMAIN down
      <3>1. down'[i] = down[i]
        BY <1>1, <2>1, Zenon
      <3>2. Snapshots(q)
        BY Zenon DEF Stream, Frames
      <3>3. \A k \in DOMAIN down[i].ops : down[i].ops[k].op = "add"
        BY <2>1, <3>1, <3>2, Zenon DEF Snapshots
      <3> QED
        BY <3>1, <3>3, Zenon
    <2>2. CASE i = b
      <3>1. \A k \in DOMAIN down'[b].ops : down'[b].ops[k].op = "add"
        BY <1>6, Zenon
      <3> QED
        BY <2>2, <3>1, Zenon
    <2> QED
      BY <1>1, <1>2, <2>1, <2>2, Zenon
  <1>13. ChainFrames(q)'
    <2> SUFFICES ASSUME NEW k \in Key, NEW i \in DOMAIN down', NEW j \in DOMAIN down',
                        i < j, IsBatch(down'[i], q), IsBatch(down'[j], q),
                        Decides(down'[i], k), k \in DOMAIN down'[j].ops,
                        Link(down', q, k, i, down'[i].seq, j, down'[j].seq)
                 PROVE  Keeps(down'[i], k) <=> down'[j].ops[k].op # "add"
      BY Zenon DEF ChainFrames
    <2>1. i \in DOMAIN down /\ j \in DOMAIN down /\ down'[i] = down[i] /\ down'[j] = down[j]
      BY <1>1, <1>2, <1>3, Zenon DEF Link
    <2>2. down'[i].seq \in Nat /\ down'[j].seq \in Nat /\ i \in Nat
      BY <1>1, <2>1, Zenon DEF SeqNats
    <2>3. Link(down, q, k, i, down'[i].seq, j, down'[j].seq)
      BY <1>4, <1>5, <2>1, <2>2, Zenon DEF Link
    <2>4. ChainFrames(q)
      BY Zenon DEF Stream, Frames
    <2> QED
      BY <2>1, <2>3, <2>4, ChainedFrames
  <1>14. ChainServer(q)'
    <2> SUFFICES ASSUME NEW k \in Key, NEW i \in DOMAIN down', IsBatch(down'[i], q),
                        Decides(down'[i], k), Link(down', q, k, i, down'[i].seq, End', srvSeq'[q] + 1)
                 PROVE  Keeps(down'[i], k) <=> k \in match'[q]
      BY Zenon DEF ChainServer
    <2>1. i = b
      BY <1>1, <1>2, <1>3, Zenon DEF Link
    <2>2. \A x \in K : down'[b].ops[x].op # "remove"
      BY <1>6, Zenon
    <2> QED
      BY <1>6, <2>1, <2>2, Zenon DEF Keeps
  <1>15. FreshFrames(q)'
    <2> SUFFICES ASSUME NEW k \in Key, NEW p \in DOMAIN down', NEW i \in DOMAIN down',
                        Writes(down'[i], k), p <= i, IsBatch(down'[p], q), NoHello(down', q, p, End')
                 PROVE  Current(down'[i], k, rows'[k])
      BY Zenon DEF FreshFrames
    <2>1. p = b
      BY <1>1, <1>2, <1>3, Zenon
    <2>2. i = b
      BY <1>1, <2>1, SMT DEF h, b
    <2>3. k \in K
      BY <1>6, <2>2, Zenon DEF Writes
    <2>4. Current(down'[b], k, rows[k])
      BY <1>6, <2>3, Zenon DEF Current
    <2> QED
      BY <2>2, <2>4, Zenon
  <1>16. Frames(q)'
    BY <1>8, <1>9, <1>10, <1>11, <1>12, <1>13, <1>14, <1>15, Zenon DEF Frames
  <1>17. ~NoHello(down', q, 0, End')
    BY <1>1, <1>3, Zenon
  <1>18. ClientCols(q)'
    <2> SUFFICES ASSUME NEW j \in DOMAIN down', Listens(q), IsBatch(down'[j], q), NoHello(down', q, 0, j)
                 PROVE  RowsOver(down'[j], qcols[q])
      BY Zenon DEF ClientCols, Listens
    <2>1. j \in DOMAIN down /\ down'[j] = down[j]
      BY <1>1, <1>2, <1>3, Zenon
    <2> QED
      BY <1>4, <2>1, Zenon DEF Stream, Listening, ClientCols
  <1>19. ChainClient(q)'
    <2> SUFFICES ASSUME NEW k \in Key, NEW j \in DOMAIN down', IsLive(q), IsBatch(down'[j], q),
                        k \in DOMAIN down'[j].ops, lastSeq[q] < down'[j].seq,
                        Link(down', q, k, 0, lastSeq[q], j, down'[j].seq)
                 PROVE  k \in foot[q] <=> down'[j].ops[k].op # "add"
      BY Zenon DEF ChainClient, IsLive
    <2>1. j \in DOMAIN down /\ down'[j] = down[j]
      BY <1>1, <1>2, <1>3, Zenon DEF Link
    <2>2. Link(down, q, k, 0, lastSeq[q], j, down[j].seq)
      BY <1>1, <1>4, <1>5, <2>1, Zenon DEF Link, SeqNats
    <2>3. ChainClient(q)
      BY Zenon DEF Stream, Chained
    <2>4. k \in foot[q] <=> down[j].ops[k].op # "add"
      BY <2>1, <2>2, <2>3, Zenon DEF ChainClient
    <2> QED
      BY <2>1, <2>4, Zenon
  <1> QED
    BY <1>16, <1>17, <1>18, <1>19, Zenon
    DEF Stream, Listening, LayoutCols, Behind, Chained, ChainEnds, FreshClient, FreshCells, Link

(* A transaction touches k of q: q's batch, at z, is the one new neighbour. *)
Touches(q, k0, z, n0) ==
  /\ z \in DOMAIN down' /\ z \notin DOMAIN down
  /\ IsBatch(down'[z], q) /\ down'[z].seq = n0 + 1
  /\ DOMAIN down'[z].ops = {k0} /\ DOMAIN down'[z].ops[k0].row = layout[q]
  /\ down'[z].ops[k0].op # "add" <=> k0 \in match[q]
  /\ down'[z].ops[k0].op # "remove" <=> k0 \in match'[q]
  /\ \A l \in DOMAIN down' : l \notin DOMAIN down => ~IsHello(down'[l], q) /\ (IsBatch(down'[l], q) => l = z)
  /\ \A l \in DOMAIN down' : \A k \in Key :
       l \notin DOMAIN down /\ Writes(down'[l], k) => k = k0 /\ Current(down'[l], k0, rows'[k0])
  /\ \A k \in Key : k # k0 => rows'[k] = rows[k] /\ (k \in match'[q] <=> k \in match[q])
  /\ srvSeq[q] = n0 /\ srvSeq'[q] = n0 + 1

LEMMA CommittedStream ==
  ASSUME NEW q, NEW k0, NEW z, NEW n0 \in Nat, Stream(q), SeqNats(q), Extends(down, down'),
         Touches(q, k0, z, n0), q \in serving, layout'[q] = layout[q],
         UNCHANGED <<phase, lastSeq, foot, qcols, cell>>
  PROVE  Stream(q)'
  <1>a. /\ z \in DOMAIN down' /\ z \notin DOMAIN down
        /\ IsBatch(down'[z], q) /\ down'[z].seq = n0 + 1
        /\ srvSeq[q] = n0 /\ srvSeq'[q] = n0 + 1
    BY Zenon DEF Touches
  <1>b. DOMAIN down'[z].ops = {k0} /\ DOMAIN down'[z].ops[k0].row = layout[q]
    BY Zenon DEF Touches
  <1>c. /\ down'[z].ops[k0].op # "add" <=> k0 \in match[q]
        /\ down'[z].ops[k0].op # "remove" <=> k0 \in match'[q]
    BY Zenon DEF Touches
  <1>9. \A l \in DOMAIN down' : IsHello(down'[l], q) => l \in DOMAIN down
    BY Zenon DEF Touches
  <1>10. \A l \in DOMAIN down' : IsBatch(down'[l], q) => l \in DOMAIN down \/ l = z
    BY Zenon DEF Touches
  <1>1. /\ \A i \in DOMAIN down : i \in Nat /\ i \in DOMAIN down' /\ down'[i] = down[i]
        /\ \A i \in DOMAIN down' : /\ i \in Nat /\ ~(i < i) /\ i < End' /\ i <= i
                                   /\ i \notin DOMAIN down => \A j \in DOMAIN down : ~(i < j) /\ ~(i <= j)
        /\ End' \notin DOMAIN down /\ 0 \in Nat
        /\ n0 \in Nat /\ n0 + 1 \in Nat /\ n0 + 1 + 1 \in Nat /\ n0 + 1 <= n0 + 1 /\ n0 + 1 <= n0 + 1 + 1
        /\ n0 + 1 # 0 /\ ~(n0 + 1 <= n0)
        /\ \A n \in Nat : (n <= n0 => n < n0 + 1 /\ n <= n0 + 1 /\ n0 + 1 \in n + 1 .. (n0 + 1 + 1) - 1)
    BY <1>a, SMT DEF SeqNats, Extends, End
  <1>2. \A i : \A j \in DOMAIN down : NoHello(down', q, i, j) => NoHello(down, q, i, j)
    BY OldLinks, Zenon
  <1>3. \A k : \A i, n, m \in Nat : \A j \in DOMAIN down :
          Passes(down', q, k, i, n, j, m) => Passes(down, q, k, i, n, j, m)
    BY OldLinks, Zenon
  <1>4. \A i : \A j \in DOMAIN down' \cup {End'} :
          j \notin DOMAIN down /\ NoHello(down', q, i, j) => NoHello(down, q, i, End)
    BY OldLinks, Zenon
  <1>5. \A k : \A i, n \in Nat : Passes(down', q, k, i, n, z, n0 + 1) => Passes(down, q, k, i, n, End, n0 + 1)
    <2>1. \A l \in DOMAIN down' : l < z /\ IsBatch(down'[l], q) => l \in DOMAIN down
      BY <1>a, <1>1, <1>10, Zenon
    <2> QED
      BY <1>a, <1>1, <2>1, OldLinks, Zenon
  <1>6. \A k : \A i, n \in Nat : Passes(down', q, k, i, n, End', n0 + 1 + 1) => Passes(down, q, k, i, n, End, n0 + 1)
    <2>1. \A l \in DOMAIN down' : l < End' /\ IsBatch(down'[l], q) => l \in DOMAIN down \/ n0 + 1 <= down'[l].seq
      BY <1>a, <1>1, <1>10, Zenon
    <2>2. \A k : \A i, n, m, u \in Nat : \A j \in DOMAIN down' \cup {End'} :
            /\ j \notin DOMAIN down /\ u <= m
            /\ \A l \in DOMAIN down' : l < j /\ IsBatch(down'[l], q) => l \in DOMAIN down \/ u <= down'[l].seq
            /\ Passes(down', q, k, i, n, j, m)
            => Passes(down, q, k, i, n, End, u)
      BY OldLinks, Zenon
    <2>3. End' \notin DOMAIN down /\ n0 + 1 <= n0 + 1 + 1 /\ n0 + 1 \in Nat /\ n0 + 1 + 1 \in Nat
      BY <1>1, Zenon
    <2> QED
      BY <2>1, <2>2, <2>3, Zenon
  <1>7. ASSUME NEW p \in Nat, NEW i \in Nat, NEW n \in Nat, p <= i, n <= n0, NoHello(down, q, p, End)
        PROVE  ~Passes(down', q, k0, i, n, End', n0 + 1 + 1)
    <2> SUFFICES ASSUME Passes(down', q, k0, i, n, End', n0 + 1 + 1) PROVE FALSE
      BY <1>a, Zenon
    <2>1. PICK l \in DOMAIN down' : i < l /\ l < End' /\ IsBatch(down'[l], q) /\ down'[l].seq = n0 + 1 /\ k0 \notin DOMAIN down'[l].ops
      <3>1. n0 + 1 \in n + 1 .. (n0 + 1 + 1) - 1
        BY <1>a, <1>1, <1>7, Zenon
      <3>2. \A s \in n + 1 .. (n0 + 1 + 1) - 1 : \E l \in DOMAIN down' :
              i < l /\ l < End' /\ IsBatch(down'[l], q) /\ down'[l].seq = s /\ k0 \notin DOMAIN down'[l].ops
        BY <1>a, Zenon DEF Passes
      <3> QED
        BY <1>a, <3>1, <3>2, Zenon
    <2>2. l \in DOMAIN down /\ down'[l] = down[l]
      BY <1>a, <1>b, <1>1, <1>10, <2>1, Zenon
    <2>3. \A x \in DOMAIN down : l < x => p < x
      BY <1>a, <1>7, <2>1, SMT DEF Extends
    <2>4. NoHello(down, q, l, End)
      BY <1>a, <1>7, <2>3, Zenon DEF NoHello
    <2>5. down[l].seq <= n0
      BY <1>a, <2>1, <2>2, <2>4, Zenon DEF Stream, Frames, Capped
    <2> QED
      BY <1>a, <1>1, <2>1, <2>2, <2>5, Zenon
  <1>8. \A i : \A j \in DOMAIN down' \cup {End'} : NoHello(down', q, i, j) /\ j \notin DOMAIN down =>
          /\ \A x \in DOMAIN down : IsHello(down[x], q) /\ x = i => down[x].cols = layout[q]
          /\ \A x \in DOMAIN down : IsBatch(down[x], q) /\ x = i => down[x].seq <= n0
    BY <1>a, <1>4, Zenon DEF Stream, Frames, ServedCols, Capped
  <1>11. FrameCols(q)'
    <2> SUFFICES ASSUME NEW i \in DOMAIN down', NEW j \in DOMAIN down', i < j, IsHello(down'[i], q),
                        IsBatch(down'[j], q), NoHello(down', q, i, j)
                 PROVE  RowsOver(down'[j], down'[i].cols)
      BY <1>a, Zenon DEF FrameCols
    <2>1. i \in DOMAIN down /\ down'[i] = down[i]
      BY <1>a, <1>1, <1>9, Zenon
    <2>2. CASE j \in DOMAIN down
      <3>1. FrameCols(q) /\ down'[j] = down[j]
        BY <1>a, <1>1, <2>2, Zenon DEF Stream, Frames
      <3> QED
        BY <1>a, <1>2, <2>1, <2>2, <3>1, Zenon DEF FrameCols
    <2>3. CASE j = z
      <3>1. down[i].cols = layout[q]
        BY <1>a, <1>8, <2>1, <2>3, Zenon
      <3> QED
        BY <1>a, <1>b, <2>1, <2>3, <3>1, Zenon DEF RowsOver
    <2> QED
      BY <1>a, <1>10, <2>2, <2>3, Zenon
  <1>12. ServedCols(q)'
    <2> SUFFICES ASSUME NEW i \in DOMAIN down', IsHello(down'[i], q), NoHello(down', q, i, End')
                 PROVE  down'[i].cols = layout[q]
      BY <1>a, Zenon DEF ServedCols
    <2>1. i \in DOMAIN down /\ down'[i] = down[i]
      BY <1>a, <1>1, <1>9, Zenon
    <2>2. down[i].cols = layout[q]
      BY <1>a, <1>1, <1>8, <2>1, Zenon
    <2> QED
      BY <1>a, <2>1, <2>2, Zenon
  <1>13. Rising(q)'
    <2> SUFFICES ASSUME NEW i \in DOMAIN down', NEW j \in DOMAIN down', i < j, IsBatch(down'[i], q),
                        IsBatch(down'[j], q), NoHello(down', q, i, j)
                 PROVE  down'[i].seq < down'[j].seq
      BY <1>a, Zenon DEF Rising
    <2>1. CASE j \in DOMAIN down
      <3>1. i \in DOMAIN down /\ down'[i] = down[i] /\ down'[j] = down[j] /\ Rising(q)
        BY <1>a, <1>1, <2>1, Zenon DEF Stream, Frames
      <3> QED
        BY <1>a, <1>2, <2>1, <3>1, Zenon DEF Rising
    <2>2. CASE j = z
      <3>1. i \in DOMAIN down /\ down'[i] = down[i]
        BY <1>a, <1>1, <1>10, <2>2, Zenon
      <3>2. down[i].seq <= n0 /\ down[i].seq \in Nat
        BY <1>a, <1>8, <2>2, <3>1, Zenon DEF SeqNats
      <3> QED
        BY <1>a, <1>1, <2>2, <3>1, <3>2, SMT
    <2> QED
      BY <1>a, <1>10, <2>1, <2>2, Zenon
  <1>14. Capped(q)'
    <2> SUFFICES ASSUME NEW i \in DOMAIN down', IsBatch(down'[i], q), NoHello(down', q, i, End')
                 PROVE  down'[i].seq <= n0 + 1
      BY <1>a, Zenon DEF Capped
    <2>1. CASE i \in DOMAIN down
      <3>1. down'[i] = down[i]
        BY <1>a, <1>1, <2>1, Zenon
      <3>2. down[i].seq <= n0 /\ down[i].seq \in Nat
        BY <1>a, <1>1, <1>8, <2>1, <3>1, Zenon DEF SeqNats
      <3> QED
        BY <1>a, <1>1, <3>1, <3>2, Zenon
    <2>2. CASE i = z
      BY <1>a, <1>1, <2>2, Zenon
    <2> QED
      BY <1>a, <1>10, <2>1, <2>2, Zenon
  <1>15. Snapshots(q)'
    <2> SUFFICES ASSUME NEW i \in DOMAIN down', IsBatch(down'[i], q), down'[i].seq = 0
                 PROVE  \A k \in DOMAIN down'[i].ops : down'[i].ops[k].op = "add"
      BY <1>a, Zenon DEF Snapshots
    <2>1. i \in DOMAIN down /\ down'[i] = down[i] /\ Snapshots(q)
      BY <1>a, <1>1, <1>10, Zenon DEF Stream, Frames
    <2> QED
      BY <1>a, <2>1, Zenon DEF Snapshots
  <1>d. \A l \in DOMAIN down' : \A k \in Key :
          l \notin DOMAIN down /\ Writes(down'[l], k) => k = k0 /\ Current(down'[l], k0, rows'[k0])
    BY Zenon DEF Touches
  <1>e. \A k \in Key : k # k0 => rows'[k] = rows[k] /\ (k \in match'[q] <=> k \in match[q])
    BY Zenon DEF Touches
  <1>16. ChainFrames(q)'
    <2> SUFFICES ASSUME NEW k \in Key, NEW i \in DOMAIN down', NEW j \in DOMAIN down',
                        i < j, IsBatch(down'[i], q), IsBatch(down'[j], q),
                        Decides(down'[i], k), k \in DOMAIN down'[j].ops,
                        Link(down', q, k, i, down'[i].seq, j, down'[j].seq)
                 PROVE  Keeps(down'[i], k) <=> down'[j].ops[k].op # "add"
      BY Zenon DEF ChainFrames
    <2>1. CASE j \in DOMAIN down
      <3>1. i \in DOMAIN down /\ down'[i] = down[i] /\ down'[j] = down[j]
        BY <1>1, <2>1, Zenon
      <3>2. Link(down, q, k, i, down[i].seq, j, down[j].seq)
        BY <1>1, <1>2, <1>3, <2>1, <3>1, Zenon DEF Link, SeqNats
      <3>3. ChainFrames(q)
        BY Zenon DEF Stream, Frames
      <3> QED
        BY <2>1, <3>1, <3>2, <3>3, Zenon DEF ChainFrames
    <2>2. CASE j = z
      <3>1. i \in DOMAIN down /\ down'[i] = down[i] /\ i \in Nat /\ down[i].seq \in Nat
        BY <1>1, <1>10, <2>2, Zenon DEF SeqNats
      <3>2. Link(down, q, k, i, down[i].seq, End, n0 + 1)
        BY <1>a, <1>4, <1>5, <2>2, <3>1, Zenon DEF Link
      <3>3. ChainServer(q)
        BY Zenon DEF Stream, Frames
      <3>4. Keeps(down[i], k) <=> k \in match[q]
        BY <1>a, <3>1, <3>2, <3>3, Zenon DEF ChainServer
      <3>5. k = k0
        BY <1>b, <2>2, Zenon
      <3> QED
        BY <1>c, <2>2, <3>1, <3>4, <3>5, Zenon
    <2> QED
      BY <1>10, <2>1, <2>2, Zenon
  <1>17. ChainServer(q)'
    <2> SUFFICES ASSUME NEW k \in Key, NEW i \in DOMAIN down', IsBatch(down'[i], q),
                        Decides(down'[i], k), Link(down', q, k, i, down'[i].seq, End', n0 + 1 + 1)
                 PROVE  Keeps(down'[i], k) <=> k \in match'[q]
      BY <1>a, Zenon DEF ChainServer
    <2>1. CASE i \in DOMAIN down
      <3>1. down'[i] = down[i] /\ i \in Nat /\ down[i].seq \in Nat /\ i <= i
        BY <1>1, <2>1, Zenon DEF SeqNats
      <3>2. NoHello(down, q, i, End) /\ down[i].seq <= n0
        BY <1>1, <1>4, <1>8, <2>1, <3>1, Zenon DEF Link
      <3>3. k # k0
        BY <1>7, <3>1, <3>2, Zenon DEF Link
      <3>4. Link(down, q, k, i, down[i].seq, End, n0 + 1)
        BY <1>6, <3>1, <3>2, Zenon DEF Link
      <3>5. ChainServer(q)
        BY Zenon DEF Stream, Frames
      <3>6. Keeps(down[i], k) <=> k \in match[q]
        BY <1>a, <2>1, <3>1, <3>4, <3>5, Zenon DEF ChainServer
      <3> QED
        BY <1>e, <3>1, <3>3, <3>6, Zenon
    <2>2. CASE i = z
      <3>1. k = k0
        BY <1>a, <1>b, <1>1, <2>2, Zenon DEF Decides
      <3> QED
        BY <1>b, <1>c, <2>2, <3>1, Zenon DEF Keeps
    <2> QED
      BY <1>10, <2>1, <2>2, Zenon
  <1>18. FreshFrames(q)'
    <2> SUFFICES ASSUME NEW k \in Key, NEW p \in DOMAIN down', NEW i \in DOMAIN down',
                        k \in match'[q], Writes(down'[i], k), p <= i, IsBatch(down'[p], q),
                        NoHello(down', q, p, End'),
                        Passes(down', q, k, i, down'[p].seq, End', n0 + 1 + 1)
                 PROVE  Current(down'[i], k, rows'[k])
      BY <1>a, Zenon DEF FreshFrames
    <2>1. CASE i \notin DOMAIN down
      BY <1>d, <2>1, Zenon
    <2>2. CASE i \in DOMAIN down
      <3>1. /\ p \in DOMAIN down /\ down'[p] = down[p] /\ down'[i] = down[i]
            /\ i \in Nat /\ p \in Nat /\ down[p].seq \in Nat
        BY <1>1, <2>2, Zenon DEF SeqNats
      <3>2. NoHello(down, q, p, End) /\ down[p].seq <= n0
        BY <1>1, <1>4, <1>8, <3>1, Zenon
      <3>3. k # k0
        BY <1>7, <3>1, <3>2, Zenon
      <3>4. Passes(down, q, k, i, down[p].seq, End, n0 + 1)
        BY <1>6, <3>1, Zenon
      <3>5. FreshFrames(q)
        BY Zenon DEF Stream, Frames
      <3>6. Current(down[i], k, rows[k])
        BY <1>a, <1>e, <2>2, <3>1, <3>2, <3>3, <3>4, <3>5, Zenon DEF FreshFrames
      <3> QED
        BY <1>e, <3>1, <3>3, <3>6, Zenon
    <2> QED
      BY <2>1, <2>2, Zenon
  <1>19. Frames(q)'
    BY <1>11, <1>12, <1>13, <1>14, <1>15, <1>16, <1>17, <1>18, Zenon DEF Frames
  <1>20. (Listens(q)' <=> Listens(q)) /\ (IsLive(q)' <=> IsLive(q))
    BY Zenon DEF Listens, IsLive
  <1>21. ASSUME Listens(q), NoHello(down', q, 0, End')
         PROVE  /\ NoHello(down, q, 0, End) /\ qcols[q] = layout[q]
                /\ lastSeq[q] <= n0 /\ lastSeq[q] \in Nat
    <2>1. NoHello(down, q, 0, End)
      BY <1>1, <1>4, <1>21, Zenon
    <2> QED
      BY <1>a, <1>21, <2>1, Zenon DEF Stream, Listening, LayoutCols, Behind, SeqNats
  <1>22. ClientCols(q)'
    <2> SUFFICES ASSUME NEW j \in DOMAIN down', Listens(q), IsBatch(down'[j], q), NoHello(down', q, 0, j)
                 PROVE  RowsOver(down'[j], qcols[q])
      BY <1>20, Zenon DEF ClientCols
    <2>1. CASE j \in DOMAIN down
      <3>1. down'[j] = down[j] /\ ClientCols(q) /\ NoHello(down, q, 0, j)
        BY <1>1, <1>2, <2>1, Zenon DEF Stream, Listening
      <3> QED
        BY <2>1, <3>1, Zenon DEF ClientCols
    <2>2. CASE j = z
      <3>1. NoHello(down, q, 0, End)
        BY <1>a, <1>4, <2>2, Zenon
      <3>2. qcols[q] = layout[q]
        BY <3>1, Zenon DEF Stream, Listening, LayoutCols
      <3> QED
        BY <1>b, <2>2, <3>2, Zenon DEF RowsOver
    <2> QED
      BY <1>10, <2>1, <2>2, Zenon
  <1>23. LayoutCols(q)'
    BY <1>20, <1>21, Zenon DEF LayoutCols
  <1>24. Behind(q)'
    <2>1. ASSUME Listens(q), NoHello(down', q, 0, End') PROVE lastSeq[q] <= n0 + 1
      BY <1>1, <1>21, <2>1, Zenon
    <2> QED
      BY <1>a, <1>20, <2>1, Zenon DEF Behind
  <1>25. ChainClient(q)'
    <2> SUFFICES ASSUME NEW k \in Key, NEW j \in DOMAIN down', IsLive(q), IsBatch(down'[j], q),
                        k \in DOMAIN down'[j].ops, lastSeq[q] < down'[j].seq,
                        Link(down', q, k, 0, lastSeq[q], j, down'[j].seq)
                 PROVE  k \in foot[q] <=> down'[j].ops[k].op # "add"
      BY <1>20, Zenon DEF ChainClient
    <2>1. CASE j \in DOMAIN down
      <3>1. down'[j] = down[j]
        BY <1>1, <2>1, Zenon
      <3>2. Link(down, q, k, 0, lastSeq[q], j, down[j].seq)
        BY <1>1, <1>2, <1>3, <2>1, <3>1, Zenon DEF Link, SeqNats
      <3>3. ChainClient(q)
        BY Zenon DEF Stream, Chained
      <3> QED
        BY <2>1, <3>1, <3>2, <3>3, Zenon DEF ChainClient
    <2>2. CASE j = z
      <3>1. Link(down, q, k, 0, lastSeq[q], End, n0 + 1)
        BY <1>a, <1>1, <1>4, <1>5, <2>2, Zenon DEF Link, SeqNats
      <3>2. ChainEnds(q)
        BY Zenon DEF Stream, Chained
      <3>3. k \in foot[q] <=> k \in match[q]
        BY <1>a, <3>1, <3>2, Zenon DEF ChainEnds
      <3>4. k = k0
        BY <1>b, <2>2, Zenon
      <3> QED
        BY <1>c, <2>2, <3>3, <3>4, Zenon
    <2> QED
      BY <1>10, <2>1, <2>2, Zenon
  <1>26. ASSUME NEW k \in Key, IsLive(q), Link(down', q, k, 0, lastSeq[q], End', n0 + 1 + 1)
         PROVE  k # k0 /\ Link(down, q, k, 0, lastSeq[q], End, n0 + 1)
    <2>1. NoHello(down, q, 0, End) /\ lastSeq[q] <= n0 /\ lastSeq[q] \in Nat
      BY <1>21, <1>26, Zenon DEF Link, Listens, IsLive
    <2>2. 0 <= 0 /\ 0 \in Nat
      BY SMT
    <2>3. k # k0
      BY <1>7, <1>26, <2>1, <2>2, Zenon DEF Link
    <2> QED
      BY <1>6, <1>26, <2>1, <2>2, <2>3, Zenon DEF Link
  <1>27. ChainEnds(q)'
    <2> SUFFICES ASSUME NEW k \in Key, IsLive(q), Link(down', q, k, 0, lastSeq[q], End', n0 + 1 + 1)
                 PROVE  k \in foot[q] <=> k \in match'[q]
      BY <1>a, <1>20, Zenon DEF ChainEnds
    <2>1. k # k0 /\ Link(down, q, k, 0, lastSeq[q], End, n0 + 1)
      BY <1>26, Zenon
    <2>2. ChainEnds(q)
      BY Zenon DEF Stream, Chained
    <2>3. k \in foot[q] <=> k \in match[q]
      BY <1>a, <2>1, <2>2, Zenon DEF ChainEnds
    <2> QED
      BY <1>e, <2>1, <2>3, Zenon
  <1>28. FreshClient(q)'
    <2> SUFFICES ASSUME NEW k \in Key, NEW i \in DOMAIN down', k \in match'[q], Writes(down'[i], k),
                        IsLive(q), NoHello(down', q, 0, End'),
                        Passes(down', q, k, i, lastSeq[q], End', n0 + 1 + 1)
                 PROVE  Current(down'[i], k, rows'[k])
      BY <1>a, <1>20, Zenon DEF FreshClient
    <2>1. CASE i \notin DOMAIN down
      BY <1>d, <2>1, Zenon
    <2>2. CASE i \in DOMAIN down
      <3>1. down'[i] = down[i] /\ i \in Nat /\ 0 \in Nat /\ 0 <= i
        <4>1. i \in Nat => 0 <= i
          BY SMT
        <4> QED
          BY <1>1, <2>2, <4>1, Zenon
      <3>2. NoHello(down, q, 0, End) /\ lastSeq[q] <= n0 /\ lastSeq[q] \in Nat
        BY <1>21, Zenon DEF Listens, IsLive
      <3>3. k # k0
        BY <1>7, <3>1, <3>2, Zenon
      <3>4. Passes(down, q, k, i, lastSeq[q], End, n0 + 1)
        BY <1>6, <3>1, <3>2, Zenon
      <3>5. FreshClient(q)
        BY Zenon DEF Stream, Chained
      <3>6. Current(down[i], k, rows[k])
        BY <1>a, <1>e, <2>2, <3>1, <3>2, <3>3, <3>4, <3>5, Zenon DEF FreshClient
      <3> QED
        BY <1>e, <3>1, <3>3, <3>6, Zenon
    <2> QED
      BY <2>1, <2>2, Zenon
  <1>29. FreshCells(q)'
    <2> SUFFICES ASSUME NEW k \in Key, k \in match'[q], IsLive(q),
                        Link(down', q, k, 0, lastSeq[q], End', n0 + 1 + 1), NEW c \in layout[q]
                 PROVE  cell[k][c] = rows'[k][c]
      BY <1>a, <1>20, Zenon DEF FreshCells
    <2>1. k # k0 /\ Link(down, q, k, 0, lastSeq[q], End, n0 + 1)
      BY <1>26, Zenon
    <2>2. FreshCells(q)
      BY Zenon DEF Stream
    <2>3. cell[k][c] = rows[k][c]
      BY <1>a, <1>e, <2>1, <2>2, Zenon DEF FreshCells
    <2> QED
      BY <1>e, <2>1, <2>3, Zenon
  <1> QED
    BY <1>19, <1>22, <1>23, <1>24, <1>25, <1>27, <1>28, <1>29, Zenon DEF Stream, Listening, Chained

-----------------------------------------------------------------------------
(* A frame leaves that the subscriber of q does not take. *)
LEMMA DropCells ==
  ASSUME NEW q, NEW r, Stream(q), Drops(down, down', r),
         UNCHANGED <<rows, match, serving, layout, srvSeq>>,
         IsLive(q)' => IsLive(q) /\ ~IsHello(down[r], q) /\ lastSeq'[q] = lastSeq[q],
         \A k \in Key : \A c \in qcols[q] :
           /\ q \in serving /\ k \in match[q] /\ k \in foot[q] /\ IsLive(q)'
           /\ Link(down', q, k, 0, lastSeq[q], End', srvSeq[q] + 1)
           /\ cell[k][c] = rows[k][c]
           => cell'[k][c] = rows[k][c]
  PROVE  FreshCells(q)'
  <1> SUFFICES ASSUME NEW k \in Key, q \in serving, k \in match[q], IsLive(q)',
                      Link(down', q, k, 0, lastSeq'[q], End', srvSeq[q] + 1), NEW c \in layout[q]
               PROVE  cell'[k][c] = rows[k][c]
    BY Zenon DEF FreshCells
  <1>1. Shifts(r)
    BY LeftPlaces
  <1>2. IsLive(q) /\ Listens(q) /\ ~IsHello(down[r], q) /\ lastSeq'[q] = lastSeq[q]
    BY Zenon DEF Listens, IsLive
  <1>3. NoHello(down, q, 0, Up(r, End')) /\ Passes(down, q, k, Up(r, 0), lastSeq[q], Up(r, End'), srvSeq[q] + 1)
    BY <1>2, DropLinks, Zenon DEF Link
  <1>4. Link(down, q, k, 0, lastSeq[q], End, srvSeq[q] + 1)
    BY <1>1, <1>3, Zenon DEF Shifts, Link
  <1>5. k \in foot[q] /\ c \in qcols[q]
    BY <1>2, <1>4, Zenon DEF Stream, Chained, ChainEnds, Listening, LayoutCols, Link
  <1>6. cell[k][c] = rows[k][c]
    BY <1>2, <1>4, Zenon DEF Stream, FreshCells
  <1> QED
    BY <1>2, <1>5, <1>6, Zenon

LEMMA DropStream ==
  ASSUME NEW q, NEW r, Stream(q), Drops(down, down', r),
         UNCHANGED <<rows, match, serving, layout, srvSeq, cell>>,
         IsHello(down[r], q) => r = 1 /\ ~Listens(q)',
         ClientStands(q)
  PROVE  Stream(q)'
  <1>1. Listens(q)' => Listens(q) /\ ~IsHello(down[r], q) /\ qcols'[q] = qcols[q] /\ lastSeq'[q] = lastSeq[q]
    BY Zenon DEF ClientStands
  <1>2. IsLive(q)' => IsLive(q) /\ ~IsHello(down[r], q) /\ lastSeq'[q] = lastSeq[q] /\ foot'[q] = foot[q]
    BY <1>1, Zenon DEF ClientStands, Listens, IsLive
  <1>3. Frames(q)'
    BY DropFrames, Zenon DEF Stream
  <1>4. Listening(q)'
    BY <1>1, DropListening, Zenon DEF Stream
  <1>5. Chained(q)'
    BY <1>2, DropChained, Zenon DEF Stream
  <1>6. FreshCells(q)'
    BY <1>2, DropCells, Zenon
  <1> QED
    BY <1>3, <1>4, <1>5, <1>6, Zenon DEF Stream

(* A query's own op on a key leaves the columns of the others, but for what it *)
(* writes.                                                                     *)
LEMMA FoldOthers ==
  ASSUME SyncInv, NEW p \in Query, NEW q \in Query, p # q, NEW ops, FoldOps(p, ops),
         NEW k \in Key, k \in foot[q], NEW c \in Col, c \in qcols[q]
  PROVE  \/ cell'[k][c] = cell[k][c]
         \/ k \in DOMAIN ops /\ ops[k].op # "remove" /\ c \in qcols[p] /\ cell'[k][c] = ops[k].row[c]
  <1>1. q \in refs[k]
    BY Zenon DEF SyncInv, RefsAgree
  <1>2. cell'[k] = IF k \in {x \in DOMAIN ops : ops[x].op = "add"} THEN AddKey(p, k, Scatter(p, ops[k].row))
                   ELSE IF k \in {x \in DOMAIN ops : ops[x].op = "remove"} THEN RemoveKey(p, k)
                   ELSE IF k \in DOMAIN ops THEN EditKey(k, Scatter(p, ops[k].row))
                   ELSE cell[k]
    BY Zenon DEF FoldOps
  <1>3. RemoveKey(p, k)[c] = cell[k][c]
    <2>1. ~(refs[k] \subseteq {p}) /\ c \in PresentCols(refs[k] \ {p})
      BY <1>1, Zenon DEF PresentCols
    <2> QED
      BY <2>1, Zenon DEF RemoveKey
  <1>4. ASSUME NEW m, m = MergeInto(cell[k], Scatter(p, ops[k].row))
        PROVE  m[c] = cell[k][c] \/ (c \in qcols[p] /\ m[c] = ops[k].row[c])
    BY <1>4, Zenon DEF MergeInto, Scatter
  <1>5. CASE k \in DOMAIN ops /\ ops[k].op = "add"
    <2>1. cell'[k] = AddKey(p, k, Scatter(p, ops[k].row))
      BY <1>2, <1>5, Zenon
    <2>2. refs[k] # {}
      BY <1>1, Zenon
    <2>3. cell'[k] = cell[k] \/ cell'[k] = MergeInto(cell[k], Scatter(p, ops[k].row))
      BY <2>1, <2>2, Zenon DEF AddKey
    <2> QED
      BY <1>4, <1>5, <2>3, Zenon
  <1>6. CASE k \in DOMAIN ops /\ ops[k].op = "remove"
    BY <1>2, <1>3, <1>6, Zenon
  <1>7. CASE k \in DOMAIN ops /\ ops[k].op # "add" /\ ops[k].op # "remove"
    <2>1. cell'[k] = MergeInto(cell[k], Scatter(p, ops[k].row))
      BY <1>1, <1>2, <1>7, Zenon DEF EditKey
    <2> QED
      BY <1>4, <1>7, <2>1, Zenon
  <1>8. CASE k \notin DOMAIN ops
    BY <1>2, <1>8, Zenon
  <1> QED
    BY <1>5, <1>6, <1>7, <1>8, Zenon

(* A batch that another query's subscriber takes brings its rows, as they are *)
(* at the server by the time q has heard of everything.                       *)
LEMMA TakenByOther ==
  ASSUME SyncInv, NEW p \in Query, NEW q \in Query, p # q, Stream(q),
         Drops(down, down', 1), IsBatch(down[1], p), RowsOver(down[1], qcols[p]),
         NEW ops, FoldOps(p, ops), qcols[q] \subseteq Col,
         \A k \in DOMAIN ops : ops[k].op # "remove" =>
           k \in DOMAIN down[1].ops /\ down[1].ops[k].op # "remove" /\ ops[k].row = down[1].ops[k].row,
         UNCHANGED <<rows, match, serving, layout, srvSeq, qcols>>,
         phase'[q] = phase[q], lastSeq'[q] = lastSeq[q]
  PROVE  Stream(q)'
  <1>1. foot'[q] = foot[q]
    BY Zenon DEF SyncInv, Maps, FoldOps
  <1>2. ~IsHello(down[1], q) /\ (Listens(q)' <=> Listens(q)) /\ (IsLive(q)' <=> IsLive(q))
    BY Zenon DEF IsHello, IsBatch, Listens, IsLive
  <1>3. Frames(q)'
    BY <1>2, DropFrames, Zenon DEF Stream
  <1>4. Listening(q)'
    BY <1>2, DropListening, Zenon DEF Stream
  <1>5. Chained(q)'
    BY <1>1, <1>2, DropChained, Zenon DEF Stream
  <1>6. ASSUME NEW k \in Key, NEW c \in qcols[q], q \in serving, k \in match[q], k \in foot[q], IsLive(q)',
               Link(down', q, k, 0, lastSeq[q], End', srvSeq[q] + 1), cell[k][c] = rows[k][c]
        PROVE  cell'[k][c] = rows[k][c]
    <2>1. /\ 1 \in DOMAIN down /\ End' \in Nat /\ End' + 1 = End /\ 0 + 1 = 1 /\ 0 \in Nat
      BY SMT DEF Drops, Up, End
    <2>2. \/ cell'[k][c] = cell[k][c]
          \/ k \in DOMAIN ops /\ ops[k].op # "remove" /\ c \in qcols[p] /\ cell'[k][c] = ops[k].row[c]
      <3>1. c \in Col
        BY <1>6, Zenon
      <3> QED
        BY <1>6, <3>1, FoldOthers
    <2>3. CASE k \in DOMAIN ops /\ ops[k].op # "remove" /\ c \in qcols[p] /\ cell'[k][c] = ops[k].row[c]
      <3>1. Writes(down[1], k) /\ ops[k].row = down[1].ops[k].row
        BY <2>3, Zenon DEF Writes, IsBatch
      <3>2. Passes(down, q, k, 0 + 1, lastSeq[q], End' + 1, srvSeq[q] + 1)
        BY <1>6, <2>1, TailPasses, Zenon DEF Link
      <3>3. Passes(down, q, k, 1, lastSeq[q], End, srvSeq[q] + 1)
        BY <2>1, <3>2, Zenon
      <3>4. NoHello(down, q, 0, Up(1, End'))
        BY <1>2, <1>6, DropLinks, Zenon DEF Link
      <3>5. NoHello(down, q, 0, End)
        BY <3>4, LeftPlaces, Zenon DEF Shifts
      <3>6. Current(down[1], k, rows[k])
        BY <1>2, <1>6, <2>1, <3>1, <3>3, <3>5, Zenon DEF Stream, Chained, FreshClient
      <3>7. c \in DOMAIN down[1].ops[k].row
        BY <2>3, Zenon DEF RowsOver
      <3> QED
        BY <2>3, <3>1, <3>6, <3>7, Zenon DEF Current
    <2> QED
      BY <1>6, <2>2, <2>3, Zenon
  <1>7. FreshCells(q)'
    BY <1>2, <1>6, DropCells, Zenon
  <1> QED
    BY <1>3, <1>4, <1>5, <1>7, Zenon DEF Stream

(* What the ops folded into the base make of the frame f of q. *)
Refolds(q, f, ops) ==
  \A k \in Key :
    /\ Decides(f, k) /\ Keeps(f, k) =>
         k \in DOMAIN ops /\ ops[k].row = f.ops[k].row /\ ops[k].op = IF k \in foot[q] THEN "edit" ELSE "add"
    /\ Decides(f, k) /\ ~Keeps(f, k) => IF k \in DOMAIN ops THEN ops[k].op = "remove" ELSE k \notin foot[q]
    /\ ~Decides(f, k) => k \notin DOMAIN ops /\ IsLive(q) /\ f.seq = lastSeq[q] + 1

LEMMA RefoldsFoot ==
  ASSUME SyncInv, NEW q \in Query, NEW f, NEW ops, FoldOps(q, ops), Refolds(q, f, ops), NEW k \in Key
  PROVE  /\ Decides(f, k) => (k \in foot'[q] <=> Keeps(f, k))
         /\ ~Decides(f, k) => (k \in foot'[q] <=> k \in foot[q])
  <1>1. foot'[q] = (foot[q] \cup {x \in DOMAIN ops : ops[x].op = "add"}) \ {x \in DOMAIN ops : ops[x].op = "remove"}
    BY Zenon DEF SyncInv, Maps, FoldOps
  <1>2. CASE Decides(f, k) /\ Keeps(f, k)
    <2>1. k \in DOMAIN ops /\ ops[k].op = IF k \in foot[q] THEN "edit" ELSE "add"
      BY <1>2, Zenon DEF Refolds
    <2>2. ops[k].op # "remove" /\ (k \notin foot[q] => ops[k].op = "add")
      BY <2>1, Zenon
    <2> QED
      BY <1>1, <1>2, <2>1, <2>2, Zenon
  <1>3. CASE Decides(f, k) /\ ~Keeps(f, k)
    <2>1. IF k \in DOMAIN ops THEN ops[k].op = "remove" ELSE k \notin foot[q]
      BY <1>3, Zenon DEF Refolds
    <2> QED
      BY <1>1, <1>3, <2>1, Zenon
  <1>4. CASE ~Decides(f, k)
    <2>1. k \notin DOMAIN ops
      BY <1>4, Zenon DEF Refolds
    <2> QED
      BY <1>1, <1>4, <2>1, Zenon
  <1> QED
    BY <1>2, <1>3, <1>4, Zenon

LEMMA RefoldsCell ==
  ASSUME SyncInv, NEW q \in Query, NEW f, NEW ops, FoldOps(q, ops), Refolds(q, f, ops), NEW k \in Key, NEW c \in Col
  PROVE  /\ Decides(f, k) /\ Keeps(f, k) /\ c \in qcols[q] /\ f.ops[k].row[c] # Absent => cell'[k][c] = f.ops[k].row[c]
         /\ ~Decides(f, k) => cell'[k] = cell[k]
  <1>1. cell'[k] = IF k \in {x \in DOMAIN ops : ops[x].op = "add"} THEN AddKey(q, k, Scatter(q, ops[k].row))
                   ELSE IF k \in {x \in DOMAIN ops : ops[x].op = "remove"} THEN RemoveKey(q, k)
                   ELSE IF k \in DOMAIN ops THEN EditKey(k, Scatter(q, ops[k].row))
                   ELSE cell[k]
    BY Zenon DEF FoldOps
  <1>2. ASSUME Decides(f, k), Keeps(f, k), c \in qcols[q], f.ops[k].row[c] # Absent
        PROVE  cell'[k][c] = f.ops[k].row[c]
    <2>1. k \in DOMAIN ops /\ ops[k].row = f.ops[k].row /\ ops[k].op = IF k \in foot[q] THEN "edit" ELSE "add"
      BY <1>2, Zenon DEF Refolds
    <2>2. Scatter(q, ops[k].row)[c] = f.ops[k].row[c]
      BY <1>2, <2>1, Zenon DEF Scatter
    <2>3. MergeInto(cell[k], Scatter(q, ops[k].row))[c] = f.ops[k].row[c]
      BY <1>2, <2>2, Zenon DEF MergeInto
    <2>4. CASE k \in foot[q]
      <3>1. ops[k].op # "add" /\ ops[k].op # "remove" /\ refs[k] # {}
        BY <2>1, <2>4, Zenon DEF SyncInv, RefsAgree
      <3>2. cell'[k] = EditKey(k, Scatter(q, ops[k].row))
        BY <1>1, <2>1, <3>1, Zenon
      <3> QED
        BY <2>3, <3>1, <3>2, Zenon DEF EditKey
    <2>5. CASE k \notin foot[q]
      <3>1. cell'[k] = AddKey(q, k, Scatter(q, ops[k].row))
        BY <1>1, <2>1, <2>5, Zenon
      <3> QED
        BY <2>2, <2>3, <2>5, <3>1, Zenon DEF AddKey
    <2> QED
      BY <2>4, <2>5, Zenon
  <1>3. ASSUME ~Decides(f, k) PROVE cell'[k] = cell[k]
    <2>1. k \notin DOMAIN ops
      BY <1>3, Zenon DEF Refolds
    <2> QED
      BY <1>1, <2>1, Zenon
  <1> QED
    BY <1>2, <1>3, Zenon

LEMMA TakenBySelf ==
  ASSUME SyncInv, NEW q \in Query, Stream(q), SeqNats(q), Listens(q), qcols[q] \subseteq Col,
         Drops(down, down', 1), IsBatch(down[1], q), \A k \in DOMAIN down[1].ops : down[1].ops[k].row \in WireRow,
         NEW ops, FoldOps(q, ops), Refolds(q, down[1], ops),
         UNCHANGED <<rows, match, serving, layout, srvSeq, qcols>>,
         lastSeq'[q] = down[1].seq
  PROVE  Stream(q)'
  <1>1. ~IsHello(down[1], q)
    BY Zenon DEF IsHello, IsBatch
  <1>2. /\ 1 \in DOMAIN down /\ End' \in Nat /\ 0 < End' /\ End' + 1 = End /\ 0 + 1 = 1 /\ 0 \in Nat
        /\ srvSeq[q] + 1 \in Nat /\ 1 <= 1
    BY SMT DEF Drops, Up, End, SeqNats
  <1>3. Frames(q)'
    BY <1>1, DropFrames, Zenon DEF Stream
  <1>4. NoHello(down', q, 0, End') => NoHello(down, q, 1, End) /\ NoHello(down, q, 0, End)
    <2>1. NoHello(down', q, 0, End') => NoHello(down, q, 0 + 1, End' + 1)
      BY <1>2, TailNoHello, Zenon
    <2>2. NoHello(down', q, 0, End') => NoHello(down, q, 0, Up(1, End'))
      BY <1>1, DropLinks, Zenon
    <2>3. Up(1, End') = End
      BY LeftPlaces, Zenon DEF Shifts
    <2> QED
      BY <1>2, <2>1, <2>2, <2>3, Zenon
  <1>5. Behind(q)'
    BY <1>2, <1>4, Zenon DEF Behind, Stream, Frames, Capped
  <1>6. Listening(q)'
    BY <1>1, <1>5, DropListening, Zenon DEF Stream
  <1>7. Chained(q)'
    <2>1. \A k \in Key : Decides(down[1], k) => (k \in foot'[q] <=> Keeps(down[1], k))
      BY RefoldsFoot, Zenon
    <2>2. \A k \in Key : ~Decides(down[1], k) =>
            IsLive(q) /\ lastSeq'[q] = lastSeq[q] + 1 /\ (k \in foot'[q] <=> k \in foot[q])
      BY RefoldsFoot, Zenon DEF Refolds
    <2> QED
      BY <2>1, <2>2, AppliedChained, Zenon DEF Stream, SeqNats
  <1>8. FreshCells(q)'
    <2> SUFFICES ASSUME NEW k \in Key, q \in serving, k \in match[q],
                        Link(down', q, k, 0, down[1].seq, End', srvSeq[q] + 1), NEW c \in layout[q]
                 PROVE  cell'[k][c] = rows[k][c]
      BY Zenon DEF FreshCells
    <2>1. qcols[q] = layout[q] /\ c \in Col
      BY <1>4, Zenon DEF Stream, Listening, LayoutCols, Link
    <2>2. CASE Decides(down[1], k)
      <3>1. Passes(down, q, k, 0 + 1, down[1].seq, End' + 1, srvSeq[q] + 1)
        BY <1>2, TailPasses, Zenon DEF Link
      <3>2. NoHello(down, q, 1, End) /\ Passes(down, q, k, 1, down[1].seq, End, srvSeq[q] + 1)
        BY <1>2, <1>4, <3>1, Zenon DEF Link
      <3>3. ChainServer(q) /\ FreshFrames(q) /\ ClientCols(q)
        BY Zenon DEF Stream, Frames, Listening
      <3>4. Keeps(down[1], k)
        BY <1>2, <2>2, <3>2, <3>3, Zenon DEF ChainServer, Link
      <3>5. Writes(down[1], k)
        BY <3>4, Zenon DEF Keeps, Writes, IsBatch
      <3>6. Current(down[1], k, rows[k])
        BY <1>2, <3>2, <3>3, <3>5, Zenon DEF FreshFrames
      <3>7. NoHello(down, q, 0, 1)
        BY SMT DEF NoHello, Drops
      <3>8. DOMAIN down[1].ops[k].row = qcols[q]
        BY <1>2, <3>3, <3>4, <3>7, Zenon DEF ClientCols, RowsOver, Keeps
      <3>9. PICK C \in SUBSET Col : down[1].ops[k].row \in [C -> Val]
        BY <3>4, Zenon DEF Keeps, WireRow
      <3>10. down[1].ops[k].row[c] # Absent
        BY <2>1, <3>8, <3>9, SyncAssumption, Zenon
      <3>11. cell'[k][c] = down[1].ops[k].row[c]
        <4>1. c \in qcols[q] /\ c \in Col
          BY <2>1, Zenon
        <4>2. /\ Decides(down[1], k) /\ Keeps(down[1], k) /\ c \in qcols[q] /\ down[1].ops[k].row[c] # Absent
              => cell'[k][c] = down[1].ops[k].row[c]
          BY <4>1, RefoldsCell
        <4> QED
          BY <2>2, <3>4, <3>10, <4>1, <4>2, Zenon
      <3> QED
        BY <2>1, <3>6, <3>8, <3>11, Zenon DEF Current
    <2>3. CASE ~Decides(down[1], k)
      <3>1. IsLive(q) /\ down[1].seq = lastSeq[q] + 1 /\ k \notin DOMAIN down[1].ops
        BY <2>3, Zenon DEF Refolds, Decides
      <3>2. Link(down, q, k, 0, lastSeq[q], End' + 1, srvSeq[q] + 1)
        BY <1>2, <3>1, TailPrepend, Zenon DEF SeqNats
      <3>3. cell[k][c] = rows[k][c]
        BY <1>2, <3>1, <3>2, Zenon DEF Stream, FreshCells
      <3>4. cell'[k] = cell[k]
        BY <2>1, <2>3, RefoldsCell, Zenon
      <3> QED
        BY <3>3, <3>4, Zenon
    <2> QED
      BY <2>2, <2>3, Zenon
  <1> QED
    BY <1>3, <1>6, <1>7, <1>8, Zenon DEF Stream

=============================================================================
