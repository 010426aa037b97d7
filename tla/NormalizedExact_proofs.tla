------------------------ MODULE NormalizedExact_proofs ------------------------
(***************************************************************************)
(* The steps of the server keep the inductive invariant of NormalizedSync, *)
(* and what follows from it: the types of the frames and of the shared     *)
(* rows, and that a query whose subscriber is up to date shows the         *)
(* server's rows.                                                          *)
(***************************************************************************)
EXTENDS NormalizedClient_proofs

(* What the server adds to the socket. *)

(* An error joins the socket. *)
LEMMA ErrorExtends ==
  ASSUME TypeOK, NEW q \in Query, NEW r \in BOOLEAN,
         down' = Append(down, [t |-> "error", q |-> q, retryable |-> r])
  PROVE  /\ Extends(down, down') /\ down' \in Seq(Frame) /\ \A p : Quiet(p)
         /\ \A k : \A l \in DOMAIN down' : l \in DOMAIN down \/ ~Writes(down'[l], k)
  <1> DEFINE f == [t |-> "error", q |-> q, retryable |-> r]
  <1>1. down \in Seq(Frame) /\ f \in Frame
    BY Zenon DEF TypeOK, Frame
  <1>2. f.t = "error"
    BY Zenon
  <1>3. down' = Append(down, f)
    BY Zenon
  <1> HIDE DEF f
  <1>4. Extends(down, down') /\ down' \in Seq(Frame) /\ \A l \in DOMAIN down' : l \in DOMAIN down \/ down'[l] = f
    BY <1>1, <1>3, SMT DEF Extends
  <1> QED
    BY <1>2, <1>4, Zenon DEF Quiet, IsHello, IsBatch, Writes

(* The head of the requests, and what remains of them. *)
LEMMA UpTypes ==
  ASSUME TypeOK, up # <<>>
  PROVE  /\ Head(up) = up[1] /\ 1 \in DOMAIN up /\ Head(up).q \in Query /\ Head(up).t \in {"subscribe", "unsubscribe"}
         /\ Tail(up) \in Seq([t: {"subscribe", "unsubscribe"}, q: Query])
         /\ \A i \in DOMAIN Tail(up) : \E j \in DOMAIN up : Tail(up)[i] = up[j]
  <1> DEFINE M == [t: {"subscribe", "unsubscribe"}, q: Query]
  <1>1. up \in Seq(M)
    BY Zenon DEF TypeOK
  <1>2. \A m \in M : m.q \in Query /\ m.t \in {"subscribe", "unsubscribe"}
    BY Zenon
  <1> HIDE DEF M
  <1>3. Head(up) \in M /\ Head(up) = up[1] /\ 1 \in DOMAIN up /\ Tail(up) \in Seq(M)
    BY <1>1, SMT
  <1>4. \A i \in DOMAIN Tail(up) : i + 1 \in DOMAIN up /\ Tail(up)[i] = up[i + 1]
    BY <1>1, SMT
  <1> QED
    BY <1>2, <1>3, <1>4, Zenon DEF M

LEMMA DeregisterTypes ==
  ASSUME TypeOK, NEW q \in Query, Deregister(q)
  PROVE  /\ serving' \in SUBSET Query /\ match' \in [Query -> SUBSET Key]
         /\ srvEpoch' \in [Query -> Nat] /\ srvSeq' \in [Query -> Nat]
         /\ q \notin serving' /\ match'[q] = {}
         /\ \A p \in Query : p # q => /\ p \in serving' <=> p \in serving
                                      /\ match'[p] = match[p] /\ srvSeq'[p] = srvSeq[p]
  <1>1. /\ serving \in SUBSET Query /\ match \in [Query -> SUBSET Key]
        /\ srvEpoch \in [Query -> Nat] /\ srvSeq \in [Query -> Nat]
    BY Zenon DEF TypeOK
  <1>2. 0 \in Nat
    BY SMT
  <1> QED
    BY <1>1, <1>2, Zenon DEF Deregister

(* The hello and the snapshot that answer a subscribe. *)
Hello(q, e, C) == [t |-> "hello", q |-> q, epoch |-> e, cols |-> C]
Snapshot(q, e, C, K) ==
  [t |-> "batch", q |-> q, epoch |-> e, seq |-> 0,
   ops |-> [k \in K |-> [op |-> "add", row |-> [c \in C |-> rows[k][c]]]]]

LEMMA AnswerTypes ==
  ASSUME TypeOK, NEW q \in Query, NEW C \in SUBSET Col, NEW K \in SUBSET {k \in Key : rows[k] # NoRow},
         NEW e \in Nat
  PROVE  Hello(q, e, C) \in Frame /\ Snapshot(q, e, C, K) \in Frame
  <1>1. Hello(q, e, C) \in Frame
    BY Zenon DEF Hello, Frame
  <1>2. \A k \in K : rows[k] \in [Col -> Val]
    BY Zenon DEF TypeOK, Row
  <1>3. \A k \in K : [c \in C |-> rows[k][c]] \in WireRow
    <2>1. \A k \in K : [c \in C |-> rows[k][c]] \in [C -> Val]
      BY <1>2, Zenon
    <2> QED
      BY <2>1, Zenon DEF WireRow
  <1>4. [k \in K |-> [op |-> "add", row |-> [c \in C |-> rows[k][c]]]] \in [K -> WireOp]
    BY <1>3, Zenon DEF WireOp
  <1>5. [k \in K |-> [op |-> "add", row |-> [c \in C |-> rows[k][c]]]] \in Ops
    BY <1>4, Zenon DEF Ops
  <1>6. 0 \in Nat
    BY SMT
  <1> QED
    BY <1>1, <1>5, <1>6, Zenon DEF Snapshot, Frame

LEMMA AnswerFields ==
  ASSUME NEW q, NEW e, NEW C, NEW K
  PROVE  /\ Hello(q, e, C).t = "hello" /\ Hello(q, e, C).q = q /\ Hello(q, e, C).cols = C
         /\ Snapshot(q, e, C, K).t = "batch" /\ Snapshot(q, e, C, K).q = q /\ Snapshot(q, e, C, K).seq = 0
         /\ Snapshot(q, e, C, K).ops = [k \in K |-> [op |-> "add", row |-> [c \in C |-> rows[k][c]]]]
         /\ \A k : ~Writes(Hello(q, e, C), k)
         /\ \A k : Writes(Snapshot(q, e, C, K), k) => Current(Snapshot(q, e, C, K), k, rows[k])
  <1>1. /\ Hello(q, e, C).t = "hello" /\ Hello(q, e, C).q = q /\ Hello(q, e, C).cols = C
        /\ Snapshot(q, e, C, K).t = "batch" /\ Snapshot(q, e, C, K).q = q /\ Snapshot(q, e, C, K).seq = 0
        /\ Snapshot(q, e, C, K).ops = [k \in K |-> [op |-> "add", row |-> [c \in C |-> rows[k][c]]]]
    BY Zenon DEF Hello, Snapshot
  <1>2. \A k \in K : Snapshot(q, e, C, K).ops[k].row = [c \in C |-> rows[k][c]]
    BY <1>1, SMT
  <1>3. DOMAIN Snapshot(q, e, C, K).ops = K
    BY <1>1, Zenon
  <1>4. ASSUME NEW k \in K PROVE Current(Snapshot(q, e, C, K), k, rows[k])
    <2> DEFINE row == Snapshot(q, e, C, K).ops[k].row
    <2>1. row = [c \in C |-> rows[k][c]]
      BY <1>2
    <2> HIDE DEF row
    <2>2. \A c \in DOMAIN row : row[c] = rows[k][c]
      BY <2>1, Zenon
    <2> QED
      BY <2>2 DEF Current, row
  <1> QED
    BY <1>1, <1>3, <1>4, Zenon DEF Writes

(* They join the socket. *)
Answered(q, C, K) ==
  /\ Extends(down, down') /\ down' \in Seq(Frame) /\ Len(down') = Len(down) + 2
  /\ down'[Len(down) + 1].t = "hello" /\ down'[Len(down) + 1].q = q /\ down'[Len(down) + 1].cols = C
  /\ IsBatch(down'[Len(down) + 2], q) /\ down'[Len(down) + 2].seq = 0
  /\ down'[Len(down) + 2].ops = [k \in K |-> [op |-> "add", row |-> [c \in C |-> rows[k][c]]]]
  /\ \A l \in DOMAIN down' : l \in DOMAIN down \/ l = Len(down) + 1 \/ ~IsHello(down'[l], q)
  /\ \A l \in DOMAIN down' : l \notin DOMAIN down => down'[l].q = q /\ \A k : Writes(down'[l], k) => Current(down'[l], k, rows[k])

LEMMA AnswerExtends ==
  ASSUME TypeOK, NEW q \in Query, NEW C \in SUBSET Col, NEW K \in SUBSET {k \in Key : rows[k] # NoRow},
         NEW e \in Nat, down' = down \o << Hello(q, e, C), Snapshot(q, e, C, K) >>
  PROVE  Answered(q, C, K)
  <1>1. down \in Seq(Frame)
    BY Zenon DEF TypeOK
  <1>2. Hello(q, e, C) \in Frame /\ Snapshot(q, e, C, K) \in Frame
    BY AnswerTypes, Zenon
  <1>3. PICK h \in Frame, s \in Frame : h = Hello(q, e, C) /\ s = Snapshot(q, e, C, K)
    BY <1>2, Zenon
  <1>4. down' = down \o <<h, s>>
    BY <1>3, Zenon
  <1>5. /\ h.t = "hello" /\ h.q = q /\ h.cols = C /\ s.t = "batch" /\ s.q = q /\ s.seq = 0
        /\ s.ops = [k \in K |-> [op |-> "add", row |-> [c \in C |-> rows[k][c]]]]
        /\ \A k : ~Writes(h, k)
        /\ \A k : Writes(s, k) => Current(s, k, rows[k])
    BY <1>3, AnswerFields
  <1> HIDE <1>3
  <1>6. /\ Extends(down, down') /\ down' \in Seq(Frame) /\ Len(down') = Len(down) + 2
        /\ down'[Len(down) + 1] = h /\ down'[Len(down) + 2] = s
        /\ \A l \in DOMAIN down' : l \in DOMAIN down \/ l = Len(down) + 1 \/ l = Len(down) + 2
    BY <1>1, <1>4, SMT DEF Extends
  <1>7. \A l \in DOMAIN down' : l \in DOMAIN down \/ l = Len(down) + 1 \/ ~IsHello(down'[l], q)
    BY <1>5, <1>6, Zenon DEF IsHello
  <1>8. \A l \in DOMAIN down' : l \in DOMAIN down \/ down'[l] \in {h, s}
    BY <1>6, Zenon
  <1>9. \A l \in DOMAIN down' : l \notin DOMAIN down => down'[l].q = q /\ \A k : Writes(down'[l], k) => Current(down'[l], k, rows[k])
    BY <1>5, <1>8, Zenon
  <1>10. /\ down'[Len(down) + 1].t = "hello" /\ down'[Len(down) + 1].q = q /\ down'[Len(down) + 1].cols = C
         /\ IsBatch(down'[Len(down) + 2], q) /\ down'[Len(down) + 2].seq = 0
         /\ down'[Len(down) + 2].ops = [k \in K |-> [op |-> "add", row |-> [c \in C |-> rows[k][c]]]]
    BY <1>5, <1>6, SMT DEF IsBatch
  <1> QED
    BY <1>6, <1>7, <1>9, <1>10, Zenon DEF Answered

LEMMA WroteOp ==
  ASSUME TypeOK, Served, NEW k \in Key, NEW new \in Row \cup {NoRow}, NEW in \in SUBSET serving,
         new = NoRow => in = {}, NEW p \in TouchedBy(k, new, in), NEW o, o = RowOp(p, k, new, in)
  PROVE  /\ p \in Query /\ p \in serving /\ o \in WireOp /\ DOMAIN o.row = layout[p]
         /\ o.op # "add" <=> k \in match[p]
         /\ o.op # "remove" <=> p \in in
         /\ o.op # "remove" => new # NoRow /\ \A c \in layout[p] : o.row[c] = new[c]
  <1>1. p \in Query /\ p \in serving /\ (k \notin match[p] => p \in in) /\ (p \in in => new # NoRow)
    BY SMT DEF TypeOK, TouchedBy
  <1>2. layout[p] \subseteq Col /\ rows[k] \in Row \cup {NoRow}
    BY <1>1, Zenon DEF TypeOK
  <1>3. ASSUME NEW row \in Row PROVE Project(p, row) \in WireRow
    <2>1. Project(p, row) \in [layout[p] -> Val]
      BY <1>2, <1>3, Zenon DEF Project, Row
    <2> QED
      BY <1>2, <2>1, Zenon DEF WireRow
  <1>4. \A row : DOMAIN Project(p, row) = layout[p] /\ \A c \in layout[p] : Project(p, row)[c] = row[c]
    BY Zenon DEF Project
  <1>5. CASE k \in match[p] /\ p \notin in
    <2>1. rows[k] # NoRow
      BY <1>1, <1>5, Zenon DEF Served
    <2>2. o = [op |-> "remove", row |-> Project(p, rows[k])]
      BY <1>5, Zenon DEF RowOp
    <2>3. o.op = "remove" /\ o.row = Project(p, rows[k])
      BY <2>2, SMT
    <2>4. o \in WireOp
      BY <1>2, <1>3, <2>1, <2>2, SMT DEF WireOp
    <2> QED
      BY <1>1, <1>4, <1>5, <2>3, <2>4, Zenon
  <1>6. CASE k \notin match[p]
    <2>1. o = [op |-> "add", row |-> Project(p, new)]
      BY <1>6, Zenon DEF RowOp
    <2>2. o.op = "add" /\ o.row = Project(p, new)
      BY <2>1, SMT
    <2>3. o \in WireOp
      BY <1>1, <1>3, <1>6, <2>1, SMT DEF WireOp
    <2>4. o.op # "remove" /\ p \in in /\ new # NoRow
      BY <1>1, <1>6, <2>2, SMT
    <2>5. DOMAIN o.row = layout[p] /\ \A c \in layout[p] : o.row[c] = new[c]
      BY <1>4, <2>2, Zenon
    <2> QED
      BY <1>1, <1>6, <2>2, <2>3, <2>4, <2>5, Zenon
  <1>7. CASE k \in match[p] /\ p \in in
    <2>1. o = [op |-> "edit", row |-> Project(p, new)]
      BY <1>7, Zenon DEF RowOp
    <2>2. o.op = "edit" /\ o.row = Project(p, new)
      BY <2>1, SMT
    <2>3. o \in WireOp
      BY <1>1, <1>3, <1>7, <2>1, SMT DEF WireOp
    <2> QED
      BY <1>1, <1>4, <1>7, <2>2, <2>3, ZenonT(30)
  <1> QED
    BY <1>5, <1>6, <1>7, Zenon

LEMMA WroteTypes ==
  ASSUME TypeOK, Served, NEW k \in Key, NEW new \in Row \cup {NoRow}, NEW in \in SUBSET serving,
         new = NoRow => in = {}, NEW p \in TouchedBy(k, new, in)
  PROVE  Wrote(k, new, in, p) \in Frame
  <1>1. p \in Query /\ RowOp(p, k, new, in) \in WireOp
    BY WroteOp, SMT
  <1>2. srvEpoch[p] \in Nat /\ srvSeq[p] \in Nat
    BY <1>1, Zenon DEF TypeOK
  <1>3. srvSeq[p] + 1 \in Nat
    BY <1>2, SMT
  <1>4. [x \in {k} |-> RowOp(p, k, new, in)] \in [{k} -> WireOp] /\ {k} \in SUBSET Key
    BY <1>1, Zenon
  <1>5. [x \in {k} |-> RowOp(p, k, new, in)] \in Ops
    BY <1>4, Zenon DEF Ops
  <1> QED
    BY <1>1, <1>2, <1>3, <1>5, Zenon DEF Wrote, Frame

IsOrder(order, S) ==
  /\ order \in Seq(S) /\ DOMAIN order = 1 .. Len(order) /\ Len(order) \in Nat
  /\ \A x \in S : \E i \in 1 .. Len(order) : \A j \in 1 .. Len(order) : order[j] = x <=> j = i

LEMMA OrderTypes == ASSUME NEW S, NEW order \in Orders(S) PROVE IsOrder(order, S)
  <1> DEFINE Of(n) == {o \in [1 .. n -> S] : \A x \in S : \E i \in 1 .. n : \A j \in 1 .. n : o[j] = x <=> j = i}
  <1>0. Orders(S) = UNION {Of(n) : n \in 0 .. MaxDown}
    BY DEF Orders
  <1>1. PICK n \in 0 .. MaxDown : order \in Of(n)
    <2> HIDE DEF Of
    <2> QED
      BY <1>0, Zenon
  <1>2. n \in Nat
    BY SMT, SyncAssumption
  <1>3. order \in Seq(S) /\ DOMAIN order = 1 .. n /\ Len(order) = n
    BY <1>1, <1>2, SMT
  <1> QED
    BY <1>1, <1>2, <1>3, Zenon DEF IsOrder

(* One batch for each query owed one joins the socket. *)
Joins(S, W) ==
  /\ Extends(down, down') /\ down' \in Seq(Frame)
  /\ \A l \in DOMAIN down' : l \in DOMAIN down \/ \E p \in S : down'[l] = W[p]
  /\ \A p \in S : \E z \in DOMAIN down' : /\ z \notin DOMAIN down /\ down'[z] = W[p]
                                          /\ \A l \in DOMAIN down' : l \notin DOMAIN down /\ l # z
                                               => \E r \in S : r # p /\ down'[l] = W[r]

LEMMA CommitExtends ==
  ASSUME TypeOK, NEW S, NEW W, \A p \in S : W[p] \in Frame, NEW order, IsOrder(order, S),
         down' = down \o [i \in DOMAIN order |-> W[order[i]]]
  PROVE  Joins(S, W)
  <1>1. /\ order \in Seq(S) /\ DOMAIN order = 1 .. Len(order) /\ Len(order) \in Nat
        /\ \A x \in S : \E i \in 1 .. Len(order) : \A j \in 1 .. Len(order) : order[j] = x <=> j = i
    BY Zenon DEF IsOrder
  <1> DEFINE a == [i \in DOMAIN order |-> W[order[i]]]
  <1>2. \A i \in 1 .. Len(order) : order[i] \in S
    BY <1>1, SMT
  <1>3. a \in [1 .. Len(order) -> Frame] /\ \A i \in 1 .. Len(order) : a[i] = W[order[i]]
    BY <1>1, <1>2, Zenon
  <1>4. a \in Seq(Frame) /\ Len(a) = Len(order)
    <2> HIDE DEF a
    <2> QED
      BY <1>1, <1>3, SMT
  <1>5. down \in Seq(Frame) /\ down' = down \o a
    BY Zenon DEF TypeOK
  <1> HIDE DEF a
  <1>6. /\ Extends(down, down') /\ down' \in Seq(Frame) /\ Len(down') = Len(down) + Len(order)
        /\ \A i \in 1 .. Len(order) : down'[Len(down) + i] = a[i]
    <2>1. /\ Extends(down, down \o a) /\ down \o a \in Seq(Frame) /\ Len(down \o a) = Len(down) + Len(a)
          /\ \A i \in 1 .. Len(a) : (down \o a)[Len(down) + i] = a[i]
      BY <1>4, <1>5, ConcatExtends, ZenonT(30)
    <2> QED
      BY <1>4, <1>5, <2>1, Zenon
  <1>7. \A l \in DOMAIN down' : l \notin DOMAIN down => l - Len(down) \in 1 .. Len(order) /\ l = Len(down) + (l - Len(down))
    BY <1>1, <1>6, SMT DEF Extends
  <1>8. \A i \in 1 .. Len(order) : Len(down) + i \in DOMAIN down' /\ Len(down) + i \notin DOMAIN down
    BY <1>1, <1>6, SMT DEF Extends
  <1>9. ASSUME NEW l \in DOMAIN down', l \notin DOMAIN down
        PROVE  \E p \in S : down'[l] = W[p]
    <2>1. l - Len(down) \in 1 .. Len(order) /\ l = Len(down) + (l - Len(down))
      BY <1>7, <1>9, Zenon
    <2>2. down'[l] = W[order[l - Len(down)]] /\ order[l - Len(down)] \in S
      BY <1>2, <1>3, <1>6, <2>1, Zenon
    <2> QED
      BY <2>2, Zenon
  <1>10. ASSUME NEW p \in S
         PROVE  \E z \in DOMAIN down' : /\ z \notin DOMAIN down /\ down'[z] = W[p]
                                        /\ \A l \in DOMAIN down' : l \notin DOMAIN down /\ l # z
                                             => \E r \in S : r # p /\ down'[l] = W[r]
    <2>1. PICK i \in 1 .. Len(order) : \A j \in 1 .. Len(order) : order[j] = p <=> j = i
      BY <1>1, Zenon
    <2>2. down'[Len(down) + i] = W[p]
      BY <1>3, <1>6, <2>1, Zenon
    <2>3. ASSUME NEW l \in DOMAIN down', l \notin DOMAIN down, l # Len(down) + i
          PROVE  \E r \in S : r # p /\ down'[l] = W[r]
      <3>1. l - Len(down) \in 1 .. Len(order) /\ l = Len(down) + (l - Len(down)) /\ l - Len(down) # i
        BY <1>7, <2>3, Zenon
      <3>2. down'[l] = W[order[l - Len(down)]] /\ order[l - Len(down)] # p /\ order[l - Len(down)] \in S
        BY <1>2, <1>3, <1>6, <2>1, <3>1, Zenon
      <3> QED
        BY <3>2, Zenon
    <2>4. Len(down) + i \in DOMAIN down' /\ Len(down) + i \notin DOMAIN down
      BY <1>8, Zenon
    <2> WITNESS Len(down) + i \in DOMAIN down'
    <2> QED
      BY <2>2, <2>3, <2>4, Zenon
  <1> QED
    BY <1>6, <1>9, <1>10, Zenon DEF Joins

-----------------------------------------------------------------------------
(* Steps of the server. *)

LEMMA LivesServer ==
  ASSUME TypeOK, Lives, UNCHANGED srcVars, up' = up \/ (up # <<>> /\ up' = Tail(up))
  PROVE  Lives'
  <1>1. UNCHANGED <<subs, life, phase, lastSeq>>
    BY Zenon DEF srcVars
  <1>2. ASSUME NEW i \in DOMAIN up', up'[i].t = "unsubscribe" PROVE life'[up'[i].q] = "gone"
    <2>1. PICK j \in DOMAIN up : up'[i] = up[j]
      BY UpTypes, Zenon
    <2>2. up[j].t = "unsubscribe"
      BY <1>2, <2>1, Zenon
    <2> QED
      BY <1>1, <2>1, <2>2, Zenon DEF Lives
  <1>3. \A i \in DOMAIN up' : up'[i].t = "unsubscribe" => life'[up'[i].q] = "gone"
    BY <1>2, Zenon
  <1> QED
    BY <1>1, <1>3, Zenon DEF Lives, Listens

(* The server gives q up; the others stream on. *)
LEMMA GivenUp ==
  ASSUME StreamInv, NEW q \in Query, Deregister(q), rows' = rows,
         \A p \in Query : p # q => layout'[p] = layout[p],
         UNCHANGED <<srcVars, syncVars>>, Extends(down, down'), \A p : Quiet(p),
         \A k : \A l \in DOMAIN down' : l \in DOMAIN down \/ ~Writes(down'[l], k)
  PROVE  Served' /\ \A p \in Query : Stream(p)'
  <1>1. TypeOK /\ Served
    BY Parts, Zenon
  <1>2. /\ q \notin serving' /\ match'[q] = {}
        /\ \A p \in Query : p # q => /\ p \in serving' <=> p \in serving
                                     /\ match'[p] = match[p] /\ srvSeq'[p] = srvSeq[p]
    BY <1>1, DeregisterTypes, Zenon
  <1>3. Served'
    <2> SUFFICES ASSUME NEW p \in Query
                 PROVE  (p \notin serving' => match'[p] = {}) /\ \A k \in match'[p] : rows'[k] # NoRow
      BY Zenon DEF Served, NoRow
    <2>1. CASE p = q
      BY <1>2, <2>1, Zenon
    <2>2. CASE p # q
      BY <1>1, <1>2, <2>2, Zenon DEF Served
    <2> QED
      BY <2>1, <2>2, Zenon
  <1>4. UNCHANGED <<phase, lastSeq, syncVars>>
    BY Zenon DEF srcVars
  <1>5. ASSUME NEW p \in Query PROVE Stream(p)'
    <2>1. ServerStands(p)
      BY <1>2, Zenon DEF ServerStands
    <2>2. Stream(p) /\ SeqNats(p) /\ ClientStands(p)
      BY <1>4, Parts, SameStands, Zenon
    <2> QED
      BY <2>1, <2>2, QuietStream, Zenon
  <1> QED
    BY <1>3, <1>5, Zenon

LEMMA FaultStep ==
  ASSUME StreamInv, NEW q \in Query, Fault(q)
  PROVE  TypeOK' /\ Lives' /\ Served' /\ \A p \in Query : Stream(p)'
  <1>1. TypeOK /\ Lives
    BY Parts, Zenon
  <1>2. /\ troubles' = troubles + 1 /\ Deregister(q)
        /\ down' = Append(down, [t |-> "error", q |-> q, retryable |-> TRUE])
    BY Zenon DEF Fault
  <1>3. UNCHANGED <<rows, layout, commits, up, srcVars, syncVars>>
    BY Zenon DEF Fault
  <1>4. /\ Extends(down, down') /\ down' \in Seq(Frame) /\ \A p : Quiet(p)
        /\ \A k : \A l \in DOMAIN down' : l \in DOMAIN down \/ ~Writes(down'[l], k)
    BY <1>1, <1>2, ErrorExtends, Zenon
  <1>5. Served' /\ \A p \in Query : Stream(p)'
    BY <1>2, <1>3, <1>4, GivenUp, Zenon
  <1>6. Lives'
    BY <1>1, <1>3, LivesServer, Zenon
  <1>7. troubles' \in Nat
    BY <1>1, <1>2, SMT DEF TypeOK
  <1>8. /\ serving' \in SUBSET Query /\ match' \in [Query -> SUBSET Key]
        /\ srvEpoch' \in [Query -> Nat] /\ srvSeq' \in [Query -> Nat]
    BY <1>1, <1>2, DeregisterTypes, Zenon
  <1>9. TypeOK'
    BY <1>1, <1>3, <1>4, <1>7, <1>8, Zenon DEF TypeOK, srcVars, syncVars
  <1> QED
    BY <1>5, <1>6, <1>9, Zenon

LEMMA UnsubscribedStep ==
  ASSUME StreamInv, Unsubscribed
  PROVE  TypeOK' /\ Lives' /\ Served' /\ \A p \in Query : Stream(p)'
  <1>1. TypeOK /\ Lives
    BY Parts, Zenon
  <1>2. up # <<>> /\ up' = Tail(up) /\ Deregister(Head(up).q) /\ layout' = [layout EXCEPT ![Head(up).q] = {}]
    BY Zenon DEF Unsubscribed
  <1>3. UNCHANGED <<rows, commits, troubles, down, srcVars, syncVars>>
    BY Zenon DEF Unsubscribed
  <1>4. Head(up).q \in Query /\ up' \in Seq([t: {"subscribe", "unsubscribe"}, q: Query])
    BY <1>1, <1>2, UpTypes, Zenon
  <1>5. /\ layout' \in [Query -> SUBSET Col]
        /\ \A p \in Query : p # Head(up).q => layout'[p] = layout[p]
    BY <1>1, <1>2, <1>4, Zenon DEF TypeOK
  <1>6. down' = down /\ rows' = rows /\ UNCHANGED <<srcVars, syncVars>>
    BY <1>3, Zenon
  <1>7. Extends(down, down') /\ \A p : Quiet(p)
    BY <1>1, <1>6, SameExtends, Zenon
  <1>8. \A k : \A l \in DOMAIN down' : l \in DOMAIN down \/ ~Writes(down'[l], k)
    BY <1>6, Zenon
  <1>9. Served' /\ \A p \in Query : Stream(p)'
    BY <1>2, <1>4, <1>5, <1>6, <1>7, <1>8, GivenUp, Zenon
  <1>10. Lives'
    BY <1>1, <1>2, <1>6, LivesServer, Zenon
  <1>11. /\ serving' \in SUBSET Query /\ match' \in [Query -> SUBSET Key]
         /\ srvEpoch' \in [Query -> Nat] /\ srvSeq' \in [Query -> Nat]
    BY <1>1, <1>2, <1>4, DeregisterTypes, Zenon
  <1>12. TypeOK'
    BY <1>1, <1>3, <1>4, <1>5, <1>11, Zenon DEF TypeOK, srcVars, syncVars
  <1> QED
    BY <1>9, <1>10, <1>12, Zenon

LEMMA LoseStep ==
  ASSUME StreamInv, Lose
  PROVE  TypeOK' /\ Lives' /\ Served' /\ \A p \in Query : Stream(p)'
  <1>1. TypeOK /\ Lives /\ Served
    BY Parts, Zenon
  <1>2. PICK r \in DOMAIN down : down[r].t = "batch" /\ down' = Without(down, r)
    BY Zenon DEF Lose
  <1>3. troubles' = troubles + 1 /\ UNCHANGED <<srvVars, up, srcVars, syncVars>>
    BY Zenon DEF Lose
  <1>4. down \in Seq(Frame)
    BY <1>1, Zenon DEF TypeOK
  <1>5. Drops(down, down', r) /\ down' \in Seq(Frame)
    BY <1>2, <1>4, WithoutDrops, Zenon
  <1>6. UNCHANGED <<rows, match, serving, srvVars, cell, phase, lastSeq, syncVars>>
    BY <1>3, Zenon DEF srvVars, srcVars, syncVars
  <1>7. ASSUME NEW p \in Query PROVE Stream(p)'
    <2>1. ~IsHello(down[r], p)
      BY <1>2, Zenon DEF IsHello
    <2> QED
      BY <1>5, <1>6, <2>1, DropsStream, SameStands, Zenon
  <1>8. troubles' \in Nat
    BY <1>1, <1>3, SMT DEF TypeOK
  <1>9. TypeOK'
    BY <1>1, <1>3, <1>5, <1>8, Zenon DEF TypeOK, srvVars, srcVars, syncVars
  <1>10. Lives'
    BY <1>1, <1>3, LivesServer, Zenon
  <1> QED
    BY <1>1, <1>6, <1>7, <1>9, <1>10, ServedSame, Zenon

LEMMA AnswerStep ==
  ASSUME StreamInv, Answer
  PROVE  TypeOK' /\ Lives' /\ Served' /\ \A p \in Query : Stream(p)'
  <1>1. TypeOK /\ Lives /\ Served
    BY Parts, Zenon
  <1>2. up # <<>> /\ up' = Tail(up)
    BY Zenon DEF Answer
  <1>3. UNCHANGED <<rows, commits, srcVars, syncVars>>
    BY Zenon DEF Answer
  <1>4. Head(up).q \in Query /\ up' \in Seq([t: {"subscribe", "unsubscribe"}, q: Query])
    BY <1>1, <1>2, UpTypes, Zenon
  <1>5. PICK q \in Query : q = Head(up).q
    BY <1>4, Zenon
  <1>6. Lives'
    BY <1>1, <1>2, <1>3, LivesServer, Zenon
  <1>7. rows' = rows /\ UNCHANGED <<srcVars, syncVars>> /\ UNCHANGED <<phase, lastSeq, foot, qcols, cell, syncVars>>
    BY <1>3, Zenon DEF srcVars, syncVars
  <1>8. ASSUME NEW C \in SUBSET Col, NEW K \in SUBSET {k \in Key : rows[k] # NoRow},
               match' = [match EXCEPT ![q] = K], layout' = [layout EXCEPT ![q] = C],
               serving' = serving \cup {q}, srvEpoch' = [srvEpoch EXCEPT ![q] = srvEpoch[q] + 1],
               srvSeq' = [srvSeq EXCEPT ![q] = 0], troubles' = troubles,
               down' = down \o << Hello(q, srvEpoch[q] + 1, C), Snapshot(q, srvEpoch[q] + 1, C, K) >>
        PROVE  TypeOK' /\ Served' /\ \A p \in Query : Stream(p)'
    <2>1. PICK e \in Nat : e = srvEpoch[q] + 1
      <3>1. srvEpoch[q] \in Nat
        BY <1>1, Zenon DEF TypeOK
      <3> QED
        BY <3>1, SMT
    <2>2. Answered(q, C, K)
      BY <1>1, <1>8, <2>1, AnswerExtends, Zenon
    <2>3. 0 \in Nat
      BY SMT
    <2>4. /\ match' \in [Query -> SUBSET Key] /\ layout' \in [Query -> SUBSET Col] /\ serving' \in SUBSET Query
          /\ srvSeq' \in [Query -> Nat]
      BY <1>1, <1>8, <2>3, Zenon DEF TypeOK
    <2>5. srvEpoch' \in [Query -> Nat]
      BY <1>1, <1>8, <2>1, Zenon DEF TypeOK
    <2>6. /\ match'[q] = K /\ layout'[q] = C /\ srvSeq'[q] = 0
          /\ \A p \in Query : p # q => /\ match'[p] = match[p] /\ layout'[p] = layout[p] /\ srvSeq'[p] = srvSeq[p]
                                       /\ p \in serving' <=> p \in serving
      BY <1>1, <1>8, Zenon DEF TypeOK
    <2>7. TypeOK'
      BY <1>1, <1>3, <1>4, <1>8, <2>2, <2>4, <2>5, Zenon DEF TypeOK, Answered, srcVars, syncVars
    <2>8. Served'
      <3> SUFFICES ASSUME NEW p \in Query
                   PROVE  (p \notin serving' => match'[p] = {}) /\ \A k \in match'[p] : rows'[k] # NoRow
        BY Zenon DEF Served, NoRow
      <3>1. CASE p = q
        BY <1>7, <1>8, <2>6, <3>1, Zenon
      <3>2. CASE p # q
        BY <1>1, <1>7, <2>6, <3>2, Zenon DEF Served
      <3> QED
        BY <3>1, <3>2, Zenon
    <2>9. Stream(q)'
      <3>1. Stream(q) /\ SeqNats(q)
        BY Parts, Zenon
      <3> QED
        BY <1>7, <2>2, <2>6, <3>1, AnsweredStream DEF Answered
    <2>10. ASSUME NEW p \in Query, p # q PROVE Stream(p)'
      <3>1. Stream(p) /\ SeqNats(p) /\ ClientStands(p)
        BY <1>7, Parts, SameStands, Zenon
      <3>2. Quiet(p)
        BY <2>2, <2>10, Zenon DEF Answered, Quiet, IsHello, IsBatch
      <3>3. ASSUME NEW l \in DOMAIN down', NEW k, l \notin DOMAIN down, Writes(down'[l], k)
            PROVE  Current(down'[l], k, rows'[k])
        BY <1>7, <2>2, <3>3, Zenon DEF Answered
      <3>4. ServerStands(p)
        BY <1>7, <2>6, <2>10, <3>3, Zenon DEF ServerStands
      <3> QED
        BY <2>2, <3>1, <3>2, <3>4, QuietStream, Zenon DEF Answered
    <2> QED
      BY <2>7, <2>8, <2>9, <2>10, Zenon
  <1>9. ASSUME NEW r \in BOOLEAN, troubles' = troubles + 1, Deregister(q), layout' = layout,
               down' = Append(down, [t |-> "error", q |-> q, retryable |-> r])
        PROVE  TypeOK' /\ Served' /\ \A p \in Query : Stream(p)'
    <2>1. /\ Extends(down, down') /\ down' \in Seq(Frame) /\ \A p : Quiet(p)
          /\ \A k : \A l \in DOMAIN down' : l \in DOMAIN down \/ ~Writes(down'[l], k)
      BY <1>1, <1>9, ErrorExtends, Zenon
    <2>2. Served' /\ \A p \in Query : Stream(p)'
      BY <1>7, <1>9, <2>1, GivenUp, Zenon
    <2>3. troubles' \in Nat
      BY <1>1, <1>9, SMT DEF TypeOK
    <2>4. /\ serving' \in SUBSET Query /\ match' \in [Query -> SUBSET Key]
          /\ srvEpoch' \in [Query -> Nat] /\ srvSeq' \in [Query -> Nat]
      BY <1>1, <1>9, DeregisterTypes, Zenon
    <2>5. TypeOK'
      BY <1>1, <1>3, <1>4, <1>9, <2>1, <2>3, <2>4, Zenon DEF TypeOK, srcVars, syncVars
    <2> QED
      BY <2>2, <2>5, Zenon
  <1>10. \/ \E C \in SUBSET Col, K \in SUBSET {k \in Key : rows[k] # NoRow} :
              /\ match' = [match EXCEPT ![q] = K] /\ layout' = [layout EXCEPT ![q] = C]
              /\ serving' = serving \cup {q} /\ srvEpoch' = [srvEpoch EXCEPT ![q] = srvEpoch[q] + 1]
              /\ srvSeq' = [srvSeq EXCEPT ![q] = 0] /\ troubles' = troubles
              /\ down' = down \o << Hello(q, srvEpoch[q] + 1, C), Snapshot(q, srvEpoch[q] + 1, C, K) >>
         \/ \E r \in BOOLEAN :
              /\ troubles' = troubles + 1 /\ Deregister(q) /\ layout' = layout
              /\ down' = Append(down, [t |-> "error", q |-> q, retryable |-> r])
    BY <1>5, Zenon DEF Answer, Hello, Snapshot
  <1> QED
    BY <1>6, <1>8, <1>9, <1>10, Zenon

(* What the batch of a transaction says. *)
Says(f, k, new, in, p) ==
  /\ f.t = "batch" /\ f.q = p /\ f.seq = srvSeq[p] + 1
  /\ DOMAIN f.ops = {k} /\ DOMAIN f.ops[k].row = layout[p]
  /\ f.ops[k].op # "add" <=> k \in match[p]
  /\ f.ops[k].op # "remove" <=> p \in in
  /\ f.ops[k].op # "remove" => \A c \in layout[p] : f.ops[k].row[c] = new[c]

LEMMA WroteSays ==
  ASSUME TypeOK, Served, NEW k \in Key, NEW new \in Row \cup {NoRow}, NEW in \in SUBSET serving,
         new = NoRow => in = {}, NEW p \in TouchedBy(k, new, in)
  PROVE  Says(Wrote(k, new, in, p), k, new, in, p)
  <1>1. PICK o : o = RowOp(p, k, new, in)
    BY Zenon
  <1>2. /\ DOMAIN o.row = layout[p]
        /\ o.op # "add" <=> k \in match[p]
        /\ o.op # "remove" <=> p \in in
        /\ o.op # "remove" => \A c \in layout[p] : o.row[c] = new[c]
    BY <1>1, WroteOp, SMT
  <1>3. Wrote(k, new, in, p) = [t |-> "batch", q |-> p, epoch |-> srvEpoch[p], seq |-> srvSeq[p] + 1,
                                ops |-> [x \in {k} |-> o]]
    BY <1>1 DEF Wrote
  <1> HIDE <1>1
  <1>4. PICK f : f = Wrote(k, new, in, p)
    BY Zenon
  <1>5. f.t = "batch" /\ f.q = p /\ f.seq = srvSeq[p] + 1 /\ f.ops = [x \in {k} |-> o]
    BY <1>3, <1>4, SMT
  <1>6. DOMAIN f.ops = {k} /\ f.ops[k] = o
    BY <1>5, SMT
  <1>7. Says(f, k, new, in, p)
    <2> HIDE <1>4
    <2> QED
      BY <1>2, <1>5, <1>6, Zenon DEF Says
  <1> QED
    BY <1>4, <1>7

(* The batches of a transaction join the socket, one for each query in S. *)
Sends(S, k, new, in) ==
  /\ Extends(down, down') /\ down' \in Seq(Frame)
  /\ \A l \in DOMAIN down' : l \notin DOMAIN down => \E p \in S : Says(down'[l], k, new, in, p)
  /\ \A p \in S : \E z \in DOMAIN down' :
       /\ z \notin DOMAIN down /\ Says(down'[z], k, new, in, p)
       /\ \A l \in DOMAIN down' : l \notin DOMAIN down /\ l # z => down'[l].q # p

LEMMA JoinSends ==
  ASSUME NEW S, NEW W, NEW k, NEW new, NEW in, \A p \in S : Says(W[p], k, new, in, p), Joins(S, W)
  PROVE  Sends(S, k, new, in)
  <1>1. \A l \in DOMAIN down' : l \notin DOMAIN down => \E p \in S : Says(down'[l], k, new, in, p)
    BY Zenon DEF Joins
  <1>2. ASSUME NEW p \in S
        PROVE  \E z \in DOMAIN down' :
                 /\ z \notin DOMAIN down /\ Says(down'[z], k, new, in, p)
                 /\ \A l \in DOMAIN down' : l \notin DOMAIN down /\ l # z => down'[l].q # p
    <2>1. PICK z \in DOMAIN down' : /\ z \notin DOMAIN down /\ down'[z] = W[p]
                                    /\ \A l \in DOMAIN down' : l \notin DOMAIN down /\ l # z
                                         => \E r \in S : r # p /\ down'[l] = W[r]
      BY Zenon DEF Joins
    <2>2. \A r \in S : W[r].q = r
      BY Zenon DEF Says
    <2>3. ASSUME NEW l \in DOMAIN down', l \notin DOMAIN down, l # z PROVE down'[l].q # p
      <3>1. PICK r \in S : r # p /\ down'[l] = W[r]
        BY <2>1, <2>3, Zenon
      <3>2. down'[l].q = r
        BY <2>2, <3>1, Zenon
      <3> QED
        BY <3>1, <3>2, Zenon
    <2>4. Says(down'[z], k, new, in, p)
      BY <2>1, Zenon
    <2> QED
      BY <2>1, <2>3, <2>4, Zenon
  <1> QED
    BY <1>1, <1>2, Zenon DEF Joins, Sends

LEMMA CommitSends ==
  ASSUME TypeOK, Served, NEW k \in Key, NEW new \in Row \cup {NoRow}, NEW in \in SUBSET serving,
         new = NoRow => in = {}, NEW S, S = TouchedBy(k, new, in), NEW order \in Orders(S),
         down' = down \o [i \in DOMAIN order |-> Wrote(k, new, in, order[i])]
  PROVE  Sends(S, k, new, in)
  <1>1. PICK W : W = [p \in S |-> Wrote(k, new, in, p)]
    BY Zenon
  <1>2. \A p \in S : Wrote(k, new, in, p) \in Frame /\ Says(Wrote(k, new, in, p), k, new, in, p)
    BY WroteTypes, WroteSays, Zenon
  <1>3. \A p \in S : W[p] \in Frame /\ Says(W[p], k, new, in, p)
    BY <1>1, <1>2, Zenon
  <1>4. IsOrder(order, S)
    BY OrderTypes
  <1>5. \A i \in DOMAIN order : order[i] \in S
    BY <1>4, SMT DEF IsOrder
  <1>6. [i \in DOMAIN order |-> Wrote(k, new, in, order[i])] = [i \in DOMAIN order |-> W[order[i]]]
    BY <1>1, <1>5
  <1>7. down' = down \o [i \in DOMAIN order |-> W[order[i]]]
    BY <1>6, Zenon
  <1> HIDE <1>1
  <1>8. Joins(S, W)
    BY <1>3, <1>4, <1>7, CommitExtends, Zenon
  <1> QED
    BY <1>3, <1>8, JoinSends

(* The server's side of a transaction. *)
Commits(k, new, in, S) ==
  /\ commits' = commits + 1 /\ (new = NoRow => in = {})
  /\ rows' = [rows EXCEPT ![k] = new]
  /\ match' = [q \in Query |-> IF q \in serving
                                 THEN IF q \in in THEN match[q] \cup {k} ELSE match[q] \ {k}
                                 ELSE match[q]]
  /\ srvSeq' = [q \in Query |-> IF q \in S THEN srvSeq[q] + 1 ELSE srvSeq[q]]
  /\ \E order \in Orders(S) : down' = down \o [i \in DOMAIN order |-> Wrote(k, new, in, order[i])]

(* What it changes. *)
Changes(k, new, in, S) ==
  /\ \A x \in Key : x # k => rows'[x] = rows[x]
  /\ rows'[k] = new /\ (in # {} => new # NoRow)
  /\ \A q \in Query : /\ q \notin S => srvSeq'[q] = srvSeq[q] /\ match'[q] = match[q]
                      /\ q \notin S /\ k \in match[q] => rows[k] = new
                      /\ q \in S => q \in serving /\ srvSeq'[q] = srvSeq[q] + 1 /\ (k \in match'[q] <=> q \in in)
                      /\ \A x \in Key : x # k => (x \in match'[q] <=> x \in match[q])
                      /\ k \in match'[q] => new # NoRow
                      /\ q \notin serving => match'[q] = match[q]

LEMMA CommitChanges ==
  ASSUME TypeOK, Served, NEW k \in Key, NEW new \in Row \cup {NoRow}, NEW in \in SUBSET serving,
         NEW S, S = TouchedBy(k, new, in), Commits(k, new, in, S)
  PROVE  Changes(k, new, in, S)
  <1>1. /\ rows' = [rows EXCEPT ![k] = new] /\ (new = NoRow => in = {})
        /\ match' = [q \in Query |-> IF q \in serving
                                       THEN IF q \in in THEN match[q] \cup {k} ELSE match[q] \ {k}
                                       ELSE match[q]]
        /\ srvSeq' = [q \in Query |-> IF q \in S THEN srvSeq[q] + 1 ELSE srvSeq[q]]
    BY Zenon DEF Commits
  <1>2. rows'[k] = new /\ \A x \in Key : x # k => rows'[x] = rows[x]
    BY <1>1, Zenon DEF TypeOK
  <1>3. ASSUME NEW q \in Query
        PROVE  /\ q \notin S => srvSeq'[q] = srvSeq[q] /\ match'[q] = match[q]
               /\ q \notin S /\ k \in match[q] => rows[k] = new
               /\ q \in S => q \in serving /\ srvSeq'[q] = srvSeq[q] + 1 /\ (k \in match'[q] <=> q \in in)
               /\ \A x \in Key : x # k => (x \in match'[q] <=> x \in match[q])
               /\ k \in match'[q] => new # NoRow
               /\ q \notin serving => match'[q] = match[q]
    <2>1. q \in S <=> q \in serving /\ ((k \in match[q]) # (q \in in) \/ (q \in in /\ rows[k] # new))
      BY SMT DEF TouchedBy
    <2>2. srvSeq'[q] = IF q \in S THEN srvSeq[q] + 1 ELSE srvSeq[q]
      BY <1>1, Zenon
    <2>3. CASE q \notin serving
      <3>1. match'[q] = match[q] /\ match[q] = {}
        BY <1>1, <2>3, Zenon DEF Served
      <3> QED
        BY <2>1, <2>2, <2>3, <3>1, Zenon
    <2>4. CASE q \in serving /\ q \in in
      <3>1. match'[q] = match[q] \cup {k} /\ new # NoRow
        BY <1>1, <2>4, Zenon
      <3>2. q \in S <=> k \notin match[q] \/ rows[k] # new
        BY <2>1, <2>4, SMT
      <3>3. q \notin S => match'[q] = match[q]
        BY <3>1, <3>2, Zenon
      <3> QED
        BY <2>2, <2>4, <3>1, <3>2, <3>3, Zenon
    <2>5. CASE q \in serving /\ q \notin in
      <3>1. match'[q] = match[q] \ {k}
        BY <1>1, <2>5, Zenon
      <3>2. q \in S <=> k \in match[q]
        BY <2>1, <2>5, SMT
      <3>3. q \notin S => match'[q] = match[q]
        BY <3>1, <3>2, Zenon
      <3> QED
        BY <2>2, <2>5, <3>1, <3>2, <3>3, Zenon
    <2> QED
      BY <2>3, <2>4, <2>5, Zenon
  <1>4. in # {} => new # NoRow
    BY <1>1, Zenon
  <1> QED
    BY <1>2, <1>3, <1>4, Zenon DEF Changes

LEMMA TouchedStream ==
  ASSUME StreamInv, NEW k \in Key, NEW new, NEW in, NEW S, NEW q \in S, q \in Query,
         Changes(k, new, in, S), Sends(S, k, new, in), UNCHANGED <<layout, phase, lastSeq, foot, qcols, cell>>
  PROVE  Stream(q)'
  <1>1. Stream(q) /\ SeqNats(q) /\ q \in serving
    BY Parts, Zenon DEF Changes
  <1>2. PICK z \in DOMAIN down' : /\ z \notin DOMAIN down /\ Says(down'[z], k, new, in, q)
                                  /\ \A l \in DOMAIN down' : l \notin DOMAIN down /\ l # z => down'[l].q # q
    BY Zenon DEF Sends
  <1>3. PICK n0 \in Nat : n0 = srvSeq[q]
    BY <1>1, Zenon DEF SeqNats
  <1>4. /\ IsBatch(down'[z], q) /\ down'[z].seq = n0 + 1
        /\ DOMAIN down'[z].ops = {k} /\ DOMAIN down'[z].ops[k].row = layout[q]
        /\ down'[z].ops[k].op # "add" <=> k \in match[q]
        /\ down'[z].ops[k].op # "remove" <=> q \in in
    BY <1>2, <1>3, Zenon DEF Says, IsBatch
  <1>5. k \in match'[q] <=> q \in in
    BY Zenon DEF Changes
  <1>6. \A l \in DOMAIN down' : l \notin DOMAIN down => down'[l].t = "batch"
    BY Zenon DEF Sends, Says
  <1>7. \A l \in DOMAIN down' : l \notin DOMAIN down => ~IsHello(down'[l], q) /\ (IsBatch(down'[l], q) => l = z)
    BY <1>2, <1>6, Zenon DEF IsHello, IsBatch
  <1>8. ASSUME NEW l \in DOMAIN down', NEW x \in Key, l \notin DOMAIN down, Writes(down'[l], x)
        PROVE  x = k /\ Current(down'[l], k, rows'[k])
    <2>1. PICK p \in S : Says(down'[l], k, new, in, p)
      BY <1>8, Zenon DEF Sends
    <2>2. x = k /\ rows'[k] = new
      BY <1>8, <2>1, Zenon DEF Writes, Says, Changes
    <2> QED
      BY <1>8, <2>1, <2>2, Zenon DEF Writes, Says, Current
  <1>9. \A x \in Key : x # k => rows'[x] = rows[x] /\ (x \in match'[q] <=> x \in match[q])
    BY Zenon DEF Changes
  <1>10. srvSeq[q] = n0 /\ srvSeq'[q] = n0 + 1
    BY <1>3, Zenon DEF Changes
  <1>11. Touches(q, k, z, n0)
    BY <1>2, <1>4, <1>5, <1>7, <1>8, <1>9, <1>10, Zenon DEF Touches
  <1>12. Extends(down, down') /\ layout'[q] = layout[q] /\ UNCHANGED <<phase, lastSeq, foot, qcols, cell>>
    BY Zenon DEF Sends
  <1> QED
    BY <1>1, <1>11, <1>12, CommittedStream, Zenon

LEMMA UntouchedStream ==
  ASSUME StreamInv, NEW k \in Key, NEW new, NEW in, NEW S, NEW q \in Query, q \notin S,
         Changes(k, new, in, S), Sends(S, k, new, in), UNCHANGED <<layout, serving, phase, lastSeq, syncVars>>
  PROVE  Stream(q)'
  <1>1. Stream(q) /\ SeqNats(q) /\ match[q] \subseteq Key
    BY Parts, Zenon DEF TypeOK
  <1>2. Extends(down, down') /\ \A l \in DOMAIN down' : l \notin DOMAIN down => \E p \in S : Says(down'[l], k, new, in, p)
    BY Zenon DEF Sends
  <1>3. Quiet(q)
    BY <1>2, Zenon DEF Quiet, IsHello, IsBatch, Says
  <1>4. ClientStands(q)
    BY SameStands, Zenon
  <1>5. match'[q] = match[q] /\ srvSeq'[q] = srvSeq[q] /\ layout'[q] = layout[q] /\ rows'[k] = new
    BY Zenon DEF Changes
  <1>6. \A x \in match[q] : rows'[x] = rows[x]
    BY <1>1, Zenon DEF Changes
  <1>7. ASSUME NEW l \in DOMAIN down', NEW x \in match[q], l \notin DOMAIN down, Writes(down'[l], x)
        PROVE  Current(down'[l], x, rows'[x])
    <2>1. PICK p \in S : Says(down'[l], k, new, in, p)
      BY <1>2, <1>7, Zenon
    <2>2. x = k
      BY <1>7, <2>1, Zenon DEF Writes, Says
    <2> QED
      BY <1>5, <1>7, <2>1, <2>2, Zenon DEF Writes, Says, Current
  <1>8. ServerStands(q)
    BY <1>5, <1>6, <1>7, Zenon DEF ServerStands
  <1> QED
    BY <1>1, <1>2, <1>3, <1>4, <1>8, QuietStream, Zenon

LEMMA CommitStep ==
  ASSUME StreamInv, Commit
  PROVE  TypeOK' /\ Lives' /\ Served' /\ \A p \in Query : Stream(p)'
  <1>1. TypeOK /\ Lives /\ Served
    BY Parts, Zenon
  <1>2. PICK k \in Key, new \in Row \cup {NoRow}, in \in SUBSET serving : WriteRow(k, new, in)
    BY Zenon DEF Commit
  <1>3. PICK S : S = TouchedBy(k, new, in)
    BY Zenon
  <1>4. UNCHANGED <<serving, layout, srvEpoch, troubles, up, srcVars, syncVars>>
    BY <1>2, Zenon DEF WriteRow
  <1>5. Commits(k, new, in, S)
    BY <1>2, <1>3, Zenon DEF WriteRow, Commits
  <1>6. Changes(k, new, in, S)
    BY <1>1, <1>3, <1>5, CommitChanges, SMT
  <1>7. Sends(S, k, new, in)
    <2>1. PICK order \in Orders(S) : down' = down \o [i \in DOMAIN order |-> Wrote(k, new, in, order[i])]
      BY <1>5, Zenon DEF Commits
    <2>2. new = NoRow => in = {}
      BY <1>5, Zenon DEF Commits
    <2> QED
      BY <1>1, <1>3, <2>1, <2>2, CommitSends, Zenon
  <1>8. /\ commits' = commits + 1
        /\ rows' = [rows EXCEPT ![k] = new]
        /\ match' = [q \in Query |-> IF q \in serving
                                       THEN IF q \in in THEN match[q] \cup {k} ELSE match[q] \ {k}
                                       ELSE match[q]]
        /\ srvSeq' = [q \in Query |-> IF q \in S THEN srvSeq[q] + 1 ELSE srvSeq[q]]
    BY <1>5, Zenon DEF Commits
  <1> HIDE <1>2, <1>3
  <1>9. TypeOK'
    <2>1. commits' \in Nat /\ srvSeq' \in [Query -> Nat]
      BY <1>1, <1>8, SMT DEF TypeOK
    <2>2. rows' \in [Key -> Row \cup {NoRow}] /\ match' \in [Query -> SUBSET Key]
      BY <1>1, <1>8, Zenon DEF TypeOK
    <2>3. down' \in Seq(Frame)
      BY <1>7, Zenon DEF Sends
    <2> QED
      BY <1>1, <1>4, <2>1, <2>2, <2>3, ZenonT(30) DEF TypeOK, srcVars, syncVars
  <1>10. Lives'
    BY <1>1, <1>4, LivesServer, Zenon
  <1>11. Served'
    <2> SUFFICES ASSUME NEW q \in Query
                 PROVE  (q \notin serving => match'[q] = {}) /\ \A x \in match'[q] : rows'[x] # NoRow
      BY <1>4, Zenon DEF Served, NoRow
    <2>1. q \notin serving => match'[q] = {}
      BY <1>1, <1>6, Zenon DEF Served, Changes
    <2>2. match'[q] \subseteq Key
      BY <1>9, Zenon DEF TypeOK
    <2>3. ASSUME NEW x \in match'[q] PROVE rows'[x] # NoRow
      <3>1. CASE x = k
        BY <1>6, <2>3, <3>1, Zenon DEF Changes
      <3>2. CASE x # k
        <4>1. x \in match[q] /\ rows'[x] = rows[x]
          BY <1>6, <2>2, <2>3, <3>2, Zenon DEF Changes
        <4> QED
          BY <1>1, <4>1, Zenon DEF Served
      <3> QED
        BY <3>1, <3>2, Zenon
    <2> QED
      BY <2>1, <2>3, Zenon
  <1>12. UNCHANGED <<layout, serving, phase, lastSeq, foot, qcols, cell, syncVars>>
    BY <1>4, Zenon DEF srcVars, syncVars
  <1>13. \A q \in Query : q \in S => Stream(q)'
    BY <1>6, <1>7, <1>12, TouchedStream, Zenon
  <1>14. \A q \in Query : q \notin S => Stream(q)'
    BY <1>6, <1>7, <1>12, UntouchedStream, Zenon
  <1> QED
    BY <1>9, <1>10, <1>11, <1>13, <1>14, Zenon

-----------------------------------------------------------------------------
(* An empty wire and a client without subscribers satisfy the invariant.   *)
LEMMA StreamInit == ASSUME Init PROVE StreamInv
  <1>1. TypeOK
    <2>1. /\ match \in [Query -> SUBSET Key] /\ serving \in SUBSET Query /\ layout \in [Query -> SUBSET Col]
          /\ subs \in SUBSET Query /\ life \in [Query -> {"new", "retained", "gone"}]
          /\ phase \in [Query -> {"none", "snapshot", "live"}]
          /\ resubscribing \in SUBSET Query /\ timers \in SUBSET Query
          /\ refs \in [Key -> SUBSET Query] /\ foot \in [Query -> SUBSET Key] /\ qcols \in [Query -> SUBSET Col]
      BY Zenon DEF Init
    <2>2. /\ srvEpoch \in [Query -> Nat] /\ srvSeq \in [Query -> Nat] /\ commits \in Nat /\ troubles \in Nat
          /\ epoch \in [Query -> Nat] /\ lastSeq \in [Query -> Nat]
      BY SMT DEF Init
    <2>3. up \in Seq([t: {"subscribe", "unsubscribe"}, q: Query]) /\ down \in Seq(Frame)
      BY SMT DEF Init
    <2>4. cell \in [Key -> UnionRow] /\ rows \in [Key -> Row \cup {NoRow}]
      BY Zenon DEF Init, Blank, UnionRow
    <2> QED
      BY <2>1, <2>2, <2>3, <2>4, Zenon DEF TypeOK
  <1>2. down = <<>> /\ up = <<>>
    BY Zenon DEF Init
  <1>3. DOMAIN down = {} /\ DOMAIN up = {}
    BY <1>2, SMT
  <1>4. \A q \in Query : ~Listens(q) /\ ~IsLive(q) /\ phase[q] # "snapshot"
    BY Zenon DEF Init, Listens, IsLive
  <1>5. Lives
    BY <1>3, <1>4, Zenon DEF Lives, Init
  <1>6. Served
    BY Zenon DEF Served, Init
  <1>7. ASSUME NEW q \in Query PROVE Stream(q)
    <2>1. Frames(q)
      BY <1>3, Zenon DEF Frames, FrameCols, ServedCols, Rising, Capped, Snapshots, ChainFrames, ChainServer, FreshFrames
    <2>2. Listening(q)
      BY <1>3, <1>4, Zenon DEF Listening, ClientCols, LayoutCols, Behind
    <2>3. Chained(q) /\ FreshCells(q)
      BY <1>3, <1>4, Zenon DEF Chained, ChainClient, ChainEnds, FreshClient, FreshCells
    <2> QED
      BY <2>1, <2>2, <2>3, Zenon DEF Stream
  <1> QED
    BY <1>1, <1>5, <1>6, <1>7, RefsInit, Zenon DEF StreamInv

(* Every step of the specification keeps the invariant.                    *)
LEMMA StreamStep == ASSUME StreamInv, [Next]_vars PROVE StreamInv'
  <1> DEFINE Kept == TypeOK' /\ Lives' /\ Served' /\ \A p \in Query : Stream(p)'
  <1>1. SyncInv'
    BY Parts, RefsStep, Zenon
  <1>2. CASE UNCHANGED vars
    <2>1. UNCHANGED <<rows, match, serving, srvVars, phase, lastSeq, syncVars>> /\ down' = down
      BY <1>2, Zenon DEF vars, srvVars, srcVars
    <2>2. TypeOK /\ Lives /\ Served
      BY Parts, Zenon
    <2>3. TypeOK'
      BY <1>2, <2>2, Zenon DEF TypeOK, vars, srvVars, srcVars, syncVars
    <2>4. Lives'
      BY <1>2, <2>2, Zenon DEF Lives, Listens, vars, srcVars
    <2> QED
      BY <1>1, <2>1, <2>2, <2>3, <2>4, ServedSame, SameStands, ClientOnly, Zenon DEF StreamInv
  <1>3. ASSUME Client PROVE Kept
    <2>1. ASSUME NEW q \in Query, RegisterQuery(q) \/ UnregisterQuery(q) \/ RetryTimer(q) PROVE Kept
      BY <2>1, RegisterStep, UnregisterStep, RetryStep, Zenon
    <2>2. CASE IgnoreFrame \/ SkipBatch
      BY <2>2, IgnoreStep, Zenon
    <2>3. CASE OnHello \/ OnSnapshot \/ OnBatch \/ OnGap \/ OnQueryError
      BY <2>3, HelloStep, SnapshotApplied, BatchApplied, AppliedStep, GapStep, ErrorStep, Zenon
    <2> QED
      BY <1>3, <2>1, <2>2, <2>3, Zenon DEF Client
  <1>4. ASSUME Server PROVE Kept
    <2>1. CASE Answer \/ Unsubscribed \/ Commit \/ Lose
      BY <2>1, AnswerStep, UnsubscribedStep, CommitStep, LoseStep, Zenon
    <2>2. ASSUME NEW q \in Query, Fault(q) PROVE Kept
      BY <2>2, FaultStep, Zenon
    <2> QED
      BY <1>4, <2>1, <2>2, Zenon DEF Server
  <1> QED
    BY <1>1, <1>2, <1>3, <1>4, Zenon DEF Next, StreamInv

LEMMA StreamAlways == Spec => []StreamInv
  BY StreamInit, StreamStep, PTL DEF Spec

(* The server, the wire, the source and the base keep their types: every op   *)
(* a fold meets has a row, and no frame names a column nobody has.            *)
THEOREM TypesAlways == Spec => []TypeOK
  <1>1. StreamInv => TypeOK
    BY Zenon DEF StreamInv
  <1> QED
    BY StreamAlways, <1>1, PTL

(* A subscriber that has reached the server's epoch and seq has seen every    *)
(* batch of its session, so the chain of each key joins it to the server.     *)
LEMMA UpToDateExact == ASSUME StreamInv PROVE SyncedExact
  <1> SUFFICES ASSUME NEW q \in Query, UpToDate(q)
               PROVE  /\ foot[q] = match[q]
                      /\ \A k \in foot[q] : \A c \in layout[q] : cell[k][c] = rows[k][c]
    BY Zenon DEF SyncedExact
  <1>1. TypeOK /\ Stream(q) /\ SeqNats(q)
    BY Parts, Zenon
  <1>2. q \in serving /\ IsLive(q) /\ lastSeq[q] = srvSeq[q]
    BY Zenon DEF UpToDate, IsLive
  <1>3. NoHello(down, q, 0, End)
    BY Zenon DEF UpToDate, NoHello, IsHello
  <1>4. lastSeq[q] \in Nat
    BY <1>1, Zenon DEF TypeOK
  <1>5. \A k \in Key : Link(down, q, k, 0, lastSeq[q], End, srvSeq[q] + 1)
    <2>1. lastSeq[q] + 1 .. (srvSeq[q] + 1) - 1 = {}
      BY <1>2, <1>4, SMT
    <2> QED
      BY <1>3, <2>1, Zenon DEF Link, Passes
  <1>6. \A k \in Key : k \in foot[q] <=> k \in match[q]
    BY <1>1, <1>2, <1>5, Zenon DEF Stream, Chained, ChainEnds
  <1>7. foot[q] \subseteq Key /\ match[q] \subseteq Key
    BY <1>1, Zenon DEF TypeOK
  <1>8. \A k \in Key : k \in match[q] => \A c \in layout[q] : cell[k][c] = rows[k][c]
    BY <1>1, <1>2, <1>5, Zenon DEF Stream, FreshCells
  <1> QED
    BY <1>6, <1>7, <1>8, Zenon

(* A query whose subscriber is up to date shows exactly the server's rows and *)
(* cells, whatever was lost, repeated, refused or given up on the way, and    *)
(* whatever the other queries of the base did meanwhile.                      *)
THEOREM SyncedAlways == Spec => []SyncedExact
  BY StreamAlways, UpToDateExact, PTL

===============================================================================
