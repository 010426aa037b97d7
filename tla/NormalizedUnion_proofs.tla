------------------------ MODULE NormalizedUnion_proofs ------------------------
(***************************************************************************)
(* While no re-subscribe narrows a layout, the column union of             *)
(* NormalizedSync is exact: a shared row has a cell exactly where a query  *)
(* that references it contributes one.  The argument needs that hellos     *)
(* only widen what a query contributes, and, from the chains of a session, *)
(* that no edit arrives for a row the query does not hold.                 *)
(***************************************************************************)
EXTENDS NormalizedExact_proofs

(* Every cell of a row with the cells C is one that some query of R has, and  *)
(* the row has all the cells of p.                                            *)
Covers(C, R) == \A c \in Col : C[c] # Absent => \E p \in R : c \in qcols[p]
Shows(C, p) == \A c \in qcols[p] : C[c] # Absent

UnionInv == ~Narrowing /\ StreamInv /\ (\A q \in Query : Widens(q)) /\ UnionExact

LEMMA UnionParts ==
  ASSUME TypeOK
  PROVE  UnionExact <=> \A k \in Key : /\ Covers(cell[k], refs[k])
                                       /\ \A q \in refs[k] : phase[q] = "live" => Shows(cell[k], q)
  <1>1. \A k \in Key : \A q \in refs[k] : qcols[q] \subseteq Col
    BY Zenon DEF TypeOK
  <1>2. ASSUME NEW k \in Key
        PROVE  {c \in Col : cell[k][c] # Absent} \subseteq PresentCols(refs[k]) <=> Covers(cell[k], refs[k])
    BY Zenon DEF PresentCols, Covers
  <1>3. ASSUME NEW k \in Key, NEW q \in refs[k]
        PROVE  qcols[q] \subseteq {c \in Col : cell[k][c] # Absent} <=> Shows(cell[k], q)
    BY <1>1, Zenon DEF Shows
  <1> QED
    BY <1>2, <1>3, Zenon DEF UnionExact

-----------------------------------------------------------------------------
(* Folding the ops of q, one row. *)

LEMMA ScatterCells ==
  ASSUME NEW q, NEW row, qcols[q] \subseteq Col, \A c \in qcols[q] : row[c] \in Val
  PROVE  \A c \in Col : Scatter(q, row)[c] # Absent <=> c \in qcols[q]
  BY SyncAssumption, Zenon DEF Scatter

LEMMA MergeCells ==
  ASSUME NEW C, NEW row
  PROVE  \A c \in Col : MergeInto(C, row)[c] # Absent <=> C[c] # Absent \/ row[c] # Absent
  BY Zenon DEF MergeInto

(* The row after an add that enters it, or after an edit: q's cells join.     *)
LEMMA MergedUnion ==
  ASSUME NEW C, NEW R, NEW q, NEW row, qcols[q] \subseteq Col, \A c \in qcols[q] : row[c] \in Val,
         Covers(C, R), \A p \in R : qcols[p] \subseteq Col
  PROVE  /\ Covers(MergeInto(C, Scatter(q, row)), R \cup {q}) /\ Shows(MergeInto(C, Scatter(q, row)), q)
         /\ \A p \in R : Shows(C, p) => Shows(MergeInto(C, Scatter(q, row)), p)
  <1> DEFINE M == MergeInto(C, Scatter(q, row))
  <1>1. \A c \in Col : Scatter(q, row)[c] # Absent <=> c \in qcols[q]
    BY ScatterCells, Zenon
  <1>2. \A c \in Col : M[c] # Absent <=> C[c] # Absent \/ Scatter(q, row)[c] # Absent
    BY MergeCells, Zenon
  <1> HIDE DEF M
  <1>3. \A c \in Col : M[c] # Absent <=> C[c] # Absent \/ c \in qcols[q]
    BY <1>1, <1>2, Zenon
  <1>4. Covers(M, R \cup {q}) /\ Shows(M, q) /\ \A p \in R : Shows(C, p) => Shows(M, p)
    BY <1>3, Zenon DEF Covers, Shows
  <1> QED
    BY <1>4 DEF M

(* The row after a remove that others outlive: what they contribute remains.  *)
LEMMA NarrowedUnion ==
  ASSUME NEW C, NEW R, NEW M, \A p \in R : qcols[p] \subseteq Col,
         \A c \in Col : M[c] = IF c \in PresentCols(R) THEN C[c] ELSE Absent
  PROVE  Covers(M, R) /\ \A p \in R : Shows(C, p) => Shows(M, p)
  <1>1. ASSUME NEW c PROVE c \in PresentCols(R) <=> \E p \in R : c \in qcols[p]
    BY SMTT(30) DEF PresentCols
  <1> QED
    BY <1>1, Zenon DEF Covers, Shows

LEMMA FoldUnion ==
  ASSUME TypeOK, SyncInv, UnionExact, NEW q \in Query, NEW ops, FoldOps(q, ops), NEW k \in Key,
         \A x \in DOMAIN ops : ops[x].op # "remove" => \A c \in qcols[q] : ops[x].row[c] \in Val,
         \A x \in DOMAIN ops : ops[x].op \notin {"add", "remove"} => x \in foot[q]
  PROVE  /\ Covers(cell'[k], refs'[k])
         /\ \A p \in refs'[k] : p # q /\ phase[p] = "live" => Shows(cell'[k], p)
         /\ k \in DOMAIN ops /\ ops[k].op # "remove" /\ (k \in foot[q] => ops[k].op # "add") => Shows(cell'[k], q)
         /\ k \notin DOMAIN ops => cell'[k] = cell[k]
  <1>1. /\ refs'[k] = IF k \in DOMAIN ops /\ ops[k].op = "add" THEN refs[k] \cup {q}
                      ELSE IF k \in DOMAIN ops /\ ops[k].op = "remove" /\ k \in foot[q] THEN refs[k] \ {q}
                      ELSE refs[k]
        /\ cell'[k] = IF k \in DOMAIN ops /\ ops[k].op = "add" THEN AddKey(q, k, Scatter(q, ops[k].row))
                      ELSE IF k \in DOMAIN ops /\ ops[k].op = "remove" THEN RemoveKey(q, k)
                      ELSE IF k \in DOMAIN ops THEN EditKey(k, Scatter(q, ops[k].row))
                      ELSE cell[k]
    BY Zenon DEF FoldOps
  <1>2. refs[k] = {p \in Query : k \in foot[p]}
    BY Zenon DEF SyncInv, RefsAgree
  <1>3. qcols[q] \subseteq Col /\ \A p \in refs[k] : qcols[p] \subseteq Col
    BY Zenon DEF TypeOK
  <1>4. Covers(cell[k], refs[k]) /\ \A p \in refs[k] : phase[p] = "live" => Shows(cell[k], p)
    BY UnionParts, Zenon
  <1>5. CASE k \notin DOMAIN ops \/ (ops[k].op = "remove" /\ k \notin foot[q])
    <2>1. refs'[k] = refs[k] /\ cell'[k] = cell[k]
      BY <1>1, <1>5, Zenon DEF RemoveKey
    <2> QED
      BY <1>4, <1>5, <2>1, Zenon
  <1>6. CASE k \in DOMAIN ops /\ ops[k].op = "add" /\ k \in foot[q]
    <2>1. refs'[k] = refs[k] \cup {q} /\ cell'[k] = cell[k] /\ q \in refs[k]
      BY <1>1, <1>2, <1>6, Zenon DEF AddKey
    <2>2. refs'[k] = refs[k]
      BY <2>1, Zenon
    <2> QED
      BY <1>4, <1>6, <2>1, <2>2, Zenon
  <1>7. CASE k \in DOMAIN ops /\ ops[k].op = "add" /\ k \notin foot[q] /\ refs[k] = {}
    <2>1. refs'[k] = {q} /\ cell'[k] = Scatter(q, ops[k].row)
      BY <1>1, <1>7, Zenon DEF AddKey
    <2>2. \A c \in Col : Scatter(q, ops[k].row)[c] # Absent <=> c \in qcols[q]
      BY <1>3, <1>7, ScatterCells, Zenon
    <2> QED
      BY <1>3, <1>7, <2>1, <2>2, Zenon DEF Covers, Shows
  <1>8. CASE k \in DOMAIN ops /\ ops[k].op = "add" /\ k \notin foot[q] /\ refs[k] # {}
    <2>1. refs'[k] = refs[k] \cup {q} /\ cell'[k] = MergeInto(cell[k], Scatter(q, ops[k].row))
      BY <1>1, <1>8, Zenon DEF AddKey
    <2>2. \A c \in qcols[q] : ops[k].row[c] \in Val
      BY <1>8, Zenon
    <2>3. /\ Covers(cell'[k], refs'[k]) /\ Shows(cell'[k], q)
          /\ \A p \in refs[k] : Shows(cell[k], p) => Shows(cell'[k], p)
      <3>1. PICK row : row = ops[k].row
        BY Zenon
      <3>2. PICK C, R : C = cell[k] /\ R = refs[k]
        BY Zenon
      <3>3. /\ Covers(MergeInto(C, Scatter(q, row)), R \cup {q}) /\ Shows(MergeInto(C, Scatter(q, row)), q)
            /\ \A p \in R : Shows(C, p) => Shows(MergeInto(C, Scatter(q, row)), p)
        BY <1>3, <1>4, <2>2, <3>1, <3>2, MergedUnion, ZenonT(60)
      <3> QED
        BY <2>1, <3>1, <3>2, <3>3, Zenon
    <2> QED
      BY <1>4, <1>8, <2>1, <2>3, Zenon
  <1>9. CASE k \in DOMAIN ops /\ ops[k].op \notin {"add", "remove"}
    <2>1. q \in refs[k]
      BY <1>2, <1>9, Zenon
    <2>2. refs'[k] = refs[k] /\ cell'[k] = MergeInto(cell[k], Scatter(q, ops[k].row))
      BY <1>1, <1>9, <2>1, Zenon DEF EditKey
    <2>3. \A c \in qcols[q] : ops[k].row[c] \in Val
      BY <1>9, Zenon
    <2>4. refs[k] \cup {q} = refs'[k]
      BY <2>1, <2>2, Zenon
    <2>5. /\ Covers(cell'[k], refs'[k]) /\ Shows(cell'[k], q)
          /\ \A p \in refs[k] : Shows(cell[k], p) => Shows(cell'[k], p)
      <3>1. PICK row : row = ops[k].row
        BY Zenon
      <3>2. PICK C, R : C = cell[k] /\ R = refs[k]
        BY Zenon
      <3>3. /\ Covers(MergeInto(C, Scatter(q, row)), R \cup {q}) /\ Shows(MergeInto(C, Scatter(q, row)), q)
            /\ \A p \in R : Shows(C, p) => Shows(MergeInto(C, Scatter(q, row)), p)
        BY <1>3, <1>4, <2>3, <3>1, <3>2, MergedUnion, ZenonT(60)
      <3> QED
        BY <2>2, <2>4, <3>1, <3>2, <3>3, Zenon
    <2> QED
      BY <1>4, <1>9, <2>2, <2>5, Zenon
  <1>10. CASE k \in DOMAIN ops /\ ops[k].op = "remove" /\ k \in foot[q]
    <2>1. refs'[k] = refs[k] \ {q} /\ cell'[k] = RemoveKey(q, k)
      BY <1>1, <1>10, Zenon
    <2>2. CASE refs[k] \subseteq {q}
      <3>1. refs'[k] = {} /\ cell'[k] = Blank
        BY <1>10, <2>1, <2>2, Zenon DEF RemoveKey
      <3>2. Covers(Blank, {})
        BY Zenon DEF Covers, Blank
      <3> QED
        BY <1>10, <3>1, <3>2, Zenon
    <2>3. CASE ~(refs[k] \subseteq {q})
      <3>1. cell'[k] = [c \in Col |-> IF c \in PresentCols(refs[k] \ {q}) THEN cell[k][c] ELSE Absent]
        BY <1>10, <2>1, <2>3, Zenon DEF RemoveKey
      <3>2. /\ Covers(cell'[k], refs'[k])
            /\ \A p \in refs'[k] : Shows(cell[k], p) => Shows(cell'[k], p)
        <4>1. PICK C, R : C = cell[k] /\ R = refs[k] \ {q}
          BY Zenon
        <4>2. \A c \in Col : cell'[k][c] = IF c \in PresentCols(R) THEN C[c] ELSE Absent
          BY <3>1, <4>1, Zenon
        <4>3. Covers(cell'[k], R) /\ \A p \in R : Shows(C, p) => Shows(cell'[k], p)
          BY <1>3, <4>1, <4>2, NarrowedUnion, ZenonT(60)
        <4> QED
          BY <2>1, <4>1, <4>3, Zenon
      <3> QED
        BY <1>4, <1>10, <2>1, <3>2, Zenon
    <2> QED
      BY <2>2, <2>3, Zenon
  <1> QED
    BY <1>5, <1>6, <1>7, <1>8, <1>9, <1>10, Zenon

-----------------------------------------------------------------------------
(* Hellos only widen.  The hellos of q on the socket are old ones, in their   *)
(* old order.                                                                 *)
HelloesStand(q) ==
  /\ \A i \in DOMAIN down' : IsHello(down'[i], q) => \E x \in DOMAIN down : down[x] = down'[i]
  /\ \A i, j \in DOMAIN down' : i < j /\ IsHello(down'[i], q) /\ IsHello(down'[j], q)
       => \E x, y \in DOMAIN down : x < y /\ down[x] = down'[i] /\ down[y] = down'[j]

LEMMA LeftHelloes ==
  ASSUME NEW q, NEW r, Drops(down, down', r)
  PROVE  HelloesStand(q)
  BY LeftPlaces, Zenon DEF Shifts, HelloesStand

LEMMA JoinedHelloes ==
  ASSUME NEW q, Extends(down, down'), \A l \in DOMAIN down' : l \in DOMAIN down \/ ~IsHello(down'[l], q)
  PROVE  HelloesStand(q)
  BY OldPlaces, Zenon DEF HelloesStand

LEMMA WidensKept ==
  ASSUME NEW q, Widens(q), HelloesStand(q),
         life'[q] # "gone" => life[q] # "gone" /\ qcols'[q] = qcols[q] /\ layout'[q] = layout[q]
  PROVE  Widens(q)'
  <1> SUFFICES ASSUME life'[q] # "gone"
               PROVE  /\ qcols'[q] \subseteq layout'[q]
                      /\ \A i \in DOMAIN down' : IsHello(down'[i], q) =>
                           qcols'[q] \subseteq down'[i].cols /\ down'[i].cols \subseteq layout'[q]
                      /\ \A i, j \in DOMAIN down' : i < j /\ IsHello(down'[i], q) /\ IsHello(down'[j], q)
                           => down'[i].cols \subseteq down'[j].cols
    BY Zenon DEF Widens, IsHello
  <1>1. /\ life[q] # "gone" /\ qcols'[q] = qcols[q] /\ layout'[q] = layout[q] /\ qcols[q] \subseteq layout[q]
        /\ \A i \in DOMAIN down : IsHello(down[i], q) => qcols[q] \subseteq down[i].cols /\ down[i].cols \subseteq layout[q]
        /\ \A i, j \in DOMAIN down : i < j /\ IsHello(down[i], q) /\ IsHello(down[j], q) => down[i].cols \subseteq down[j].cols
    BY Zenon DEF Widens
  <1>2. ASSUME NEW i \in DOMAIN down', IsHello(down'[i], q)
        PROVE  qcols'[q] \subseteq down'[i].cols /\ down'[i].cols \subseteq layout'[q]
    <2>1. PICK x \in DOMAIN down : down[x] = down'[i]
      BY <1>2, Zenon DEF HelloesStand
    <2>2. IsHello(down[x], q)
      BY <1>2, <2>1, Zenon
    <2> QED
      BY <1>1, <2>1, <2>2, Zenon
  <1>3. ASSUME NEW i \in DOMAIN down', NEW j \in DOMAIN down', i < j, IsHello(down'[i], q), IsHello(down'[j], q)
        PROVE  down'[i].cols \subseteq down'[j].cols
    <2>1. PICK x, y \in DOMAIN down : x < y /\ down[x] = down'[i] /\ down[y] = down'[j]
      BY <1>3, Zenon DEF HelloesStand
    <2>2. IsHello(down[x], q) /\ IsHello(down[y], q)
      BY <1>3, <2>1, Zenon
    <2> QED
      BY <1>1, <2>1, <2>2, Zenon
  <1> QED
    BY <1>1, <1>2, <1>3, Zenon

(* The head of the socket is a hello of q, and opens its subscriber.          *)
LEMMA WidensOpened ==
  ASSUME NEW q, Widens(q), Drops(down, down', 1), IsHello(down[1], q), life[q] # "gone",
         qcols'[q] = down[1].cols, layout'[q] = layout[q]
  PROVE  Widens(q)'
  <1> SUFFICES /\ qcols'[q] \subseteq layout'[q]
               /\ \A i \in DOMAIN down' : IsHello(down'[i], q) =>
                    qcols'[q] \subseteq down'[i].cols /\ down'[i].cols \subseteq layout'[q]
               /\ \A i, j \in DOMAIN down' : i < j /\ IsHello(down'[i], q) /\ IsHello(down'[j], q)
                    => down'[i].cols \subseteq down'[j].cols
    BY Zenon DEF Widens, IsHello
  <1>1. /\ \A i \in DOMAIN down : IsHello(down[i], q) => down[i].cols \subseteq layout[q]
        /\ \A i, j \in DOMAIN down : i < j /\ IsHello(down[i], q) /\ IsHello(down[j], q) => down[i].cols \subseteq down[j].cols
    BY Zenon DEF Widens
  <1>2. 1 \in DOMAIN down /\ \A i \in DOMAIN down' : down'[i] = down[i + 1] /\ i + 1 \in DOMAIN down /\ 1 < i + 1
    BY TailPlaces, Zenon
  <1>3. ASSUME NEW i \in DOMAIN down', IsHello(down'[i], q)
        PROVE  down[1].cols \subseteq down'[i].cols /\ down'[i].cols \subseteq layout[q]
    <2>1. PICK x \in DOMAIN down : 1 < x /\ down'[i] = down[x]
      BY <1>2, Zenon
    <2> QED
      BY <1>1, <1>2, <1>3, <2>1, Zenon
  <1>4. HelloesStand(q)
    BY LeftHelloes, Zenon
  <1>5. ASSUME NEW i \in DOMAIN down', NEW j \in DOMAIN down', i < j, IsHello(down'[i], q), IsHello(down'[j], q)
        PROVE  down'[i].cols \subseteq down'[j].cols
    <2>1. PICK x, y \in DOMAIN down : x < y /\ down[x] = down'[i] /\ down[y] = down'[j]
      BY <1>4, <1>5, Zenon DEF HelloesStand
    <2>2. IsHello(down[x], q) /\ IsHello(down[y], q)
      BY <1>5, <2>1, Zenon
    <2> QED
      BY <1>1, <2>1, <2>2, Zenon
  <1> QED
    BY <1>1, <1>2, <1>3, <1>5, Zenon

(* The server answers q with a layout no narrower than the last.              *)
LEMMA WidensAnswered ==
  ASSUME NEW q, Widens(q), NEW C, Extends(down, down'), NEW z \in DOMAIN down', z \notin DOMAIN down,
         \A l \in DOMAIN down' : l \in DOMAIN down \/ l = z \/ ~IsHello(down'[l], q),
         down'[z].cols = C, layout[q] \subseteq C, layout'[q] = C, life'[q] = life[q], qcols'[q] = qcols[q]
  PROVE  Widens(q)'
  <1> SUFFICES ASSUME life[q] # "gone"
               PROVE  /\ qcols[q] \subseteq C
                      /\ \A i \in DOMAIN down' : IsHello(down'[i], q) =>
                           qcols[q] \subseteq down'[i].cols /\ down'[i].cols \subseteq C
                      /\ \A i, j \in DOMAIN down' : i < j /\ IsHello(down'[i], q) /\ IsHello(down'[j], q)
                           => down'[i].cols \subseteq down'[j].cols
    BY Zenon DEF Widens, IsHello
  <1>1. /\ qcols[q] \subseteq layout[q]
        /\ \A i \in DOMAIN down : IsHello(down[i], q) => qcols[q] \subseteq down[i].cols /\ down[i].cols \subseteq layout[q]
        /\ \A i, j \in DOMAIN down : i < j /\ IsHello(down[i], q) /\ IsHello(down[j], q) => down[i].cols \subseteq down[j].cols
    BY Zenon DEF Widens
  <1>2. /\ \A i \in DOMAIN down : i \in DOMAIN down' /\ down'[i] = down[i]
        /\ \A i \in DOMAIN down', j \in DOMAIN down : i < j \/ i <= j => i \in DOMAIN down
    BY OldPlaces, Zenon
  <1>3. \A i \in DOMAIN down' : IsHello(down'[i], q) => qcols[q] \subseteq down'[i].cols /\ down'[i].cols \subseteq C
    BY <1>1, <1>2, Zenon
  <1>4. ASSUME NEW i \in DOMAIN down', NEW j \in DOMAIN down', i < j, IsHello(down'[i], q), IsHello(down'[j], q)
        PROVE  down'[i].cols \subseteq down'[j].cols
    <2>1. CASE j \in DOMAIN down
      <3>1. i \in DOMAIN down /\ down'[i] = down[i] /\ down'[j] = down[j]
        BY <1>2, <1>4, <2>1, Zenon
      <3> QED
        BY <1>1, <1>4, <2>1, <3>1, Zenon
    <2>2. CASE j \notin DOMAIN down
      BY <1>3, <1>4, <2>2, Zenon
    <2> QED
      BY <2>1, <2>2, Zenon
  <1> QED
    BY <1>1, <1>3, <1>4, Zenon

LEMMA WidensTaken ==
  ASSUME \A p \in Query : Widens(p), NEW r, Drops(down, down', r), UNCHANGED <<layout, life, qcols>>
  PROVE  \A p \in Query : Widens(p)'
  BY LeftHelloes, WidensKept, Zenon

LEMMA WidensSame ==
  ASSUME \A p \in Query : Widens(p), TypeOK, down' = down,
         \A p \in Query : life'[p] # "gone" => /\ life[p] # "gone" /\ qcols'[p] = qcols[p]
                                               /\ layout'[p] = layout[p]
  PROVE  \A p \in Query : Widens(p)'
  <1>1. \A p : HelloesStand(p)
    BY SameExtends, JoinedHelloes, Zenon
  <1> QED
    BY <1>1, WidensKept, Zenon

LEMMA WidensClient ==
  ASSUME StreamInv, \A p \in Query : Widens(p), Client
  PROVE  \A p \in Query : Widens(p)'
  <1>1. TypeOK /\ Lives
    BY Parts, Zenon
  <1>2. ASSUME NEW q \in Query, RegisterQuery(q) PROVE \A p \in Query : Widens(p)'
    <2>1. down' = down /\ layout' = layout /\ qcols' = qcols /\ life[q] = "new" /\ life' = [life EXCEPT ![q] = "retained"]
      BY <1>2, Zenon DEF RegisterQuery, srvVars, syncVars
    <2>2. life \in [Query -> {"new", "retained", "gone"}]
      BY <1>1, Zenon DEF TypeOK
    <2>3. \A p \in Query : life'[p] # "gone" => life[p] # "gone"
      BY <2>1, <2>2, Zenon
    <2> QED
      BY <1>1, <2>1, <2>3, WidensSame, Zenon
  <1>3. ASSUME NEW q \in Query, UnregisterQuery(q) PROVE \A p \in Query : Widens(p)'
    <2>1. down' = down /\ layout' = layout /\ qcols' = [qcols EXCEPT ![q] = {}] /\ life' = [life EXCEPT ![q] = "gone"]
      BY <1>3, Zenon DEF UnregisterQuery, srvVars
    <2>2. life \in [Query -> {"new", "retained", "gone"}] /\ qcols \in [Query -> SUBSET Col]
      BY <1>1, Zenon DEF TypeOK
    <2>3. \A p \in Query : life'[p] # "gone" => life[p] # "gone" /\ qcols'[p] = qcols[p]
      BY <2>1, <2>2, Zenon
    <2> QED
      BY <1>1, <2>1, <2>3, WidensSame, Zenon
  <1>4. ASSUME NEW q \in Query, RetryTimer(q) PROVE \A p \in Query : Widens(p)'
    <2>1. down' = down /\ layout' = layout /\ qcols' = qcols /\ life' = life
      BY <1>4, Zenon DEF RetryTimer, srvVars, syncVars
    <2> QED
      BY <1>1, <2>1, WidensSame, Zenon
  <1>5. ASSUME IgnoreFrame \/ OnSnapshot \/ OnBatch \/ SkipBatch \/ OnGap \/ OnQueryError
        PROVE  \A p \in Query : Widens(p)'
    <2>1. Take /\ layout' = layout /\ life' = life /\ qcols' = qcols
      BY <1>5, Zenon DEF IgnoreFrame, OnSnapshot, OnBatch, SkipBatch, OnGap, OnQueryError, srvVars, srcVars, syncVars
    <2> QED
      BY <1>1, <2>1, Takes, WidensTaken, Zenon
  <1>6. ASSUME OnHello PROVE \A p \in Query : Widens(p)'
    <2>1. Take /\ Head(down).q \in subs /\ Head(down).t = "hello" /\ layout' = layout /\ life' = life
      BY <1>6, Zenon DEF OnHello, srvVars
    <2>2. qcols' = [qcols EXCEPT ![Head(down).q] = Head(down).cols]
      BY <1>6, Zenon DEF OnHello
    <2>3. Drops(down, down', 1) /\ Head(down) = down[1] /\ down[1] \in Frame
      BY <1>1, <2>1, Takes, Zenon
    <2>4. PICK q \in Query : q = down[1].q
      BY <2>3, FrameTypes, Zenon
    <2>5. qcols \in [Query -> SUBSET Col]
      BY <1>1, Zenon DEF TypeOK
    <2>6. qcols'[q] = down[1].cols /\ \A p \in Query : p # q => qcols'[p] = qcols[p]
      BY <2>2, <2>3, <2>4, <2>5, Zenon
    <2>7. IsHello(down[1], q) /\ life[q] = "retained"
      BY <1>1, <2>1, <2>3, <2>4, Zenon DEF IsHello, Lives
    <2>8. life[q] # "gone"
      BY <2>7
    <2>9. Widens(q)'
      BY <2>1, <2>3, <2>6, <2>7, <2>8, WidensOpened, Zenon
    <2>10. ASSUME NEW p \in Query, p # q PROVE Widens(p)'
      BY <2>1, <2>3, <2>6, <2>10, LeftHelloes, WidensKept, Zenon
    <2> QED
      BY <2>9, <2>10, Zenon
  <1> QED
    BY <1>2, <1>3, <1>4, <1>5, <1>6, Zenon DEF Client

LEMMA WidensServer ==
  ASSUME StreamInv, \A p \in Query : Widens(p), Server, ~Narrowing
  PROVE  \A p \in Query : Widens(p)'
  <1>1. TypeOK /\ Lives /\ Served
    BY Parts, Zenon
  <1>2. life' = life /\ qcols' = qcols
    BY Zenon DEF Server, Answer, Unsubscribed, Commit, WriteRow, Lose, Fault, srcVars, syncVars
  <1>3. ASSUME NEW q \in Query, NEW r \in BOOLEAN, layout' = layout,
               down' = Append(down, [t |-> "error", q |-> q, retryable |-> r])
        PROVE  \A p \in Query : Widens(p)'
    <2>1. \A p : HelloesStand(p)
      BY <1>1, <1>3, ErrorExtends, JoinedHelloes, Zenon DEF Quiet
    <2> QED
      BY <1>2, <1>3, <2>1, WidensKept, Zenon
  <1>4. ASSUME NEW q \in Query, Fault(q) PROVE \A p \in Query : Widens(p)'
    <2>1. layout' = layout /\ down' = Append(down, [t |-> "error", q |-> q, retryable |-> TRUE])
      BY <1>4, Zenon DEF Fault
    <2>2. TRUE \in BOOLEAN
      OBVIOUS
    <2> QED
      BY <1>3, <2>1, <2>2, Zenon
  <1>5. ASSUME Unsubscribed PROVE \A p \in Query : Widens(p)'
    <2>1. up # <<>> /\ Head(up).t = "unsubscribe" /\ down' = down /\ layout' = [layout EXCEPT ![Head(up).q] = {}]
      BY <1>5, Zenon DEF Unsubscribed
    <2>2. Head(up) = up[1] /\ 1 \in DOMAIN up /\ Head(up).q \in Query
      BY <1>1, <2>1, UpTypes, Zenon
    <2>3. life[Head(up).q] = "gone"
      BY <1>1, <2>1, <2>2, Zenon DEF Lives
    <2>4. layout \in [Query -> SUBSET Col]
      BY <1>1, Zenon DEF TypeOK
    <2>5. \A p \in Query : life'[p] # "gone" => life[p] # "gone" /\ layout'[p] = layout[p]
      BY <1>2, <2>1, <2>3, <2>4, Zenon
    <2> QED
      BY <1>1, <1>2, <2>1, <2>2, <2>5, WidensSame, Zenon
  <1>6. ASSUME Commit PROVE \A p \in Query : Widens(p)'
    <2>1. PICK k \in Key, new \in Row \cup {NoRow}, in \in SUBSET serving : WriteRow(k, new, in)
      BY <1>6, Zenon DEF Commit
    <2>2. PICK S : S = TouchedBy(k, new, in)
      BY Zenon
    <2>3. layout' = layout /\ (new = NoRow => in = {})
      BY <2>1, Zenon DEF WriteRow
    <2>4. PICK order \in Orders(S) : down' = down \o [i \in DOMAIN order |-> Wrote(k, new, in, order[i])]
      BY <2>1, <2>2, Zenon DEF WriteRow
    <2>5. Sends(S, k, new, in)
      BY <1>1, <2>2, <2>3, <2>4, CommitSends, Zenon
    <2> HIDE <2>2, <2>4
    <2>6. \A p : HelloesStand(p)
      BY <2>5, JoinedHelloes, Zenon DEF Sends, Says, IsHello
    <2> QED
      BY <1>2, <2>3, <2>6, WidensKept, Zenon
  <1>7. ASSUME Lose PROVE \A p \in Query : Widens(p)'
    <2>1. layout' = layout /\ \E r \in DOMAIN down : down' = Without(down, r)
      BY <1>7, Zenon DEF Lose, srvVars
    <2>2. down \in Seq(Frame)
      BY <1>1, Zenon DEF TypeOK
    <2> QED
      BY <1>2, <2>1, <2>2, WithoutDrops, WidensTaken, Zenon
  <1>8. ASSUME Answer PROVE \A p \in Query : Widens(p)'
    <2>1. up # <<>>
      BY <1>8, Zenon DEF Answer
    <2>2. PICK q \in Query : q = Head(up).q
      BY <1>1, <2>1, UpTypes, Zenon
    <2>3. ASSUME NEW C \in SUBSET Col, NEW K \in SUBSET {k \in Key : rows[k] # NoRow},
                 layout[q] \subseteq C, layout' = [layout EXCEPT ![q] = C],
                 down' = down \o << Hello(q, srvEpoch[q] + 1, C), Snapshot(q, srvEpoch[q] + 1, C, K) >>
          PROVE  \A p \in Query : Widens(p)'
      <3>1. layout \in [Query -> SUBSET Col] /\ srvEpoch[q] \in Nat
        BY <1>1, Zenon DEF TypeOK
      <3>2. PICK e \in Nat : e = srvEpoch[q] + 1
        BY <3>1, SMT
      <3>3. Answered(q, C, K)
        BY <1>1, <2>3, <3>2, AnswerExtends, Zenon
      <3>4. layout'[q] = C /\ \A p \in Query : p # q => layout'[p] = layout[p]
        BY <2>3, <3>1, Zenon
      <3>5. PICK z : z = Len(down) + 1
        BY Zenon
      <3>6. z \in DOMAIN down' /\ z \notin DOMAIN down
        BY <3>3, <3>5, SMT DEF Answered, Extends
      <3>7. /\ down'[z].cols = C /\ Extends(down, down')
            /\ \A l \in DOMAIN down' : l \in DOMAIN down \/ l = z \/ ~IsHello(down'[l], q)
            /\ \A l \in DOMAIN down' : l \in DOMAIN down \/ down'[l].q = q
        BY <3>3, <3>5, Zenon DEF Answered
      <3>8. Widens(q)'
        BY <1>2, <2>3, <3>4, <3>6, <3>7, WidensAnswered, Zenon
      <3>9. ASSUME NEW p \in Query, p # q PROVE Widens(p)'
        <4>1. HelloesStand(p)
          BY <3>7, <3>9, JoinedHelloes, Zenon DEF IsHello
        <4> QED
          BY <1>2, <3>4, <3>9, <4>1, WidensKept, Zenon
      <3> QED
        BY <3>8, <3>9, Zenon
    <2>4. \/ \E C \in SUBSET Col, K \in SUBSET {k \in Key : rows[k] # NoRow} :
               /\ layout[q] \subseteq C /\ layout' = [layout EXCEPT ![q] = C]
               /\ down' = down \o << Hello(q, srvEpoch[q] + 1, C), Snapshot(q, srvEpoch[q] + 1, C, K) >>
          \/ \E r \in BOOLEAN : /\ layout' = layout
                                /\ down' = Append(down, [t |-> "error", q |-> q, retryable |-> r])
      BY <1>8, <2>2, Zenon DEF Answer, Hello, Snapshot
    <2> QED
      BY <1>3, <2>3, <2>4, Zenon
  <1> QED
    BY <1>4, <1>5, <1>6, <1>7, <1>8, Zenon DEF Server

-----------------------------------------------------------------------------
(* The union row by row, in the next state. *)
LEMMA UnionNext ==
  ASSUME TypeOK',
         \A k \in Key : \A c \in Col : cell'[k][c] # Absent => \E p \in refs'[k] : c \in qcols'[p],
         \A k \in Key : \A p \in refs'[k] : phase'[p] = "live" => \A c \in qcols'[p] : cell'[k][c] # Absent
  PROVE  UnionExact'
  <1>1. \A k \in Key : \A p \in refs'[k] : qcols'[p] \subseteq Col
    BY Zenon DEF TypeOK
  <1>2. ASSUME NEW k \in Key
        PROVE  {c \in Col : cell'[k][c] # Absent} \subseteq UNION {qcols'[q] : q \in refs'[k]}
    <2> SUFFICES ASSUME NEW c \in Col, cell'[k][c] # Absent
                 PROVE  c \in UNION {qcols'[q] : q \in refs'[k]}
      BY Zenon
    <2>1. PICK p \in refs'[k] : c \in qcols'[p]
      BY Zenon
    <2> QED
      BY <2>1, SMTT(30)
  <1>3. ASSUME NEW k \in Key, NEW q \in refs'[k], phase'[q] = "live"
        PROVE  qcols'[q] \subseteq {c \in Col : cell'[k][c] # Absent}
    BY <1>1, <1>3, Zenon
  <1> QED
    BY <1>2, <1>3, Zenon DEF UnionExact, PresentCols

(* Subscribers may close, and hellos widen what a query contributes.          *)
LEMMA UnionKept ==
  ASSUME TypeOK, TypeOK', UnionExact, UNCHANGED <<refs, cell>>,
         \A p \in Query : qcols[p] \subseteq qcols'[p],
         \A p \in Query : phase'[p] = "live" => phase[p] = "live" /\ qcols'[p] = qcols[p]
  PROVE  UnionExact'
  <1>1. \A k \in Key : refs[k] \subseteq Query
    BY Zenon DEF TypeOK
  <1>2. \A k \in Key : /\ Covers(cell[k], refs[k])
                       /\ \A q \in refs[k] : phase[q] = "live" => Shows(cell[k], q)
    BY UnionParts, Zenon
  <1>3. \A k \in Key : \A c \in Col : cell'[k][c] # Absent => \E p \in refs'[k] : c \in qcols'[p]
    BY <1>1, <1>2, Zenon DEF Covers
  <1>4. \A k \in Key : \A p \in refs'[k] : phase'[p] = "live" => \A c \in qcols'[p] : cell'[k][c] # Absent
    BY <1>1, <1>2, Zenon DEF Shows
  <1> QED
    BY <1>3, <1>4, UnionNext, Zenon

(* A query applies a snapshot or a batch: it edits only what it holds, and    *)
(* each row it then holds has come with all of its columns.                   *)
LEMMA UnionApplied ==
  ASSUME StreamInv, StreamInv', UnionExact, NEW q \in Query, NEW ops, Applied(q, ops)
  PROVE  UnionExact'
  <1>1. TypeOK /\ SyncInv /\ Stream(q)
    BY Parts, Zenon
  <1>2. TypeOK' /\ SyncInv'
    BY Zenon DEF StreamInv
  <1>3. /\ Listens(q) /\ 1 \in DOMAIN down /\ IsBatch(down[1], q) /\ FoldOps(q, ops) /\ Refolds(q, down[1], ops)
        /\ DOMAIN ops \subseteq Key /\ qcols' = qcols
        /\ \A k \in DOMAIN ops : ops[k].op # "remove" => k \in DOMAIN down[1].ops /\ ops[k].row = down[1].ops[k].row
        /\ \A p \in Query : p # q => phase'[p] = phase[p]
    BY Zenon DEF Applied
  <1>4. \A k \in DOMAIN down[1].ops : \A c \in qcols[q] : down[1].ops[k].row[c] \in Val
    BY <1>1, <1>3, HeadCols, Zenon
  <1>5. \A x \in DOMAIN ops : ops[x].op # "remove" => \A c \in qcols[q] : ops[x].row[c] \in Val
    BY <1>3, <1>4, Zenon
  <1>6. \A x \in DOMAIN ops : /\ ops[x].op \notin {"add", "remove"} => x \in foot[q]
                              /\ x \in foot[q] => ops[x].op # "add"
    <2> SUFFICES ASSUME NEW x \in DOMAIN ops
                 PROVE  ops[x].op = "remove" \/ ops[x].op = IF x \in foot[q] THEN "edit" ELSE "add"
      OBVIOUS
    <2>1. x \in Key
      BY <1>3, Zenon
    <2> QED
      BY <1>3, <2>1, Zenon DEF Refolds
  <1>7. ASSUME NEW k \in Key
        PROVE  /\ Covers(cell'[k], refs'[k])
               /\ \A p \in refs'[k] : p # q /\ phase[p] = "live" => Shows(cell'[k], p)
               /\ k \in DOMAIN ops /\ ops[k].op # "remove" => Shows(cell'[k], q)
               /\ k \notin DOMAIN ops => cell'[k] = cell[k]
    <2>1. \A x \in DOMAIN ops : ops[x].op \notin {"add", "remove"} => x \in foot[q]
      BY <1>6, Zenon
    <2>2. TypeOK /\ SyncInv /\ FoldOps(q, ops)
      BY <1>1, <1>3, Zenon
    <2>3. /\ Covers(cell'[k], refs'[k])
          /\ \A p \in refs'[k] : p # q /\ phase[p] = "live" => Shows(cell'[k], p)
          /\ k \in DOMAIN ops /\ ops[k].op # "remove" /\ (k \in foot[q] => ops[k].op # "add") => Shows(cell'[k], q)
          /\ k \notin DOMAIN ops => cell'[k] = cell[k]
      BY <1>5, <2>1, <2>2, FoldUnion
    <2> QED
      BY <1>6, <2>3, Zenon
  <1>8. ASSUME NEW k \in Key, q \in refs'[k] PROVE Shows(cell'[k], q)
    <2>1. k \in foot'[q]
      BY <1>2, <1>8, Zenon DEF SyncInv, RefsAgree
    <2>2. /\ Decides(down[1], k) => (k \in foot'[q] <=> Keeps(down[1], k))
          /\ ~Decides(down[1], k) => (k \in foot'[q] <=> k \in foot[q])
      BY <1>1, <1>3, RefoldsFoot, Zenon
    <2>3. CASE Decides(down[1], k)
      <3>1. k \in DOMAIN ops /\ ops[k].op = IF k \in foot[q] THEN "edit" ELSE "add"
        BY <1>3, <2>1, <2>2, <2>3, Zenon DEF Refolds
      <3>2. ops[k].op # "remove"
        BY <3>1
      <3> QED
        BY <1>7, <3>1, <3>2, Zenon
    <2>4. CASE ~Decides(down[1], k)
      <3>1. k \notin DOMAIN ops /\ IsLive(q) /\ k \in foot[q]
        BY <1>3, <2>1, <2>2, <2>4, Zenon DEF Refolds
      <3>2. q \in refs[k]
        BY <1>1, <3>1, Zenon DEF SyncInv, RefsAgree
      <3>3. Shows(cell[k], q)
        BY <1>1, <3>1, <3>2, UnionParts, Zenon DEF IsLive
      <3> QED
        BY <1>7, <3>1, <3>3, Zenon
    <2> QED
      BY <2>3, <2>4, Zenon
  <1>9. \A k \in Key : refs'[k] \subseteq Query
    BY <1>2, Zenon DEF TypeOK
  <1>10. \A k \in Key : \A c \in Col : cell'[k][c] # Absent => \E p \in refs'[k] : c \in qcols'[p]
    BY <1>3, <1>7, Zenon DEF Covers
  <1>11. ASSUME NEW k \in Key, NEW p \in refs'[k], phase'[p] = "live", NEW c \in qcols'[p]
         PROVE  cell'[k][c] # Absent
    <2>1. p \in Query /\ c \in qcols[p]
      BY <1>3, <1>9, Zenon
    <2>2. CASE p = q
      BY <1>8, <2>1, <2>2, Zenon DEF Shows
    <2>3. CASE p # q
      BY <1>3, <1>7, <1>11, <2>1, <2>3, Zenon DEF Shows
    <2> QED
      BY <2>2, <2>3, Zenon
  <1> QED
    BY <1>2, <1>10, <1>11, UnionNext, Zenon

(* A query given up takes its columns with it, from every row it held.        *)
LEMMA UnionUnregistered ==
  ASSUME StreamInv, StreamInv', UnionExact, NEW q \in Query, UnregisterQuery(q)
  PROVE  UnionExact'
  <1> DEFINE ops == [k \in foot[q] |-> [op |-> "remove", row |-> <<>>]]
  <1>1. TypeOK /\ SyncInv
    BY Parts, Zenon
  <1>2. TypeOK' /\ SyncInv'
    BY Zenon DEF StreamInv
  <1>3. FoldOps(q, ops) /\ qcols' = [qcols EXCEPT ![q] = {}] /\ CloseSubscriber(q)
    BY Zenon DEF UnregisterQuery, DropQuery
  <1>4. DOMAIN ops = foot[q] /\ \A k \in foot[q] : ops[k].op = "remove"
    BY Zenon
  <1> HIDE DEF ops
  <1>5. foot' = [foot EXCEPT ![q] = (@ \cup {k \in DOMAIN ops : ops[k].op = "add"}) \ {k \in DOMAIN ops : ops[k].op = "remove"}]
    BY <1>3, Zenon DEF FoldOps
  <1>6. foot \in [Query -> SUBSET Key] /\ qcols \in [Query -> SUBSET Col]
    BY <1>1, Zenon DEF TypeOK
  <1>7. foot'[q] = {}
    BY <1>4, <1>5, <1>6, Zenon
  <1>8. \A k \in Key : refs'[k] \subseteq Query /\ q \notin refs'[k]
    BY <1>2, <1>7, Zenon DEF SyncInv, RefsAgree
  <1>9. \A p \in Query : p # q => phase'[p] = phase[p] /\ qcols'[p] = qcols[p]
    BY <1>1, <1>3, <1>6, CloseTypes, Zenon
  <1>10. ASSUME NEW k \in Key
         PROVE  /\ Covers(cell'[k], refs'[k])
                /\ \A p \in refs'[k] : p # q /\ phase[p] = "live" => Shows(cell'[k], p)
    BY <1>1, <1>3, <1>4, FoldUnion, Zenon
  <1>11. ASSUME NEW k \in Key, NEW c \in Col, cell'[k][c] # Absent
         PROVE  \E p \in refs'[k] : c \in qcols'[p]
    <2>1. PICK p \in refs'[k] : c \in qcols[p]
      BY <1>10, <1>11, Zenon DEF Covers
    <2>2. qcols'[p] = qcols[p]
      BY <1>8, <1>9, Zenon
    <2> QED
      BY <2>1, <2>2, Zenon
  <1>12. \A k \in Key : \A p \in refs'[k] : phase'[p] = "live" => \A c \in qcols'[p] : cell'[k][c] # Absent
    BY <1>8, <1>9, <1>10, Zenon DEF Shows
  <1> QED
    BY <1>2, <1>11, <1>12, UnionNext, Zenon

-----------------------------------------------------------------------------
LEMMA UnionInit == ASSUME Init, ~Narrowing PROVE UnionInv
  <1>1. StreamInv /\ TypeOK
    BY StreamInit, Zenon DEF StreamInv
  <1>2. down = <<>>
    BY Zenon DEF Init
  <1>3. DOMAIN down = {}
    BY <1>2, SMT
  <1>4. \A q \in Query : Widens(q)
    BY <1>3, Zenon DEF Init, Widens
  <1>5. \A k \in Key : refs[k] = {} /\ \A c \in Col : cell[k][c] = Absent
    BY Zenon DEF Init, Blank
  <1>6. UnionExact
    BY <1>1, <1>5, UnionParts, Zenon DEF Covers
  <1> QED
    BY <1>1, <1>4, <1>6, Zenon DEF UnionInv

LEMMA UnionStep == ASSUME UnionInv, [Next]_vars PROVE UnionInv'
  <1>1. ~Narrowing /\ StreamInv /\ UnionExact /\ \A q \in Query : Widens(q)
    BY Zenon DEF UnionInv
  <1>2. StreamInv'
    BY <1>1, StreamStep, Zenon
  <1>3. TypeOK /\ TypeOK' /\ Lives
    BY <1>1, <1>2, Zenon DEF StreamInv
  <1>4. \A q \in Query : Widens(q)'
    <2>1. CASE UNCHANGED vars
      BY <1>1, <1>3, <2>1, WidensSame, Zenon DEF vars, srvVars, srcVars, syncVars
    <2> QED
      BY <1>1, <2>1, WidensClient, WidensServer, Zenon DEF Next
  <1>5. ASSUME OnSnapshot \/ OnBatch PROVE UnionExact'
    BY <1>1, <1>2, <1>5, SnapshotApplied, BatchApplied, UnionApplied, Zenon
  <1>6. ASSUME NEW q \in Query, UnregisterQuery(q) PROVE UnionExact'
    BY <1>1, <1>2, <1>6, UnionUnregistered, Zenon
  <1>7. ASSUME OnHello PROVE UnionExact'
    <2>1. Take /\ Head(down).q \in subs /\ Head(down).t = "hello" /\ UNCHANGED <<refs, cell>>
      BY <1>7, Zenon DEF OnHello
    <2>2. /\ qcols' = [qcols EXCEPT ![Head(down).q] = Head(down).cols]
          /\ phase' = [phase EXCEPT ![Head(down).q] = "snapshot"]
      BY <1>7, Zenon DEF OnHello
    <2>3. Head(down) = down[1] /\ 1 \in DOMAIN down /\ down[1] \in Frame
      BY <1>3, <2>1, Takes, Zenon
    <2>4. PICK q \in Query : q = down[1].q
      BY <2>3, FrameTypes, Zenon
    <2>5. qcols \in [Query -> SUBSET Col] /\ phase \in [Query -> {"none", "snapshot", "live"}]
      BY <1>3, Zenon DEF TypeOK
    <2>6. /\ qcols'[q] = down[1].cols /\ phase'[q] = "snapshot"
          /\ \A p \in Query : p # q => qcols'[p] = qcols[p] /\ phase'[p] = phase[p]
      BY <2>2, <2>3, <2>4, <2>5, Zenon
    <2>7. IsHello(down[1], q) /\ life[q] = "retained"
      BY <1>3, <2>1, <2>3, <2>4, Zenon DEF IsHello, Lives
    <2>8. qcols[q] \subseteq down[1].cols
      BY <1>1, <2>3, <2>7 DEF Widens
    <2>9. \A p \in Query : qcols[p] \subseteq qcols'[p]
      BY <2>6, <2>8, Zenon
    <2>10. \A p \in Query : phase'[p] = "live" => phase[p] = "live" /\ qcols'[p] = qcols[p]
      BY <2>6
    <2> QED
      BY <1>1, <1>3, <2>1, <2>9, <2>10, UnionKept, Zenon
  <1>8. ASSUME OnGap \/ OnQueryError PROVE UnionExact'
    <2>1. UNCHANGED <<refs, cell, qcols>> /\ Take
      BY <1>8, Zenon DEF OnGap, OnQueryError, syncVars
    <2>2. phase' = phase \/ CloseSubscriber(Head(down).q)
      BY <1>8, Zenon DEF OnGap, OnQueryError
    <2>3. Head(down).q \in Query
      BY <1>3, <2>1, Takes, FrameTypes, Zenon
    <2>4. \A p \in Query : phase'[p] = "live" => phase[p] = "live"
      BY <1>3, <2>2, <2>3, CloseTypes
    <2> QED
      BY <1>1, <1>3, <2>1, <2>4, UnionKept, Zenon
  <1>9. ASSUME Server PROVE UNCHANGED <<refs, cell, qcols, phase>>
    BY <1>9, Zenon DEF Server, Answer, Unsubscribed, Commit, WriteRow, Lose, Fault, srcVars, syncVars
  <1>10. ASSUME IgnoreFrame \/ SkipBatch \/ \E q \in Query : RegisterQuery(q) \/ RetryTimer(q)
         PROVE  UNCHANGED <<refs, cell, qcols, phase>>
    BY <1>10, Zenon DEF IgnoreFrame, SkipBatch, RegisterQuery, RetryTimer, srcVars, syncVars
  <1>11. ASSUME UNCHANGED vars PROVE UNCHANGED <<refs, cell, qcols, phase>>
    BY <1>11, Zenon DEF vars, srcVars, syncVars
  <1>12. UnionExact'
    <2>1. ASSUME UNCHANGED <<refs, cell, qcols, phase>> PROVE UnionExact'
      BY <1>1, <1>3, <2>1, UnionKept, Zenon
    <2> QED
      BY <1>5, <1>6, <1>7, <1>8, <1>9, <1>10, <1>11, <2>1, Zenon DEF Next, Client
  <1> QED
    BY <1>1, <1>2, <1>4, <1>12, Zenon DEF UnionInv

(* While no re-subscribe narrows a layout, a shared row has a cell only where *)
(* a query that references it contributes one, and every cell of each query   *)
(* whose subscriber is live: scatter, merge and narrow keep the column union  *)
(* exact through losses, re-subscribes and the other queries' departures.     *)
THEOREM UnionAlways == ~Narrowing /\ Spec => []UnionExact
  <1>1. ~Narrowing /\ Init => UnionInv
    BY UnionInit, Zenon
  <1>2. UnionInv /\ [Next]_vars => UnionInv'
    BY UnionStep, Zenon
  <1>3. UnionInv => UnionExact
    BY Zenon DEF UnionInv
  <1> QED
    BY <1>1, <1>2, <1>3, PTL DEF Spec

=============================================================================
