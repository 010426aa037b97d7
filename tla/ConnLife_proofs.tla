--------------------------- MODULE ConnLife_proofs ---------------------------
(* Proofs about the connection table and its push index, for any connections, *)
(* any changes and any number of connects.                                    *)
EXTENDS ConnLife, FiniteSetTheorems, TLAPS

(* Connections that agree in guard and split key index alike. *)
Alike(hs, conns, others) ==
  \A x \in hs : conns[x.idx].guard = others[x.idx].guard /\ conns[x.idx].split = others[x.idx].split

(* Wiring an output does not concern the index. *)
LEMMA RebuiltAlike ==
  ASSUME NEW hs, NEW conns, NEW others, Alike(hs, conns, others)
  PROVE  Rebuilt(hs, others) = Rebuilt(hs, conns)
<1>1. UNION {GuardKeys(others[h.idx].guard) : h \in hs} = UNION {GuardKeys(conns[h.idx].guard) : h \in hs}
  BY Zenon DEF Alike
<1>2. \A k : {x \in hs : k \in GuardKeys(others[x.idx].guard)} = {x \in hs : k \in GuardKeys(conns[x.idx].guard)}
  BY Zenon DEF Alike
<1>3. {x \in hs : ~IsSome(others[x.idx].guard)} = {x \in hs : ~IsSome(conns[x.idx].guard)}
  BY Zenon DEF Alike
<1>4. UNION {others[h.idx].split : h \in hs} = UNION {conns[h.idx].split : h \in hs}
  BY Zenon DEF Alike
<1>5. \A k : {h \in hs : k \in others[h.idx].split} = {h \in hs : k \in conns[h.idx].split}
  BY Zenon DEF Alike
<1>6. Rebuilt(hs, others).eq = Rebuilt(hs, conns).eq
  BY <1>1, <1>2, Zenon DEF Rebuilt
<1>7. Rebuilt(hs, others).split = Rebuilt(hs, conns).split
  BY <1>4, <1>5, Zenon DEF Rebuilt
<1> QED
  BY <1>3, <1>6, <1>7, Zenon DEF Rebuilt

Inserted(hs, conns, others, h, more) ==
  Rebuilt(more, others)
    = IndexInsert(Rebuilt(hs, conns), h.idx, others[h.idx].guard, others[h.idx].split)

OneMore(hs, h, more) == h \notin hs /\ more = hs \cup {h}

(* The index of a set of handles with one more is what insert makes of it. *)
LEMMA InsertExact ==
  ASSUME NEW hs, IsFiniteSet(hs), NEW conns, NEW others, NEW h, NEW more, OneMore(hs, h, more),
         Alike(hs, conns, others)
  PROVE  Inserted(hs, conns, others, h, more)
<1> DEFINE R == Rebuilt(hs, conns)
           S == Rebuilt(hs \cup {h}, others)
           I == IndexInsert(R, h.idx, others[h.idx].guard, others[h.idx].split)
           K == GuardKeys(others[h.idx].guard)
<1>0. h \notin hs /\ more = hs \cup {h}
  BY Zenon DEF OneMore
<1>1. DOMAIN R.eq = UNION {GuardKeys(others[x.idx].guard) : x \in hs}
  BY Zenon DEF Rebuilt, Alike
<1>2. DOMAIN S.eq = DOMAIN R.eq \cup K
  <2>1. DOMAIN S.eq = UNION {GuardKeys(others[x.idx].guard) : x \in hs \cup {h}}
    BY Zenon DEF Rebuilt
  <2> QED
    BY <1>1, <2>1, Zenon
<1>3. \A k : Bucket(R, k) = {x.idx : x \in {y \in hs : k \in GuardKeys(others[y.idx].guard)}}
  <2> SUFFICES ASSUME NEW k
               PROVE  Bucket(R, k) = {x.idx : x \in {y \in hs : k \in GuardKeys(others[y.idx].guard)}}
    OBVIOUS
  <2>1. {y \in hs : k \in GuardKeys(others[y.idx].guard)} = {y \in hs : k \in GuardKeys(conns[y.idx].guard)}
    BY Zenon DEF Alike
  <2>2. CASE k \in DOMAIN R.eq
    BY <2>1, <2>2, Zenon DEF Rebuilt, Bucket
  <2>3. CASE k \notin DOMAIN R.eq
    <3>1. {y \in hs : k \in GuardKeys(others[y.idx].guard)} = {}
      BY <1>1, <2>3, Zenon
    <3> QED
      BY <2>3, <3>1, Zenon DEF Bucket
  <2> QED
    BY <2>2, <2>3, Zenon
<1>4. \A k \in DOMAIN S.eq : S.eq[k] = IF k \in K THEN Bucket(R, k) \cup {h.idx} ELSE R.eq[k]
  <2> SUFFICES ASSUME NEW k \in DOMAIN S.eq
               PROVE  S.eq[k] = IF k \in K THEN Bucket(R, k) \cup {h.idx} ELSE R.eq[k]
    BY Zenon
  <2>1. S.eq[k] = {x.idx : x \in {y \in hs \cup {h} : k \in GuardKeys(others[y.idx].guard)}}
    BY Zenon DEF Rebuilt
  <2>2. CASE k \in K
    <3>1. {y \in hs \cup {h} : k \in GuardKeys(others[y.idx].guard)} = {y \in hs : k \in GuardKeys(others[y.idx].guard)} \cup {h}
      BY <2>2, Zenon
    <3> QED
      BY <1>3, <2>1, <2>2, <3>1, Zenon
  <2>3. CASE k \notin K
    <3>1. {y \in hs \cup {h} : k \in GuardKeys(others[y.idx].guard)} = {y \in hs : k \in GuardKeys(others[y.idx].guard)}
      BY <2>3, Zenon
    <3>2. Bucket(R, k) = R.eq[k]
      BY <1>2, <2>3, Zenon DEF Bucket
    <3> QED
      BY <1>3, <2>1, <2>3, <3>1, <3>2, Zenon
  <2> QED
    BY <2>2, <2>3, Zenon
<1>5. S.eq = I.eq
  <2>1. I.eq = [k \in DOMAIN R.eq \cup K |-> IF k \in K THEN Bucket(R, k) \cup {h.idx} ELSE R.eq[k]]
    BY Zenon DEF IndexInsert
  <2>2. S.eq = [k \in DOMAIN S.eq |-> S.eq[k]]
    BY Zenon DEF Rebuilt
  <2> QED
    BY <1>2, <1>4, <2>1, <2>2, Zenon
<1>6. S.scan = I.scan
  <2>1. S.scan = {x.idx : x \in {y \in hs \cup {h} : ~IsSome(others[y.idx].guard)}}
    BY Zenon DEF Rebuilt
  <2>2. R.scan = {x.idx : x \in {y \in hs : ~IsSome(others[y.idx].guard)}}
    BY Zenon DEF Rebuilt, Alike
  <2>3. I.scan = IF IsSome(others[h.idx].guard) THEN R.scan ELSE R.scan \cup {h.idx}
    BY Zenon DEF IndexInsert
  <2> QED
    BY <2>1, <2>2, <2>3, Zenon
<1>7. S.split = I.split
  <2>1. DOMAIN R.split = UNION {others[x.idx].split : x \in hs}
    BY Zenon DEF Rebuilt, Alike
  <2>2. DOMAIN S.split = DOMAIN R.split \cup others[h.idx].split
    <3>1. DOMAIN S.split = UNION {others[x.idx].split : x \in hs \cup {h}}
      BY Zenon DEF Rebuilt
    <3> QED
      BY <2>1, <3>1, Zenon
  <2>3. \A k : SplitCount(R, k) = Cardinality({x \in hs : k \in others[x.idx].split})
    <3> SUFFICES ASSUME NEW k
                 PROVE  SplitCount(R, k) = Cardinality({x \in hs : k \in others[x.idx].split})
      OBVIOUS
    <3>1. {x \in hs : k \in others[x.idx].split} = {x \in hs : k \in conns[x.idx].split}
      BY Zenon DEF Alike
    <3>2. CASE k \in DOMAIN R.split
      BY <3>1, <3>2, Zenon DEF Rebuilt, SplitCount
    <3>3. CASE k \notin DOMAIN R.split
      <4>1. {x \in hs : k \in others[x.idx].split} = {}
        BY <2>1, <3>3, Zenon
      <4> QED
        BY <3>3, <4>1, FS_EmptySet, Zenon DEF SplitCount
    <3> QED
      BY <3>2, <3>3, Zenon
  <2>4. \A k \in DOMAIN S.split : S.split[k] = SplitCount(R, k) + IF k \in others[h.idx].split THEN 1 ELSE 0
    <3> SUFFICES ASSUME NEW k \in DOMAIN S.split
                 PROVE  S.split[k] = SplitCount(R, k) + IF k \in others[h.idx].split THEN 1 ELSE 0
      OBVIOUS
    <3> DEFINE T == {x \in hs : k \in others[x.idx].split}
    <3>1. S.split[k] = Cardinality({x \in hs \cup {h} : k \in others[x.idx].split})
      BY Zenon DEF Rebuilt
    <3>2. IsFiniteSet(T) /\ Cardinality(T) \in Nat
      BY FS_Subset, FS_CardinalityType
    <3>3. CASE k \in others[h.idx].split
      <4>1. {x \in hs \cup {h} : k \in others[x.idx].split} = T \cup {h}
        BY <3>3, Zenon
      <4>2. Cardinality(T \cup {h}) = Cardinality(T) + 1
        BY <1>0, <3>2, FS_AddElement, Zenon
      <4> QED
        BY <2>3, <3>1, <3>3, <4>1, <4>2, Zenon
    <3>4. CASE k \notin others[h.idx].split
      <4>1. {x \in hs \cup {h} : k \in others[x.idx].split} = T
        BY <3>4, Zenon
      <4>2. SplitCount(R, k) = Cardinality(T)
        BY <2>3, Zenon
      <4>3. Cardinality(T) + 0 = Cardinality(T)
        BY <3>2
      <4> QED
        BY <3>1, <3>4, <4>1, <4>2, <4>3, Zenon
    <3> QED
      BY <3>3, <3>4, Zenon
  <2>5. I.split = [k \in DOMAIN R.split \cup others[h.idx].split |->
                     SplitCount(R, k) + IF k \in others[h.idx].split THEN 1 ELSE 0]
    BY Zenon DEF IndexInsert
  <2>6. S.split = [k \in DOMAIN S.split |-> S.split[k]]
    BY Zenon DEF Rebuilt
  <2> QED
    BY <2>2, <2>4, <2>5, <2>6, Zenon
<1>8. S = [eq |-> S.eq, scan |-> S.scan, split |-> S.split] /\ I = [eq |-> I.eq, scan |-> I.scan, split |-> I.split]
  BY Zenon DEF Rebuilt, IndexInsert
<1> QED
  BY <1>0, <1>5, <1>6, <1>7, <1>8, Zenon DEF Inserted

(* Taking a slot out of the slots of some handles is taking its handle out, as *)
(* long as no other handle stands for the same slot.                          *)
LEMMA SlotsWithout ==
  ASSUME NEW hs, NEW h, \A x \in hs \ {h} : x.idx # h.idx
  PROVE  {x.idx : x \in hs} \ {h.idx} = {x.idx : x \in hs \ {h}}
<1>1. ASSUME NEW i \in {x.idx : x \in hs} \ {h.idx}
      PROVE  i \in {x.idx : x \in hs \ {h}}
  <2>1. PICK x \in hs : i = x.idx
    BY Zenon
  <2>2. x # h
    BY <2>1, Zenon
  <2> QED
    BY <2>1, <2>2, Zenon
<1>2. ASSUME NEW i \in {x.idx : x \in hs \ {h}}
      PROVE  i \in {x.idx : x \in hs} \ {h.idx}
  <2>1. PICK x \in hs \ {h} : i = x.idx
    BY Zenon
  <2> QED
    BY <2>1, Zenon
<1> QED
  BY <1>1, <1>2, Zenon

(* The index of a set of handles with one less is what remove makes of it, as *)
(* long as no other handle stands for the same slot.                          *)
LEMMA RemoveExact ==
  ASSUME NEW hs, IsFiniteSet(hs), NEW conns, NEW h \in hs, \A x \in hs \ {h} : x.idx # h.idx
  PROVE  Rebuilt(hs \ {h}, conns)
           = IndexRemove(Rebuilt(hs, conns), h.idx, conns[h.idx].guard, conns[h.idx].split)
<1> DEFINE R == Rebuilt(hs, conns)
           S == Rebuilt(hs \ {h}, conns)
           I == IndexRemove(R, h.idx, conns[h.idx].guard, conns[h.idx].split)
           K == GuardKeys(conns[h.idx].guard)
           C == conns[h.idx].split
           left(k) == IF k \in K THEN R.eq[k] \ {h.idx} ELSE R.eq[k]
           count(k) == R.split[k] - IF k \in C THEN 1 ELSE 0
           Of(k) == {x \in hs : k \in GuardKeys(conns[x.idx].guard)}
           Need(k) == {x \in hs : k \in conns[x.idx].split}
<1>1. DOMAIN R.eq = UNION {GuardKeys(conns[x.idx].guard) : x \in hs}
  BY Zenon DEF Rebuilt
<1>2. \A k \in DOMAIN R.eq : R.eq[k] = {x.idx : x \in Of(k)}
  BY Zenon DEF Rebuilt
<1>3. \A k \in DOMAIN R.eq : left(k) = {x.idx : x \in Of(k) \ {h}}
  <2> SUFFICES ASSUME NEW k \in DOMAIN R.eq
               PROVE  left(k) = {x.idx : x \in Of(k) \ {h}}
    OBVIOUS
  <2>1. CASE k \in K
    <3>1. {x.idx : x \in Of(k)} \ {h.idx} = {x.idx : x \in Of(k) \ {h}}
      <4>1. \A x \in Of(k) \ {h} : x.idx # h.idx
        BY Zenon
      <4> HIDE DEF Of
      <4> QED
        BY <4>1, SlotsWithout, Zenon
    <3> QED
      BY <1>2, <2>1, <3>1, Zenon
  <2>2. CASE k \notin K
    <3>1. Of(k) \ {h} = Of(k)
      BY <2>2, Zenon
    <3> QED
      BY <1>2, <2>2, <3>1, Zenon
  <2> QED
    BY <2>1, <2>2, Zenon
<1>4. DOMAIN S.eq = {k \in DOMAIN R.eq : left(k) # {}}
  <2>1. DOMAIN S.eq = UNION {GuardKeys(conns[x.idx].guard) : x \in hs \ {h}}
    BY Zenon DEF Rebuilt
  <2>2. \A k \in DOMAIN R.eq : left(k) # {} <=> \E x \in hs \ {h} : k \in GuardKeys(conns[x.idx].guard)
    <3> SUFFICES ASSUME NEW k \in DOMAIN R.eq
                 PROVE  left(k) # {} <=> \E x \in hs \ {h} : k \in GuardKeys(conns[x.idx].guard)
      OBVIOUS
    <3>1. left(k) = {x.idx : x \in Of(k) \ {h}}
      BY <1>3, Zenon
    <3>2. Of(k) \ {h} # {} <=> \E x \in hs \ {h} : k \in GuardKeys(conns[x.idx].guard)
      BY Zenon
    <3> HIDE DEF left, Of
    <3> QED
      BY <3>1, <3>2
  <2>3. \A k : k \in DOMAIN S.eq <=> \E x \in hs \ {h} : k \in GuardKeys(conns[x.idx].guard)
    BY <2>1, Zenon
  <2>4. \A k : (\E x \in hs \ {h} : k \in GuardKeys(conns[x.idx].guard)) => k \in DOMAIN R.eq
    BY <1>1, Zenon
  <2> HIDE DEF left, S, R
  <2> QED
    BY <2>2, <2>3, <2>4, Zenon
<1>5. \A k \in DOMAIN S.eq : S.eq[k] = left(k)
  <2> SUFFICES ASSUME NEW k \in DOMAIN S.eq
               PROVE  S.eq[k] = left(k)
    BY Zenon
  <2>1. S.eq[k] = {x.idx : x \in {y \in hs \ {h} : k \in GuardKeys(conns[y.idx].guard)}}
    BY Zenon DEF Rebuilt
  <2>2. {y \in hs \ {h} : k \in GuardKeys(conns[y.idx].guard)} = Of(k) \ {h}
    BY Zenon
  <2>3. k \in DOMAIN R.eq
    BY <1>4, Zenon
  <2> QED
    BY <1>3, <2>1, <2>2, <2>3, Zenon
<1>6. S.eq = I.eq
  <2>1. I.eq = [k \in {j \in DOMAIN R.eq : left(j) # {}} |-> left(k)]
    BY Zenon DEF IndexRemove
  <2>2. S.eq = [k \in DOMAIN S.eq |-> S.eq[k]]
    BY Zenon DEF Rebuilt
  <2> HIDE DEF left, S, I, R
  <2> QED
    BY <1>4, <1>5, <2>1, <2>2, Zenon
<1>7. S.scan = I.scan
  <2> DEFINE Open == {x \in hs : ~IsSome(conns[x.idx].guard)}
  <2>1. S.scan = {x.idx : x \in {y \in hs \ {h} : ~IsSome(conns[y.idx].guard)}}
    BY Zenon DEF Rebuilt
  <2>2. R.scan = {x.idx : x \in Open}
    BY Zenon DEF Rebuilt
  <2>3. I.scan = IF IsSome(conns[h.idx].guard) THEN R.scan ELSE R.scan \ {h.idx}
    BY Zenon DEF IndexRemove
  <2>4. {y \in hs \ {h} : ~IsSome(conns[y.idx].guard)} = Open \ {h}
    BY Zenon
  <2>5. CASE IsSome(conns[h.idx].guard)
    <3>1. Open \ {h} = Open
      BY <2>5, Zenon
    <3> QED
      BY <2>1, <2>2, <2>3, <2>4, <2>5, <3>1, Zenon
  <2>6. CASE ~IsSome(conns[h.idx].guard)
    <3>1. {x.idx : x \in Open} \ {h.idx} = {x.idx : x \in Open \ {h}}
      <4>1. \A x \in Open \ {h} : x.idx # h.idx
        BY Zenon
      <4> HIDE DEF Open
      <4> QED
        BY <4>1, SlotsWithout, Zenon
    <3> QED
      BY <2>1, <2>2, <2>3, <2>4, <2>6, <3>1, Zenon
  <2> QED
    BY <2>5, <2>6, Zenon
<1>8. DOMAIN R.split = UNION {conns[x.idx].split : x \in hs}
  BY Zenon DEF Rebuilt
<1>9. \A k : IsFiniteSet(Need(k) \ {h}) /\ Cardinality(Need(k) \ {h}) \in Nat
  BY FS_Subset, FS_CardinalityType
<1>10. \A k \in DOMAIN R.split : count(k) = Cardinality(Need(k) \ {h})
  <2> SUFFICES ASSUME NEW k \in DOMAIN R.split
               PROVE  count(k) = Cardinality(Need(k) \ {h})
    OBVIOUS
  <2>1. R.split[k] = Cardinality(Need(k))
    BY Zenon DEF Rebuilt
  <2>2. IsFiniteSet(Need(k)) /\ Cardinality(Need(k)) \in Nat
    BY FS_Subset, FS_CardinalityType
  <2>3. CASE k \in C
    <3>1. h \in Need(k)
      BY <2>3, Zenon
    <3>2. Cardinality(Need(k) \ {h}) = Cardinality(Need(k)) - 1
      BY <2>2, <3>1, FS_RemoveElement, Zenon
    <3> QED
      BY <2>1, <2>3, <3>2, Zenon
  <2>4. CASE k \notin C
    <3>1. Need(k) \ {h} = Need(k)
      BY <2>4, Zenon
    <3>2. Cardinality(Need(k)) - 0 = Cardinality(Need(k))
      BY <2>2
    <3> QED
      BY <2>1, <2>4, <3>1, <3>2, Zenon
  <2> QED
    BY <2>3, <2>4, Zenon
<1>11. DOMAIN S.split = {k \in DOMAIN R.split : count(k) # 0}
  <2>1. DOMAIN S.split = UNION {conns[x.idx].split : x \in hs \ {h}}
    BY Zenon DEF Rebuilt
  <2>2. \A k : Cardinality(Need(k) \ {h}) # 0 <=> \E x \in hs \ {h} : k \in conns[x.idx].split
    <3> SUFFICES ASSUME NEW k
                 PROVE  Cardinality(Need(k) \ {h}) # 0 <=> \E x \in hs \ {h} : k \in conns[x.idx].split
      OBVIOUS
    <3>1. Cardinality(Need(k) \ {h}) = 0 <=> Need(k) \ {h} = {}
      BY <1>9, FS_EmptySet, Zenon
    <3> QED
      BY <3>1, Zenon
  <2>3. \A k \in DOMAIN R.split : count(k) # 0 <=> \E x \in hs \ {h} : k \in conns[x.idx].split
    <3> HIDE DEF count, Need
    <3> QED
      BY <1>10, <2>2, Zenon
  <2>4. \A k : k \in DOMAIN S.split <=> \E x \in hs \ {h} : k \in conns[x.idx].split
    BY <2>1, Zenon
  <2>5. \A k : (\E x \in hs \ {h} : k \in conns[x.idx].split) => k \in DOMAIN R.split
    BY <1>8, Zenon
  <2> HIDE DEF count, S, R
  <2> QED
    BY <2>3, <2>4, <2>5, Zenon
<1>12. \A k \in DOMAIN S.split : S.split[k] = count(k)
  <2> SUFFICES ASSUME NEW k \in DOMAIN S.split
               PROVE  S.split[k] = count(k)
    OBVIOUS
  <2>1. S.split[k] = Cardinality({x \in hs \ {h} : k \in conns[x.idx].split})
    BY Zenon DEF Rebuilt
  <2>2. {x \in hs \ {h} : k \in conns[x.idx].split} = Need(k) \ {h}
    BY Zenon
  <2>3. k \in DOMAIN R.split
    <3> HIDE DEF count
    <3> QED
      BY <1>11, Zenon
  <2> HIDE DEF count
  <2> QED
    BY <1>10, <2>1, <2>2, <2>3, Zenon
<1>13. S.split = I.split
  <2>1. I.split = [k \in {j \in DOMAIN R.split : count(j) # 0} |-> count(k)]
    BY Zenon DEF IndexRemove
  <2>2. S.split = [k \in DOMAIN S.split |-> S.split[k]]
    BY Zenon DEF Rebuilt
  <2> HIDE DEF count, S, I, R
  <2> QED
    BY <1>11, <1>12, <2>1, <2>2, Zenon
<1>14. S = [eq |-> S.eq, scan |-> S.scan, split |-> S.split] /\ I = [eq |-> I.eq, scan |-> I.scan, split |-> I.split]
  BY Zenon DEF Rebuilt, IndexRemove
<1> QED
  BY <1>6, <1>7, <1>13, <1>14, Zenon

-----------------------------------------------------------------------------
(* What every reachable table satisfies.  A slot is in use by at most one     *)
(* handle, which carries the slot's present generation; a free slot by none;  *)
(* a handle given back is of an earlier generation.                           *)
ConnRecs ==
  [guard : {c.guard : c \in Conns}, split : {c.split : c \in Conns}, out : {None, Some(Edge0)}]

ConnShape ==
  /\ connTable = [conns |-> connTable.conns, gens |-> connTable.gens,
                  free |-> connTable.free, index |-> connTable.index]
  /\ connTable.conns \in Seq(ConnRecs)
  /\ connTable.gens \in Seq(Nat)
  /\ Len(connTable.gens) = Len(connTable.conns)
  /\ connTable.free \in Seq(DOMAIN connTable.gens)
  /\ \A i, j \in DOMAIN connTable.free : connTable.free[i] = connTable.free[j] => i = j
  /\ alive \in SUBSET [idx : DOMAIN connTable.gens, gen : Nat]
  /\ dead \in SUBSET [idx : DOMAIN connTable.gens, gen : Nat]
  /\ IsFiniteSet(alive)

Generations ==
  /\ \A h \in alive : connTable.gens[h.idx] = h.gen
  /\ \A h \in alive, i \in DOMAIN connTable.free : connTable.free[i] # h.idx
  /\ \A h \in dead : h.gen < connTable.gens[h.idx]

ConnInv == ConnShape /\ Generations /\ IndexExact

(* No two handles in use stand for the same slot. *)
LEMMA OneHandlePerSlot ==
  ASSUME ConnShape, Generations
  PROVE  \A a, b \in alive : a.idx = b.idx => a = b
<1> SUFFICES ASSUME NEW a \in alive, NEW b \in alive, a.idx = b.idx
             PROVE  a = b
  OBVIOUS
<1>1. a.gen = b.gen
  BY Zenon DEF Generations
<1>2. a \in [idx : DOMAIN connTable.gens, gen : Nat] /\ b \in [idx : DOMAIN connTable.gens, gen : Nat]
  BY Zenon DEF ConnShape
<1> QED
  BY <1>1, <1>2

(* The function of no argument is the empty sequence. *)
LEMMA NoArgument ==
  ASSUME NEW f, f = [k \in DOMAIN f |-> f[k]], DOMAIN f = {}
  PROVE  f = <<>>
<1>1. f \in [1..0 -> {}]
  OBVIOUS
<1>2. f \in Seq({}) /\ Len(f) = 0
  BY <1>1
<1> QED
  BY <1>2

LEMMA ConnInitInv == ConnInit => ConnInv
<1> SUFFICES ASSUME ConnInit
             PROVE  ConnInv
  OBVIOUS
<1>1. ConnShape
  BY FS_EmptySet DEF ConnInit, ConnShape, EmptyTable
<1>2. Generations
  BY DEF ConnInit, Generations, EmptyTable
<1>3. IndexExact
  <2> DEFINE R == Rebuilt({}, <<>>)
  <2>1. R = [eq |-> R.eq, scan |-> R.scan, split |-> R.split]
    BY Zenon DEF Rebuilt
  <2>2. R.eq = [k \in DOMAIN R.eq |-> R.eq[k]] /\ DOMAIN R.eq = {}
    BY Zenon DEF Rebuilt
  <2>3. R.split = [k \in DOMAIN R.split |-> R.split[k]] /\ DOMAIN R.split = {}
    BY Zenon DEF Rebuilt
  <2>4. R.scan = {}
    BY Zenon DEF Rebuilt
  <2>5. R.eq = <<>> /\ R.split = <<>>
    <3> HIDE DEF R
    <3> QED
      BY <2>2, <2>3, NoArgument, Zenon
  <2>6. R = EmptyIndex
    BY <2>1, <2>4, <2>5, Zenon DEF EmptyIndex
  <2>7. connTable.conns = <<>> /\ connTable.index = EmptyIndex /\ alive = {}
    BY DEF ConnInit, EmptyTable
  <2> QED
    BY <2>6, <2>7, Zenon DEF IndexExact
<1> QED
  BY <1>1, <1>2, <1>3 DEF ConnInv

(* A connect takes a slot no handle in use stands for. *)
LEMMA OpenConnInv ==
  ASSUME ConnInv, NEW c \in Conns, OpenConn(c)
  PROVE  ConnInv'
<1> DEFINE slot == NextSlot(connTable)
           h == ConnIdAt(connTable, slot)
<1> USE DEF ConnInv
<1>1. c \in ConnRecs
  BY ConnsAssumption DEF ConnRecs
<1>2. h.idx = slot /\ alive' = alive \cup {h} /\ dead' = dead
  BY DEF OpenConn, ConnIdAt
<1>3. IsFiniteSet(alive')
  BY <1>2, FS_AddElement, Zenon DEF ConnShape
<1>4. CASE connTable.free # <<>>
  <2>1. slot = connTable.free[Len(connTable.free)] /\ Len(connTable.free) \in DOMAIN connTable.free
    BY <1>4 DEF NextSlot, ConnShape
  <2>2. slot \in DOMAIN connTable.gens /\ slot \in DOMAIN connTable.conns
    BY <2>1 DEF ConnShape
  <2>3. h = [idx |-> slot, gen |-> connTable.gens[slot]] /\ connTable.gens[slot] \in Nat
    BY <2>2 DEF ConnIdAt, ConnShape
  <2>4. connTable' = [conns |-> [connTable.conns EXCEPT ![slot] = c], gens |-> connTable.gens,
                      free |-> SubSeq(connTable.free, 1, Len(connTable.free) - 1),
                      index |-> IndexInsert(connTable.index, slot, c.guard, c.split)]
    BY <1>4, Zenon DEF OpenConn, TableConnect, ConnShape
  <2>5. \A x \in alive : x.idx # slot
    BY <2>1, Zenon DEF Generations
  <2> HIDE DEF slot, h
  <2>6. connTable'.conns \in Seq(ConnRecs) /\ Len(connTable'.conns) = Len(connTable.conns)
    BY <1>1, <2>2, <2>4, SMTT(30) DEF ConnShape
  <2>7. /\ connTable'.free \in Seq(DOMAIN connTable.gens)
        /\ \A i \in DOMAIN connTable'.free :
             i \in DOMAIN connTable.free /\ i # Len(connTable.free) /\ connTable'.free[i] = connTable.free[i]
    BY <1>4, <2>1, <2>4, SMTT(30) DEF ConnShape
  <2>8. ConnShape'
    <3>1. connTable' = [conns |-> connTable'.conns, gens |-> connTable'.gens,
                        free |-> connTable'.free, index |-> connTable'.index]
      BY <2>4, Zenon
    <3>2. alive' \in SUBSET [idx : DOMAIN connTable'.gens, gen : Nat]
      BY <1>2, <2>2, <2>3, <2>4 DEF ConnShape
    <3>3. connTable'.gens = connTable.gens
      BY <2>4, Zenon
    <3>4. \A i, j \in DOMAIN connTable'.free : connTable'.free[i] = connTable'.free[j] => i = j
      BY <2>7, Zenon DEF ConnShape
    <3> QED
      BY <1>2, <1>3, <2>6, <2>7, <3>1, <3>2, <3>3, <3>4, Zenon DEF ConnShape
  <2>9. Generations'
    <3>1. \A i \in DOMAIN connTable'.free : connTable'.free[i] # slot
      BY <2>1, <2>7, Zenon DEF ConnShape
    <3> QED
      BY <1>2, <2>3, <2>4, <2>7, <3>1, SMTT(30) DEF Generations
  <2>10. IndexExact'
    <3>1. h \notin alive
      BY <1>2, <2>5, Zenon
    <3>2. \A x \in alive : x.idx \in DOMAIN connTable.conns
      BY DEF ConnShape
    <3>3. Alike(alive, connTable.conns, connTable'.conns) /\ connTable'.conns[h.idx] = c
      BY <1>2, <2>2, <2>4, <2>5, <3>2, SMTT(30) DEF Alike
    <3>4. connTable'.index = IndexInsert(connTable.index, h.idx, connTable'.conns[h.idx].guard, connTable'.conns[h.idx].split)
      BY <1>2, <2>4, <3>3
    <3>5. Inserted(alive, connTable.conns, connTable'.conns, h, alive')
      <4>1. IsFiniteSet(alive)
        BY Zenon DEF ConnShape
      <4>2. OneMore(alive, h, alive')
        BY <1>2, <3>1, Zenon DEF OneMore
      <4>3. Alike(alive, connTable.conns, connTable'.conns)
        BY <3>3, Zenon
      <4> QED
        BY <4>1, <4>2, <4>3, InsertExact, Zenon
    <3> QED
      BY <1>2, <3>4, <3>5, Zenon DEF IndexExact, Inserted
  <2> QED
    BY <2>8, <2>9, <2>10, Zenon
<1>5. CASE connTable.free = <<>>
  <2>1. slot = Len(connTable.conns) + 1
    BY <1>5 DEF NextSlot
  <2>2. slot = Len(connTable.gens) + 1 /\ slot \notin DOMAIN connTable.gens
    BY <2>1 DEF ConnShape
  <2>3. h = [idx |-> slot, gen |-> 0]
    BY <2>2 DEF ConnIdAt
  <2>4. connTable' = [conns |-> Append(connTable.conns, c), gens |-> Append(connTable.gens, 0),
                      free |-> <<>>,
                      index |-> IndexInsert(connTable.index, slot, c.guard, c.split)]
    BY <1>5, Zenon DEF OpenConn, TableConnect, ConnShape
  <2>5. \A x \in alive \cup dead : x.idx # slot /\ x.idx \in DOMAIN connTable.gens /\ x.idx \in DOMAIN connTable.conns
    <3>1. \A x \in alive \cup dead : x.idx \in DOMAIN connTable.gens
      BY DEF ConnShape
    <3>2. DOMAIN connTable.conns = DOMAIN connTable.gens
      BY DEF ConnShape
    <3> QED
      BY <2>2, <3>1, <3>2, Zenon
  <2> HIDE DEF slot, h
  <2>6. /\ DOMAIN connTable'.gens = DOMAIN connTable.gens \cup {slot}
        /\ connTable'.gens[slot] = 0
        /\ \A i \in DOMAIN connTable.gens : connTable'.gens[i] = connTable.gens[i]
    BY <2>2, <2>4 DEF ConnShape
  <2>7. /\ connTable'.conns \in Seq(ConnRecs)
        /\ connTable'.gens \in Seq(Nat)
        /\ Len(connTable'.gens) = Len(connTable'.conns)
    BY <1>1, <2>4 DEF ConnShape
  <2>8. ConnShape'
    BY <1>2, <1>3, <2>3, <2>4, <2>5, <2>6, <2>7, SMTT(30) DEF ConnShape
  <2>9. Generations'
    BY <1>2, <2>3, <2>4, <2>5, <2>6, SMTT(30) DEF Generations
  <2>10. IndexExact'
    <3>1. h \notin alive
      BY <1>2, <2>5, Zenon
    <3>2. Alike(alive, connTable.conns, connTable'.conns) /\ connTable'.conns[h.idx] = c
      BY <1>2, <2>1, <2>4, <2>5 DEF Alike, ConnShape
    <3>3. connTable'.index = IndexInsert(connTable.index, h.idx, connTable'.conns[h.idx].guard, connTable'.conns[h.idx].split)
      BY <1>2, <2>4, <3>2, Zenon
    <3>4. Inserted(alive, connTable.conns, connTable'.conns, h, alive')
      <4>1. IsFiniteSet(alive)
        BY Zenon DEF ConnShape
      <4>2. OneMore(alive, h, alive')
        BY <1>2, <3>1, Zenon DEF OneMore
      <4>3. Alike(alive, connTable.conns, connTable'.conns)
        BY <3>2, Zenon
      <4> QED
        BY <4>1, <4>2, <4>3, InsertExact, Zenon
    <3> QED
      BY <1>2, <3>3, <3>4, Zenon DEF IndexExact, Inserted
  <2> QED
    BY <2>8, <2>9, <2>10, Zenon
<1> QED
  BY <1>4, <1>5, Zenon

(* Wiring changes the output of one connection and nothing else. *)
LEMMA WireConnInv ==
  ASSUME ConnInv, NEW h \in alive, WireConn(h)
  PROVE  ConnInv'
<1> USE DEF ConnInv
<1>1. h.idx \in DOMAIN connTable.conns
  BY DEF ConnShape
<1>2. connTable' = [conns |-> [connTable.conns EXCEPT ![h.idx].out = Some(Edge0)], gens |-> connTable.gens,
                    free |-> connTable.free, index |-> connTable.index]
  BY Zenon DEF WireConn, SetConnOutput, ConnShape
<1>3. connTable.conns[h.idx] \in ConnRecs
  BY <1>1 DEF ConnShape
<1>4. [connTable.conns[h.idx] EXCEPT !.out = Some(Edge0)] \in ConnRecs
  BY <1>3 DEF ConnRecs
<1>5. connTable'.conns \in Seq(ConnRecs) /\ Len(connTable'.conns) = Len(connTable.conns)
  BY <1>1, <1>2, <1>4 DEF ConnShape
<1>6. alive' = alive /\ dead' = dead
  BY DEF WireConn
<1>7. ConnShape'
  BY <1>2, <1>5, <1>6 DEF ConnShape
<1>8. Generations'
  BY <1>2, <1>6 DEF Generations
<1>9. IndexExact'
  <2>1. \A x \in alive : x.idx \in DOMAIN connTable.conns /\ connTable.conns[x.idx] \in ConnRecs
    BY DEF ConnShape
  <2>2. Alike(alive, connTable.conns, connTable'.conns)
    BY <1>1, <1>2, <2>1 DEF Alike, ConnRecs
  <2> QED
    BY <1>2, <1>6, <2>2, RebuiltAlike, SMTT(30) DEF IndexExact
<1> QED
  BY <1>7, <1>8, <1>9, Zenon

(* A teardown frees the slot of its own handle only, and only once. *)
LEMMA CloseConnInv ==
  ASSUME ConnInv, NEW h \in alive \cup dead, CloseConn(h)
  PROVE  ConnInv'
<1> USE DEF ConnInv
<1> DEFINE con == connTable.conns[h.idx]
<1>1. alive' = alive \ {h} /\ dead' = dead \cup {h}
  BY DEF CloseConn
<1>2. IsFiniteSet(alive')
  BY <1>1, FS_RemoveElement, FS_Subset DEF ConnShape
<1>3. h.idx \in DOMAIN connTable.gens /\ h.idx \in DOMAIN connTable.conns
  BY DEF ConnShape
<1>4. CASE h \in alive
  <2>1. IsLive(connTable, h)
    BY <1>3, <1>4 DEF IsLive, Generations
  <2>2. connTable' = [conns |-> [connTable.conns EXCEPT ![h.idx].out = None],
                      gens |-> [connTable.gens EXCEPT ![h.idx] = @ + 1],
                      free |-> Append(connTable.free, h.idx),
                      index |-> IndexRemove(connTable.index, h.idx, con.guard, con.split)]
    BY <2>1, Zenon DEF CloseConn, TableDestroy, ConnShape
  <2>3. con \in ConnRecs
    BY <1>3 DEF ConnShape
  <2>4. [con EXCEPT !.out = None] \in ConnRecs
    BY <2>3 DEF ConnRecs
  <2>5. connTable'.conns \in Seq(ConnRecs) /\ Len(connTable'.conns) = Len(connTable.conns)
    BY <1>3, <2>2, <2>4 DEF ConnShape
  <2>6. /\ connTable'.gens \in Seq(Nat)
        /\ DOMAIN connTable'.gens = DOMAIN connTable.gens
        /\ Len(connTable'.gens) = Len(connTable.gens)
        /\ connTable'.gens[h.idx] = h.gen + 1
        /\ \A i \in DOMAIN connTable.gens : i # h.idx => connTable'.gens[i] = connTable.gens[i]
    BY <1>3, <1>4, <2>2 DEF ConnShape, Generations
  <2>7. /\ connTable'.free \in Seq(DOMAIN connTable.gens)
        /\ \A i \in DOMAIN connTable'.free :
             \/ i \in DOMAIN connTable.free /\ connTable'.free[i] = connTable.free[i]
             \/ i = Len(connTable.free) + 1 /\ connTable'.free[i] = h.idx
    BY <1>3, <2>2, SMTT(30) DEF ConnShape
  <2>8. \A i \in DOMAIN connTable.free : connTable.free[i] # h.idx
    BY <1>4, Zenon DEF Generations
  <2>9. \A x \in alive' : x \in alive /\ x.idx # h.idx
    BY <1>1, <1>4, OneHandlePerSlot, Zenon
  <2>10. ConnShape'
    <3>1. \A i, j \in DOMAIN connTable'.free : connTable'.free[i] = connTable'.free[j] => i = j
      BY <2>7, <2>8, Zenon DEF ConnShape
    <3>2. /\ alive' \in SUBSET [idx : DOMAIN connTable'.gens, gen : Nat]
          /\ dead' \in SUBSET [idx : DOMAIN connTable'.gens, gen : Nat]
      BY <1>1, <2>6, Zenon DEF ConnShape
    <3>3. connTable' = [conns |-> connTable'.conns, gens |-> connTable'.gens,
                        free |-> connTable'.free, index |-> connTable'.index]
      BY <2>2, Zenon
    <3>4. Len(connTable'.gens) = Len(connTable'.conns) /\ connTable'.free \in Seq(DOMAIN connTable'.gens)
      BY <2>5, <2>6, <2>7, Zenon DEF ConnShape
    <3> QED
      BY <1>2, <2>5, <2>6, <3>1, <3>2, <3>3, <3>4, Zenon DEF ConnShape
  <2>11. Generations'
    <3>1. \A x \in alive' : connTable'.gens[x.idx] = x.gen
      BY <2>6, <2>9, Zenon DEF ConnShape, Generations
    <3>2. \A x \in alive', i \in DOMAIN connTable'.free : connTable'.free[i] # x.idx
      BY <2>7, <2>9, Zenon DEF Generations
    <3>3. \A x \in dead' : x.gen < connTable'.gens[x.idx]
      <4>1. h.gen \in Nat /\ \A x \in dead : x.gen \in Nat /\ x.idx \in DOMAIN connTable.gens
        BY DEF ConnShape
      <4>2. ASSUME NEW x \in dead, x.idx = h.idx
            PROVE  x.gen < h.gen + 1
        BY <1>4, <4>1, <4>2 DEF Generations
      <4>3. ASSUME NEW x \in dead, x.idx # h.idx
            PROVE  x.gen < connTable'.gens[x.idx]
        BY <2>6, <4>1, <4>3, SMTT(30) DEF Generations
      <4> QED
        BY <1>1, <2>6, <4>1, <4>2, <4>3, SMTT(30)
    <3> QED
      BY <3>1, <3>2, <3>3, Zenon DEF Generations
  <2>12. IndexExact'
    <3>1. Rebuilt(alive \ {h}, connTable.conns) = IndexRemove(connTable.index, h.idx, con.guard, con.split)
      <4>1. IsFiniteSet(alive) /\ \A x \in alive \ {h} : x.idx # h.idx
        BY <1>1, <2>9, Zenon DEF ConnShape
      <4>2. Rebuilt(alive \ {h}, connTable.conns)
              = IndexRemove(Rebuilt(alive, connTable.conns), h.idx, connTable.conns[h.idx].guard, connTable.conns[h.idx].split)
        BY <1>4, <4>1, RemoveExact, Zenon
      <4> QED
        BY <4>2, Zenon DEF IndexExact
    <3>2. \A x \in alive' : x.idx \in DOMAIN connTable.conns
      BY <1>1 DEF ConnShape
    <3>3. Alike(alive', connTable.conns, connTable'.conns)
      BY <2>2, <2>9, <3>2 DEF Alike
    <3> QED
      BY <1>1, <2>2, <3>1, <3>3, RebuiltAlike, SMTT(30) DEF IndexExact
  <2> QED
    BY <2>10, <2>11, <2>12, Zenon
<1>5. CASE h \notin alive
  <2>1. h \in dead /\ h.gen < connTable.gens[h.idx] /\ h.gen \in Nat /\ connTable.gens[h.idx] \in Nat
    BY <1>3, <1>5 DEF Generations, ConnShape
  <2>2. ~IsLive(connTable, h)
    BY <2>1 DEF IsLive
  <2>3. connTable' = connTable /\ alive' = alive /\ dead' = dead
    BY <1>1, <1>5, <2>1, <2>2, Zenon DEF CloseConn, TableDestroy
  <2> QED
    BY <2>3, Zenon DEF ConnShape, Generations, IndexExact
<1> QED
  BY <1>4, <1>5, Zenon

(* The invariant is inductive. *)
LEMMA ConnInvariant == ConnSpec => []ConnInv
<1>1. ConnInv /\ [ConnNext]_connVars => ConnInv'
  <2> SUFFICES ASSUME ConnInv, [ConnNext]_connVars
               PROVE  ConnInv'
    OBVIOUS
  <2>1. CASE \E c \in Conns : OpenConn(c)
    BY <2>1, OpenConnInv, Zenon
  <2>2. CASE \E h \in alive : WireConn(h)
    BY <2>2, WireConnInv, Zenon
  <2>3. CASE \E h \in alive \cup dead : CloseConn(h)
    BY <2>3, CloseConnInv, Zenon
  <2>4. CASE UNCHANGED connVars
    BY <2>4, Zenon DEF connVars, ConnInv, ConnShape, Generations, IndexExact
  <2> QED
    BY <2>1, <2>2, <2>3, <2>4, Zenon DEF ConnNext
<1> QED
  BY <1>1, ConnInitInv, PTL DEF ConnSpec

(* After any connects, wirings and teardowns, repeated ones included, the     *)
(* push index maintained step by step is the one built anew from the          *)
(* connections in use (push_index.rs, insert and remove).                     *)
THEOREM IndexIsExact == ConnSpec => []IndexExact
<1>1. ConnInv => IndexExact
  BY Zenon DEF ConnInv
<1> QED
  BY <1>1, ConnInvariant, PTL

(* A handle resolves exactly while its connection is in use, whatever becomes *)
(* of its slot afterwards (source_common.rs, ConnId, is_live and destroy).    *)
THEOREM HandlesAreHonest == ConnSpec => []HandlesHonest
<1>1. ConnInv => HandlesHonest
  <2> SUFFICES ASSUME ConnInv
               PROVE  HandlesHonest
    OBVIOUS
  <2>1. \A h \in alive : IsLive(connTable, h)
    BY DEF ConnInv, ConnShape, Generations, IsLive
  <2>2. \A h \in dead : ~IsLive(connTable, h)
    BY DEF ConnInv, ConnShape, Generations, IsLive
  <2> QED
    BY <2>1, <2>2, OneHandlePerSlot, Zenon DEF ConnInv, HandlesHonest
<1> QED
  BY <1>1, ConnInvariant, PTL

(* A push is offered to exactly the connections in use whose guard admits a   *)
(* row of the change (push_candidates): the index loses no connection that    *)
(* may accept the change and offers nothing to a slot that was freed.         *)
THEOREM CandidatesAreExact == ConnSpec => []CandidatesExact
<1>1. IndexExact => CandidatesExact
  <2> SUFFICES ASSUME IndexExact, NEW ch \in ConnChanges
               PROVE  PushCandidates(connTable.index, ch)
                        = {h.idx : h \in {x \in alive : \E r \in ChangeRows(ch) : Guarded(ConnOf(x), r)}}
    BY Zenon DEF CandidatesExact
  <2> DEFINE I == connTable.index
             Right == {x \in alive : \E r \in ChangeRows(ch) : Guarded(ConnOf(x), r)}
  <2>1. I = Rebuilt(alive, connTable.conns)
    BY Zenon DEF IndexExact
  <2>2. \A k : k \in DOMAIN I.eq <=> \E x \in alive : k \in GuardKeys(ConnOf(x).guard)
    <3>1. DOMAIN Rebuilt(alive, connTable.conns).eq = UNION {GuardKeys(ConnOf(x).guard) : x \in alive}
      BY Zenon DEF Rebuilt, ConnOf
    <3> HIDE DEF I
    <3> QED
      BY <2>1, <3>1, Zenon
  <2>3. \A k \in DOMAIN I.eq : \A i : i \in I.eq[k] <=> \E x \in alive : k \in GuardKeys(ConnOf(x).guard) /\ i = x.idx
    <3>1. \A k \in DOMAIN Rebuilt(alive, connTable.conns).eq :
            Rebuilt(alive, connTable.conns).eq[k] = {h.idx : h \in {x \in alive : k \in GuardKeys(ConnOf(x).guard)}}
      BY Zenon DEF Rebuilt, ConnOf
    <3>2. \A k \in DOMAIN I.eq : I.eq[k] = {h.idx : h \in {x \in alive : k \in GuardKeys(ConnOf(x).guard)}}
      <4> HIDE DEF I
      <4> QED
        BY <2>1, <3>1, Zenon
    <3> HIDE DEF I
    <3>3. ASSUME NEW k \in DOMAIN I.eq, NEW i
          PROVE  i \in I.eq[k] <=> \E x \in alive : k \in GuardKeys(ConnOf(x).guard) /\ i = x.idx
      <4>1. I.eq[k] = {h.idx : h \in {x \in alive : k \in GuardKeys(ConnOf(x).guard)}}
        BY <3>2, Zenon
      <4> QED
        BY <4>1, Zenon
    <3> QED
      BY <3>3, Zenon
  <2>4. \A i : i \in I.scan <=> \E x \in alive : ~IsSome(ConnOf(x).guard) /\ i = x.idx
    <3>1. Rebuilt(alive, connTable.conns).scan = {h.idx : h \in {x \in alive : ~IsSome(ConnOf(x).guard)}}
      BY Zenon DEF Rebuilt, ConnOf
    <3> HIDE DEF I
    <3> QED
      BY <2>1, <3>1, Zenon
  <2> HIDE DEF I
  <2>5. \A x, r : IsSome(ConnOf(x).guard) =>
          (Guarded(ConnOf(x), r) <=> \E k \in GuardKeys(ConnOf(x).guard) : r[k[1]] = k[2])
    <3> SUFFICES ASSUME NEW x, NEW r, IsSome(ConnOf(x).guard)
                 PROVE  Guarded(ConnOf(x), r) <=> \E k \in GuardKeys(ConnOf(x).guard) : r[k[1]] = k[2]
      OBVIOUS
    <3> DEFINE g == The(ConnOf(x).guard)
    <3>1. GuardKeys(ConnOf(x).guard) = {<<g.col, v>> : v \in g.values}
      BY Zenon DEF GuardKeys
    <3>2. Guarded(ConnOf(x), r) <=> r[g.col] \in g.values
      BY Zenon DEF Guarded
    <3> HIDE DEF g
    <3>3. ASSUME r[g.col] \in g.values
          PROVE  \E k \in GuardKeys(ConnOf(x).guard) : r[k[1]] = k[2]
      <4>1. <<g.col, r[g.col]>> \in GuardKeys(ConnOf(x).guard)
        BY <3>1, <3>3, Zenon
      <4>2. r[<<g.col, r[g.col]>>[1]] = <<g.col, r[g.col]>>[2]
        OBVIOUS
      <4> QED
        BY <4>1, <4>2, Zenon
    <3>4. ASSUME NEW k \in GuardKeys(ConnOf(x).guard), r[k[1]] = k[2]
          PROVE  r[g.col] \in g.values
      <4>1. PICK v \in g.values : k = <<g.col, v>>
        BY <3>1, Zenon
      <4>2. k[1] = g.col /\ k[2] = v
        BY <4>1
      <4> QED
        BY <3>4, <4>2, Zenon
    <3> QED
      BY <3>2, <3>3, <3>4, Zenon
  <2>6. \A x, r : ~IsSome(ConnOf(x).guard) => Guarded(ConnOf(x), r)
    BY Zenon DEF Guarded
  <2>7. \A x : GuardKeys(ConnOf(x).guard) # {} => IsSome(ConnOf(x).guard)
    BY Zenon DEF GuardKeys
  <2>8. \E r : r \in ChangeRows(ch)
    BY Zenon DEF ChangeRows
  <2>9. \A i : i \in PushCandidates(I, ch) <=>
          \/ i \in I.scan
          \/ \E k \in DOMAIN I.eq : i \in I.eq[k] /\ \E r \in ChangeRows(ch) : r[k[1]] = k[2]
    BY Zenon DEF PushCandidates
  <2>10. ASSUME NEW i \in PushCandidates(I, ch)
         PROVE  i \in {h.idx : h \in Right}
    <3>1. CASE i \in I.scan
      <4>1. PICK x \in alive : ~IsSome(ConnOf(x).guard) /\ i = x.idx
        BY <2>4, <3>1, Zenon
      <4>2. x \in Right
        BY <2>6, <2>8, <4>1, Zenon
      <4> HIDE DEF Right
      <4> QED
        BY <4>1, <4>2, Zenon
    <3>2. CASE \E k \in DOMAIN I.eq : i \in I.eq[k] /\ \E r \in ChangeRows(ch) : r[k[1]] = k[2]
      <4>1. PICK k \in DOMAIN I.eq, r \in ChangeRows(ch) : i \in I.eq[k] /\ r[k[1]] = k[2]
        BY <3>2, Zenon
      <4>2. PICK x \in alive : k \in GuardKeys(ConnOf(x).guard) /\ i = x.idx
        BY <2>3, <4>1, Zenon
      <4>3. Guarded(ConnOf(x), r)
        BY <2>5, <2>7, <4>1, <4>2, Zenon
      <4> QED
        BY <4>2, <4>3, Zenon
    <3> QED
      BY <2>9, <3>1, <3>2, Zenon
  <2>11. ASSUME NEW x \in Right
         PROVE  x.idx \in PushCandidates(I, ch)
    <3>1. CASE ~IsSome(ConnOf(x).guard)
      BY <2>4, <2>9, <3>1, Zenon
    <3>2. CASE IsSome(ConnOf(x).guard)
      <4>1. PICK r \in ChangeRows(ch), k \in GuardKeys(ConnOf(x).guard) : r[k[1]] = k[2]
        BY <2>5, <3>2, Zenon
      <4>2. k \in DOMAIN I.eq /\ x.idx \in I.eq[k]
        BY <2>2, <2>3, Zenon
      <4> QED
        BY <2>9, <4>1, <4>2, Zenon
    <3> QED
      BY <3>1, <3>2, Zenon
  <2> HIDE DEF Right
  <2>12. PushCandidates(I, ch) = {h.idx : h \in Right}
    BY <2>10, <2>11, Zenon
  <2> QED
    BY <2>12 DEF I, Right
<1> QED
  BY <1>1, IndexIsExact, PTL

(* A push is offered to exactly the connections in use that may want it, and  *)
(* a handle stands for its own connection only, however slots are recycled    *)
(* (push_candidates, ConnId, is_live, destroy).                               *)
THEOREM ConnsAreHonest == ConnSpec => []ConnsHonest
<1>1. CandidatesExact /\ HandlesHonest => ConnsHonest
  BY DEF ConnsHonest
<1>2. QED BY <1>1, HandlesAreHonest, CandidatesAreExact, PTL
=============================================================================
