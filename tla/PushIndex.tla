----------------------------- MODULE PushIndex -----------------------------
(* The reverse index of a source's connections (push_index.rs).  A guard is   *)
(* an optional record [col, values] that the connection's predicate implies:  *)
(* an accepted row has one of values in column col.  The index maps a pair    *)
(* <<col, value>> to the slots guarded by it, keeps the slots without guard   *)
(* in a scan set, and counts for every column the connections that need an    *)
(* edit of that column to be split.                                           *)
EXTENDS Rows, Functions

EmptyIndex == [eq |-> <<>>, scan |-> {}, split |-> <<>>]

GuardKeys(guard) ==
  IF IsSome(guard) THEN {<<The(guard).col, v>> : v \in The(guard).values} ELSE {}

Bucket(index, key) == IF key \in DOMAIN index.eq THEN index.eq[key] ELSE {}

SplitCount(index, col) == IF col \in DOMAIN index.split THEN index.split[col] ELSE 0

(* A guard without values matches nothing, so its slot is indexed nowhere. *)
IndexInsert(index, slot, guard, splitKeys) ==
  [eq |-> [k \in DOMAIN index.eq \cup GuardKeys(guard) |->
             IF k \in GuardKeys(guard) THEN Bucket(index, k) \cup {slot}
             ELSE index.eq[k]],
   scan |-> IF IsSome(guard) THEN index.scan ELSE index.scan \cup {slot},
   split |-> [k \in DOMAIN index.split \cup splitKeys |->
                SplitCount(index, k) + IF k \in splitKeys THEN 1 ELSE 0]]

\* Mutant: the columns of a leaving connection are dropped, not counted down.
IndexRemoveUncounted(index, slot, guard, splitKeys) ==
  LET left(k) == IF k \in GuardKeys(guard) THEN index.eq[k] \ {slot} ELSE index.eq[k]
  IN [eq |-> [k \in {j \in DOMAIN index.eq : left(j) # {}} |-> left(k)],
      scan |-> IF IsSome(guard) THEN index.scan ELSE index.scan \ {slot},
      split |-> Restrict(index.split, DOMAIN index.split \ splitKeys)]

(* The inverse, from the guard the connection still holds; empty buckets and  *)
(* columns nobody counts on any more are pruned.                              *)
IndexRemove(index, slot, guard, splitKeys) ==
  LET left(k) == IF k \in GuardKeys(guard) THEN index.eq[k] \ {slot} ELSE index.eq[k]
      count(k) == index.split[k] - IF k \in splitKeys THEN 1 ELSE 0
  IN [eq |-> [k \in {j \in DOMAIN index.eq : left(j) # {}} |-> left(k)],
      scan |-> IF IsSome(guard) THEN index.scan ELSE index.scan \ {slot},
      split |-> [k \in {j \in DOMAIN index.split : count(j) # 0} |-> count(k)]]

ChangeRows(ch) == IF ch.t = "Edit" THEN {ch.row, ch.old} ELSE {ch.row}

(* Every slot whose connection may accept the change, before the ordering. *)
PushCandidates(index, ch) ==
  index.scan \cup UNION {index.eq[k] : k \in {j \in DOMAIN index.eq :
                                               \E r \in ChangeRows(ch) : r[j[1]] = j[2]}}

SplitKeys(index) == DOMAIN index.split
=============================================================================
