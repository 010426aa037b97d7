CONSTANTS
  q1 = q1  q2 = q2  q3 = q3  k1 = k1  k2 = k2  c1 = c1  c2 = c2  v1 = v1  v2 = v2
  Query = {q1, q2}
  Key = {k1}
  Col = {c1, c2}
  Val = {v1, v2}
  Absent = absent
  Narrowing = FALSE
  MaxCommits = 2
  MaxTroubles = 1
  MaxDown = 3
SYMMETRY Perms
SPECIFICATION Spec
INVARIANTS TypeOK RefsAgree UnionExact SyncedExact
CHECK_DEADLOCK FALSE
