-------------------------- MODULE MCMutationDomains --------------------------
(* Small instances of MutationDomains: one room, two or three operations. *)
EXTENDS MutationDomains, TLC

CONSTANTS a, b, f1, f2, k, t, room, daemon

\* The policy may answer either domain for every operation.
RoutesAll == [o \in Op |-> Domain]
\* `a` is a room mutator, the rest are the daemon's.
RoutesMixed == [o \in Op |-> IF o = a THEN {room} ELSE {daemon}]
\* The folds may go either way, `a` to the daemon.
RoutesFolds == [o \in Op |-> IF o \in Folded THEN Domain ELSE {daemon}]
\* All operations overlap: they touch the one table.
TouchAll == [o \in Op |-> {t}]
KeyAll == [o \in Folded |-> k]
NoKeys == [o \in {} |-> k]
Perms == Permutations(Op)

\* A first session, or a page reload: a fresh client over the ledgers of its
\* clientID, whose last session wrote `a` through the daemon.
Sessions ==
  \/ Init
  \/ InitWith([d \in Domain |-> IF d = daemon THEN <<[op |-> a, kind |-> Applied]>> ELSE <<>>])
SessionsSpec == Sessions /\ [][Next]_vars
=============================================================================
