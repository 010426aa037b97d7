------------------------------ MODULE ConnLife ------------------------------
(* The life of a source's connections: pipelines connect, wire their output,  *)
(* and are torn down by the handle they were given, the same handle more than *)
(* once where error paths and owners overlap (source_common.rs, ConnTable).   *)
EXTENDS ConnTable

CONSTANTS
  Conns,       (* the connections pipelines open: [guard, split, out]         *)
  Edge0,       (* the edge an output is wired to                              *)
  ConnChanges, (* the changes pushed                                          *)
  MaxConnects  (* connects ever                                               *)

VARIABLES
  connTable,
  alive,       (* the handles of connections in use                           *)
  dead         (* the handles given back                                      *)

connVars == <<connTable, alive, dead>>

(* A connection is opened without an output. *)
ASSUME ConnsAssumption ==
  /\ \A c \in Conns : c = [guard |-> c.guard, split |-> c.split, out |-> None]
  /\ MaxConnects \in Nat

ConnInit == connTable = EmptyTable /\ alive = {} /\ dead = {}

OpenConn(c) ==
  /\ Cardinality(alive) + Cardinality(dead) < MaxConnects
  /\ connTable' = TableConnect(connTable, c)
  /\ alive' = alive \cup {ConnIdAt(connTable, NextSlot(connTable))}
  /\ UNCHANGED dead

WireConn(h) ==
  /\ connTable' = SetConnOutput(connTable, h, Edge0)
  /\ UNCHANGED <<alive, dead>>

(* A handle given back earlier is closed again without effect. *)
CloseConn(h) ==
  /\ connTable' = TableDestroy(connTable, h)
  /\ alive' = alive \ {h}
  /\ dead' = dead \cup {h}

ConnNext ==
  \/ \E c \in Conns : OpenConn(c)
  \/ \E h \in alive : WireConn(h)
  \/ \E h \in alive \cup dead : CloseConn(h)

ConnSpec == ConnInit /\ [][ConnNext]_connVars

-----------------------------------------------------------------------------
(* Properties. *)
ConnOf(h) == connTable.conns[h.idx]

(* The index built anew from the connections some handles stand for. *)
Rebuilt(hs, conns) ==
  [eq |-> [k \in UNION {GuardKeys(conns[h.idx].guard) : h \in hs} |->
             {h.idx : h \in {x \in hs : k \in GuardKeys(conns[x.idx].guard)}}],
   scan |-> {h.idx : h \in {x \in hs : ~IsSome(conns[x.idx].guard)}},
   split |-> [k \in UNION {conns[h.idx].split : h \in hs} |->
                Cardinality({h \in hs : k \in conns[h.idx].split})]]

(* Whatever connects, reconnects and repeated teardowns came before, the      *)
(* index maintained step by step is the index built anew: no slot lingers in  *)
(* a bucket, none is missing, and the counts by which columns are split are   *)
(* neither lost nor kept (push_index.rs, insert and remove).                  *)
IndexExact == connTable.index = Rebuilt(alive, connTable.conns)

Guarded(c, row) == ~IsSome(c.guard) \/ row[The(c.guard).col] \in The(c.guard).values

(* A push is offered to exactly the connections in use whose guard admits a   *)
(* row of it: none that may accept the change is left out and no freed slot   *)
(* is offered anything (push_candidates).                                     *)
CandidatesExact ==
  \A ch \in ConnChanges :
    PushCandidates(connTable.index, ch)
      = {h.idx : h \in {x \in alive : \E r \in ChangeRows(ch) : Guarded(ConnOf(x), r)}}

(* A handle resolves while its connection is in use and never again, although *)
(* its slot is; so repeating a teardown cannot close another's connection     *)
(* (ConnId, is_live, destroy).                                                *)
HandlesHonest ==
  /\ \A h \in alive : IsLive(connTable, h)
  /\ \A h \in dead : ~IsLive(connTable, h)
  /\ \A a, b \in alive : a.idx = b.idx => a = b

(* A push and a teardown reach the connections they are meant for: the        *)
(* candidates are the connections in use that may want the change, and a      *)
(* handle stands for its own connection only.                                 *)
ConnsHonest == CandidatesExact /\ HandlesHonest
=============================================================================
