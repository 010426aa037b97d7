---------------------------- MODULE MCReleaseGate ----------------------------
(* Small instances of ReleaseGate: one data query beside the lmid query. *)
EXTENDS ReleaseGate

CONSTANTS q1, lmid
=============================================================================
