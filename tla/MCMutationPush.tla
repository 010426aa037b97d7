--------------------------- MODULE MCMutationPush ---------------------------
(* Four mutations: one denied, two that read and one that only writes.     *)
EXTENDS MutationPush

MCDenied == {1}
MCReads == {2, 4}
MCBackends == {"remote", "postgres"}
MCPostgres == {"postgres"}

=============================================================================
