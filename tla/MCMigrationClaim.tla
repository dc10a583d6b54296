--------------------------- MODULE MCMigrationClaim ---------------------------
(* The instance of MigrationClaim for TLC; liveness forbids a symmetry set. *)
EXTENDS MigrationClaim
=============================================================================
