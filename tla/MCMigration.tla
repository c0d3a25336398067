----------------------------- MODULE MCMigration -----------------------------
(* Two migrators, and a run of this version or of old code, for TLC. *)
EXTENDS Migration

CONSTANTS m1, m2, t1
=============================================================================
