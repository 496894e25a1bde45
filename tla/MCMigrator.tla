----------------------------- MODULE MCMigrator -----------------------------
(***************************************************************************)
(* A strict file that can be rolled back, one that recreates its table and *)
(* commits its own Down, a strict one without a Down section, and a        *)
(* tolerant one that commits its own Down and that only the directory has. *)
(***************************************************************************)
EXTENDS Migrator
=============================================================================
