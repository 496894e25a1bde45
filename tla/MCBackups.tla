------------------------------ MODULE MCBackups ------------------------------
(***************************************************************************)
(* The panel and the tool; two backups with a retention of one, so that    *)
(* every success removes older rows, and a deletion beside them.           *)
(***************************************************************************)
EXTENDS Backups
=============================================================================
