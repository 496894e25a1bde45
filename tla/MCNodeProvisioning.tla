-------------------------- MODULE MCNodeProvisioning --------------------------
(* Instances of NodeProvisioning for TLC. *)
EXTENDS NodeProvisioning, TLC

\* Jobs are interchangeable.
MCSymmetry == Permutations(Procs)
=============================================================================
