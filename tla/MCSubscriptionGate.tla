------------------------- MODULE MCSubscriptionGate -------------------------
(***************************************************************************)
(* Two tokens for one tracked key, so that one pushes the other out, and   *)
(* two concurrent rotations of the path out of three.                      *)
(***************************************************************************)
EXTENDS SubscriptionGate, TLC

TypeOK == LimiterTypeOK /\ PathTypeOK

\* Callers are interchangeable, and so are operators.
MCSymmetry == Permutations(Key) \cup Permutations(Rotator)
=============================================================================
