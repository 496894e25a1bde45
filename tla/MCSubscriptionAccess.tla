------------------------ MODULE MCSubscriptionAccess ------------------------
(***************************************************************************)
(* A plan with one host.                                                   *)
(***************************************************************************)
EXTENDS SubscriptionAccess, TLC

CONSTANTS p1, h1

HostsOfPlan == [p \in {p1} |-> {h1}]

\* Operators are interchangeable.
MCSymmetry == Permutations(Operator)
=============================================================================
