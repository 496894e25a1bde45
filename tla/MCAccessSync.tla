---------------------------- MODULE MCAccessSync ----------------------------
(* Instances of AccessSync for TLC. *)
EXTENDS AccessSync, TLC

CONSTANTS n1, n2, h1, h2, i1, i2, i3, u1, u2

\* The third inbound is still to be created.
MCNodeOf == i1 :> n1 @@ i2 :> n2 @@ i3 :> n2
MCEndpoints == h1 :> {i1} @@ h2 :> {i2}

\* The one-node instance: one inbound, one host.
MCNodeOf1 == i1 :> n1
MCEndpoints1 == h1 :> {i1}

\* Requests and credential values are interchangeable (safety runs only).
MCSymmetry == Permutations(Procs) \cup Permutations(CredValues)

\* Rows the operator writes: active; or active, disabled, kept to one host or kept
\* off one.
OnRows == {[status |-> "active", allow |-> {}, block |-> {}]}
PlainRows == {[status |-> s, allow |-> {}, block |-> {}] : s \in {"active", "inactive"}}
ListRows == {[status |-> "active", allow |-> {h1}, block |-> {}],
             [status |-> "active", allow |-> {}, block |-> {h2}]}
MCRows == PlainRows \cup ListRows
=============================================================================
