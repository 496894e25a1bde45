--------------------------- MODULE MCAuthSessions ---------------------------
(***************************************************************************)
(* Two tabs, in one browser or in two, of the same administrator.          *)
(***************************************************************************)
EXTENDS AuthSessions

CONSTANTS t1, b1

\* The browsers are interchangeable: the first tab is in the first of them.
MCInit == Init /\ home[t1] = b1
MCSpec == MCInit /\ [][Next]_vars /\ Fairness
=============================================================================
