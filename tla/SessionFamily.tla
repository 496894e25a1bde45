--------------------------- MODULE SessionFamily ---------------------------
(***************************************************************************)
(* What the refresh-token chains of an administrator promise, apart from   *)
(* tokens, rows and cookies: a login opens a session, a session ends, and  *)
(* a session that has ended never comes back.  A rotation of the token     *)
(* inside a session is invisible here.                                     *)
(***************************************************************************)
CONSTANT Session    \* names of sessions

VARIABLES open,     \* the sessions that a client can still continue
          ended     \* the sessions that are over

Init == open = {} /\ ended = {}

\* A login opens a session that was never open before.
Open(s) ==
  /\ s \notin open \cup ended
  /\ open' = open \cup {s}
  /\ UNCHANGED ended

\* Logout, expiry, revocation of the chain or a failed rotation ends some.
End(S) ==
  /\ S # {}
  /\ S \subseteq open
  /\ open' = open \ S
  /\ ended' = ended \cup S

Next == \/ \E s \in Session : Open(s)
        \/ \E S \in SUBSET Session : End(S)

Spec == Init /\ [][Next]_<<open, ended>>
=============================================================================
