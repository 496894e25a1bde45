---------------------------- MODULE AuthSessions ----------------------------
(***************************************************************************)
(* Administrator sessions: package internal/auth (service, its two stores, *)
(* its handlers) and the client in frontend/src that keeps them alive.     *)
(*                                                                         *)
(* A session is a chain of refresh tokens.  The server stores a row per    *)
(* token; the browser keeps the current token in a cookie that all of its  *)
(* tabs share; a tab holds a short access token in memory and exchanges    *)
(* the cookie for a new pair when a call answers 401.  One administrator   *)
(* is modelled: rows of two administrators never meet.                     *)
(*                                                                         *)
(* A request is taken apart at its store calls, between which other        *)
(* requests run; the answer reaches the browser in a step of its own.      *)
(***************************************************************************)
EXTENDS Naturals, FiniteSets

CONSTANTS Tab,          \* the open tabs
          Browser,      \* the browsers: the tabs of one share a cookie
          MaxRequests,  \* bound: auth requests ever sent
          MaxCalls,     \* bound: calls of one tab that wait for a refresh
          MaxMishaps    \* bound: failures, expiries, restarts, disabled accounts

ASSUME AuthAssumption ==
  /\ MaxRequests \in Nat
  /\ MaxCalls \in Nat \ {0}
  /\ MaxMishaps \in Nat
  /\ Browser # {}

VARIABLES backend,    \* which store AEGIS_AUTH_BACKEND selected
          home,       \* the browser of each tab
          disabled,   \* the administrator's row is disabled, or gone
          row,        \* row[k]: the refresh row of token k
          stale,      \* the tokens past their expires_at
          cookie,     \* cookie[b]: the refresh cookie of browser b, 0 if none
          access,     \* the tabs that hold an access token the server accepts
          waiting,    \* waiting[t]: calls of tab t that wait for its refresh
          req,        \* req[t]: the auth request of tab t, and where it stands
          sent,       \* how many auth requests have been sent
          mishaps,    \* how many mishaps have happened
          born,       \* history: who got token k, from which, in which era
          era,        \* history: chain revocations so far
          excused,    \* history: browsers that may have lost their session
          left,       \* history: browsers that signed out since their login
          untidy      \* history: browsers with overlapping or failed requests

history == <<born, era, excused, left, untidy>>
given == <<backend, home, disabled>>    \* no request changes these
vars == <<given, row, stale, cookie, access, waiting, req, sent, mishaps,
          history>>

Token == 1..MaxRequests     \* a request saves one token at most
Idle == [at |-> "idle", op |-> "none", token |-> 0, new |-> 0]
Steps == {"idle", "lookup", "save", "reply", "consume", "find", "revoke",
          "refuse", "missing", "revokeOne", "cleared", "verify", "write"}
Requests ==
  [op : {"none", "login", "refresh", "logout", "passwd"}, at : Steps,
   token : 0..MaxRequests, new : 0..MaxRequests]

TypeOK ==
  /\ backend \in {"pg", "memory"}
  /\ home \in [Tab -> Browser]
  /\ disabled \in BOOLEAN
  /\ row \in [Token -> {"none", "live", "used"}]
  /\ stale \subseteq Token
  /\ cookie \in [Browser -> 0..MaxRequests]
  /\ access \subseteq Tab
  /\ waiting \in [Tab -> 0..MaxCalls]
  /\ req \in [Tab -> Requests]
  /\ sent \in 0..MaxRequests
  /\ mishaps \in 0..MaxMishaps
  /\ born \in [Token -> [parent : 0..MaxRequests, root : 0..MaxRequests,
                         owner : Browser, era : Nat]]
  /\ era \in Nat
  /\ excused \subseteq Browser
  /\ left \subseteq Browser
  /\ untidy \subseteq Browser

-----------------------------------------------------------------------------
(* Helpers.                                                                *)

Live(k) == row[k] = "live" /\ k \notin stale
Issued == {k \in Token : born[k].root # 0}
Busy(b) == \E t \in Tab : home[t] = b /\ req[t].at # "idle"

\* The request of tab t goes on to its next step.
Go(t, step) == req' = [req EXCEPT ![t].at = step]
Done(t) == req' = [req EXCEPT ![t] = Idle]

\* A tab sends a request.  The browser attaches its cookie; two requests of
\* one browser at the same time are a race for that cookie.
Send(t, op, step) ==
  LET b == home[t] IN
  /\ req[t].at = "idle"
  /\ sent < MaxRequests
  /\ sent' = sent + 1
  /\ req' = [req EXCEPT ![t] =
       [op |-> op, at |-> step, token |-> cookie[b], new |-> 0]]
  /\ excused' = IF Busy(b) THEN excused \cup {b} ELSE excused
  /\ untidy' = IF Busy(b) \/ (op = "login" /\ cookie[b] # 0)
               THEN untidy \cup {b} ELSE untidy
  /\ UNCHANGED left

Mishap(B) ==
  /\ mishaps < MaxMishaps
  /\ mishaps' = mishaps + 1
  /\ excused' = excused \cup B
  /\ untidy' = untidy \cup B
  /\ UNCHANGED left

-----------------------------------------------------------------------------
(* The store: an atomic statement (pg) or a critical section (memory).     *)

\* SaveRefresh inserts the row of a fresh token and binds it to its owner.
SaveRefresh(t, k) ==
  /\ row[k] = "none" /\ k \notin Issued
  /\ \A j \in 1..(k - 1) : j \in Issued
  /\ row' = [row EXCEPT ![k] = "live"]
  /\ LET old == IF req[t].op = "refresh" THEN req[t].token ELSE 0
     IN  born' = [born EXCEPT ![k] =
           [parent |-> old, root |-> IF old = 0 THEN k ELSE born[old].root,
            owner |-> home[t], era |-> era]]

\* Bug variant of ConsumeRefresh: the row is read and marked in two steps.
ConsumeForgotten(k) == row' = row

\* ConsumeRefresh claims a row that is unused and not expired.  Otherwise it
\* leaves the row; only the memory store deletes one that has expired.
ConsumeRefresh(k) ==
  row' = [row EXCEPT ![k] = CASE Live(k) -> "used"
                              [] backend = "memory" /\ row[k] = "live" /\ k \in stale -> "none"
                              [] OTHER -> @]

\* Bug variant of RevokeChain: only the token that was presented.
RevokePresented(k) ==
  row' = [row EXCEPT ![k] = IF row[k] = "live" THEN "used" ELSE @]

\* RevokeChain uses up every row of the administrator that is still valid.
RevokeChain(k) ==
  row' = [j \in Token |-> IF Live(j) THEN "used" ELSE row[j]]

\* Bug variant of RevokeOne: nothing but the cookie is cleared.
RevokeNothing(k) == row' = row

\* RevokeOne uses up one row, and minds neither its expiry nor its absence.
RevokeOne(k) ==
  row' = [row EXCEPT ![k] = IF row[k] = "live" THEN "used" ELSE @]

-----------------------------------------------------------------------------
(* The client.                                                             *)

\* A view calls the API.  Without a valid access token the answer is 401 and
\* the tab refreshes; further calls of the tab wait for that refresh.
Call(t) ==
  /\ t \notin access
  /\ Send(t, "refresh", IF cookie[home[t]] = 0 THEN "missing" ELSE "consume")
  /\ waiting' = [waiting EXCEPT ![t] = 1]
  /\ UNCHANGED <<given, row, stale, cookie, access, mishaps, born, era>>

Queue(t) ==
  /\ t \notin access
  /\ req[t].op = "refresh" /\ waiting[t] < MaxCalls
  /\ waiting' = [waiting EXCEPT ![t] = @ + 1]
  /\ UNCHANGED <<given, sent, row, stale, cookie, access, req, mishaps,
                 history>>

Login(t) ==
  /\ Send(t, "login", "lookup")
  /\ UNCHANGED <<given, row, stale, cookie, access, waiting, mishaps, born, era>>

Logout(t) ==
  /\ Send(t, "logout", IF cookie[home[t]] = 0 THEN "cleared" ELSE "revokeOne")
  /\ UNCHANGED <<given, row, stale, cookie, access, waiting, mishaps, born, era>>

\* POST /auth/me/password passes the middleware only with an access token.
ChangePassword(t) ==
  /\ t \in access
  /\ Send(t, "passwd", "verify")
  /\ UNCHANGED <<given, row, stale, cookie, access, waiting, mishaps, born, era>>

-----------------------------------------------------------------------------
(* The server: Service.Login, Refresh, RevokeOne and the password change.  *)

\* LookupUser and VerifyPassword of a login, GetByID of a refresh.  A login
\* with a wrong password, or of an administrator who is disabled or gone, is
\* answered with 401; so is a refresh of such an administrator, whose token
\* has been claimed by then.
Lookup(t) ==
  /\ req[t].at = "lookup"
  /\ \/ ~disabled /\ Go(t, "save") /\ UNCHANGED <<excused, untidy>>
     \/ req[t].op = "login" /\ Done(t) /\ UNCHANGED <<excused, untidy>>
     \/ /\ disabled /\ req[t].op = "refresh"
        /\ Go(t, "refuse")
        /\ excused' = excused \cup {home[t]}
        /\ untidy' = untidy \cup {home[t]}
  /\ UNCHANGED <<given, sent, row, stale, cookie, access, waiting, mishaps,
                 born, era, left>>

Save(t) ==
  /\ req[t].at = "save"
  /\ \E k \in Token :
       /\ SaveRefresh(t, k)
       /\ req' = [req EXCEPT ![t].at = "reply", ![t].new = k]
  /\ UNCHANGED <<given, sent, stale, cookie, access, waiting, mishaps,
                 era, excused, left, untidy>>

\* Bug variant of Consume: whether the claim succeeded is not looked at.
ConsumeUnchecked(t) ==
  /\ req[t].at = "consume"
  /\ ConsumeRefresh(req[t].token)
  /\ Go(t, "lookup")
  /\ UNCHANGED <<given, sent, stale, cookie, access, waiting, mishaps, history>>

Consume(t) ==
  /\ req[t].at = "consume"
  /\ ConsumeRefresh(req[t].token)
  /\ Go(t, IF Live(req[t].token) THEN "lookup" ELSE "find")
  /\ UNCHANGED <<given, sent, stale, cookie, access, waiting, mishaps,
                 history>>

\* FindRefreshUser tells a row that is there, which counts as reuse, from none.
Find(t) ==
  /\ req[t].at = "find"
  /\ Go(t, IF row[req[t].token] = "none" THEN "refuse" ELSE "revoke")
  /\ UNCHANGED <<given, sent, row, stale, cookie, access, waiting, mishaps,
                 history>>

Revoke(t) ==
  /\ req[t].at = "revoke"
  /\ RevokeChain(req[t].token)
  /\ era' = era + 1
  /\ excused' = Browser
  /\ Go(t, "refuse")
  /\ UNCHANGED <<given, sent, stale, cookie, access, waiting, mishaps, born,
                 left, untidy>>

RevokeCookie(t) ==
  /\ req[t].at = "revokeOne"
  /\ RevokeOne(req[t].token)
  /\ Go(t, "cleared")
  /\ UNCHANGED <<given, sent, stale, cookie, access, waiting, mishaps,
                 history>>

\* Me and VerifyPassword.  A disabled administrator or a wrong current password
\* is a 401 too, which the client answers with a refresh and one retry.
Verify(t) ==
  /\ req[t].at = "verify"
  /\ \/ ~disabled /\ Go(t, "write") /\ UNCHANGED <<waiting, sent>>
     \/ /\ sent < MaxRequests
        /\ sent' = sent + 1
        /\ req' = [req EXCEPT ![t] =
             [op |-> "refresh", token |-> cookie[home[t]], new |-> 0,
              at |-> IF cookie[home[t]] = 0 THEN "missing" ELSE "consume"]]
        /\ waiting' = [waiting EXCEPT ![t] = 1]
  /\ UNCHANGED <<given, row, stale, cookie, access, mishaps, history>>

\* UpdatePassword, after which the refresh tokens stay as they are.
Write(t) ==
  /\ req[t].at = "write"
  /\ Done(t)
  /\ UNCHANGED <<given, sent, row, stale, cookie, access, waiting, mishaps, history>>

-----------------------------------------------------------------------------
(* The answer reaches the browser.                                         *)

\* Bug variant of Reply: every answer settles one of the calls that wait.
ReplySettlesOne(t) ==
  /\ req[t].at = "reply"
  /\ cookie' = [cookie EXCEPT ![home[t]] = req[t].new]
  /\ access' = access \cup {t}
  /\ waiting' = [waiting EXCEPT ![t] = @ - 1]
  /\ Done(t)
  /\ UNCHANGED <<given, sent, row, stale, mishaps, history>>

\* Bug variant of Reply: the rotated token is not put into the cookie.
ReplyBodyOnly(t) ==
  LET b == home[t] IN
  /\ req[t].at = "reply"
  /\ cookie' = IF req[t].op = "login" THEN [cookie EXCEPT ![b] = req[t].new] ELSE cookie
  /\ access' = access \cup {t}
  /\ waiting' = [waiting EXCEPT ![t] = 0]
  /\ excused' = IF req[t].op = "login" THEN excused \ {b} ELSE excused
  /\ left' = left \ {b}
  /\ Done(t)
  /\ UNCHANGED <<given, sent, row, stale, mishaps, born, era, untidy>>

\* Set-Cookie with the new token; the access token is in the body.
Reply(t) ==
  LET b == home[t]
      others == \E u \in Tab \ {t} : home[u] = b /\ req[u].at # "idle"
  IN
  /\ req[t].at = "reply"
  /\ cookie' = [cookie EXCEPT ![b] = req[t].new]
  /\ access' = access \cup {t}
  /\ waiting' = [waiting EXCEPT ![t] = 0]
  /\ excused' = IF req[t].op = "login" /\ ~others /\ Live(req[t].new)
                THEN excused \ {b} ELSE excused
  /\ left' = left \ {b}
  /\ Done(t)
  /\ UNCHANGED <<given, sent, row, stale, mishaps, born, era, untidy>>

\* Bug variant of Refuse: the calls that wait for the refresh are forgotten.
RefuseFirst(t) ==
  /\ req[t].at \in {"refuse", "missing"}
  /\ cookie' = IF req[t].at = "refuse" THEN [cookie EXCEPT ![home[t]] = 0] ELSE cookie
  /\ access' = access \ {t}
  /\ waiting' = [waiting EXCEPT ![t] = @ - 1]
  /\ Done(t)
  /\ UNCHANGED <<given, sent, row, stale, mishaps, history>>

\* 401 or 500 to a refresh clears the cookie; 400, without a cookie, does not.
Refuse(t) ==
  /\ req[t].at \in {"refuse", "missing"}
  /\ cookie' = IF req[t].at = "refuse" THEN [cookie EXCEPT ![home[t]] = 0] ELSE cookie
  /\ access' = access \ {t}
  /\ waiting' = [waiting EXCEPT ![t] = 0]
  /\ Done(t)
  /\ UNCHANGED <<given, sent, row, stale, mishaps, history>>

SignedOut(t) ==
  /\ req[t].at = "cleared"
  /\ cookie' = [cookie EXCEPT ![home[t]] = 0]
  /\ access' = access \ {t}
  /\ excused' = excused \cup {home[t]}
  /\ left' = left \cup {home[t]}
  /\ Done(t)
  /\ UNCHANGED <<given, sent, row, stale, waiting, mishaps, born, era, untidy>>

-----------------------------------------------------------------------------
(* What else happens.                                                      *)

\* A store call fails.  A failed claim is taken for an invalid token and the
\* reuse check follows; a failed revocation of the chain is ignored; a failed
\* logout has written its status before it clears the cookie, so it does not.
StoreFails(t) ==
  LET at == req[t].at
      op == req[t].op
  IN
  /\ at \in {"lookup", "save", "consume", "find", "revoke", "revokeOne", "verify", "write"}
  /\ Mishap({home[t]})
  /\ req' = [req EXCEPT ![t] = IF op # "refresh" THEN Idle
                               ELSE [@ EXCEPT !.at = IF at = "consume" THEN "find" ELSE "refuse"]]
  /\ access' = IF op = "logout" THEN access \ {t} ELSE access
  /\ UNCHANGED <<given, sent, row, stale, cookie, waiting, born, era>>

\* The connection breaks or the client gives up after its 15 s: the answer,
\* and what the handler had yet to do, are lost.
Lost(t) ==
  /\ req[t].at # "idle"
  /\ Mishap({home[t]})
  /\ access' = IF req[t].op \in {"refresh", "logout"} THEN access \ {t} ELSE access
  /\ waiting' = [waiting EXCEPT ![t] = 0]
  /\ Done(t)
  /\ UNCHANGED <<given, sent, row, stale, cookie, born, era>>

\* The access token passes its 15 minutes, or the page is loaded anew.
AccessExpires(t) ==
  /\ t \in access
  /\ req[t].at = "idle"
  /\ access' = access \ {t}
  /\ UNCHANGED <<given, sent, row, stale, cookie, waiting, req, mishaps,
                 history>>

\* A refresh token passes its 30 days.
RefreshExpires(k) ==
  /\ Live(k)
  /\ Mishap({b \in Browser : cookie[b] = k \/ \E t \in Tab : home[t] = b /\ req[t].new = k})
  /\ stale' = stale \cup {k}
  /\ UNCHANGED <<given, sent, row, cookie, access, waiting, req, born, era>>

\* Whoever runs the database sets or clears admins.enabled, or deletes the row:
\* no code of the panel does, but GetByID and LookupUser look at it.
SetEnabled ==
  /\ backend = "pg"
  /\ Mishap(Browser)
  /\ disabled' = ~disabled
  /\ UNCHANGED <<backend, home, sent, row, stale, cookie, access, waiting, req,
                 born, era>>

\* The panel restarts.  The memory store forgets its rows.
Restart ==
  /\ Mishap(Browser)
  /\ req' = [t \in Tab |-> Idle]
  /\ waiting' = [t \in Tab |-> 0]
  /\ access' = access \ {t \in Tab : req[t].op \in {"refresh", "logout"}}
  /\ row' = IF backend = "memory" THEN [k \in Token |-> "none"] ELSE row
  /\ UNCHANGED <<given, sent, stale, cookie, born, era>>

-----------------------------------------------------------------------------
Init ==
  /\ backend \in {"pg", "memory"}
  /\ home \in [Tab -> Browser]
  /\ disabled = FALSE
  /\ row = [k \in Token |-> "none"]
  /\ stale = {}
  /\ cookie = [b \in Browser |-> 0]
  /\ access = {}
  /\ waiting = [t \in Tab |-> 0]
  /\ req = [t \in Tab |-> Idle]
  /\ sent = 0
  /\ mishaps = 0
  /\ born = [k \in Token |->
               [parent |-> 0, root |-> 0, owner |-> CHOOSE b \in Browser : TRUE, era |-> 0]]
  /\ era = 0
  /\ excused = Browser
  /\ left = Browser
  /\ untidy = {}

ServerStep(t) == \/ Lookup(t) \/ Save(t) \/ Consume(t) \/ Find(t) \/ Revoke(t)
                 \/ RevokeCookie(t) \/ Verify(t) \/ Write(t)
Answer(t) == Reply(t) \/ Refuse(t) \/ SignedOut(t)

Next ==
  \/ \E t \in Tab : \/ Call(t) \/ Queue(t) \/ Login(t) \/ Logout(t) \/ ChangePassword(t)
                    \/ ServerStep(t) \/ Answer(t)
                    \/ StoreFails(t) \/ Lost(t) \/ AccessExpires(t)
  \/ \E k \in Token : RefreshExpires(k)
  \/ SetEnabled
  \/ Restart

Spec == Init /\ [][Next]_vars

\* A handler that has started goes on, and its answer arrives or is lost.
Fairness == \A t \in Tab : WF_vars(ServerStep(t) \/ Answer(t) \/ Lost(t))
FairSpec == Spec /\ Fairness

-----------------------------------------------------------------------------
(* Correctness.                                                            *)

\* A refresh token is exchanged once: two uses of it, however their store
\* calls interleave, never both bring a new token (ConsumeRefresh's claim).
OneSuccessor ==
  \A j, k \in Issued :
    (j # k /\ born[j].parent # 0) => born[j].parent # born[k].parent

\* Once the chain has been revoked, what is valid was saved afterwards: by a
\* new login, or by a refresh that had claimed its token before and was still
\* on its way (RevokeChain reaches all rows there are, not those to come).
RevocationComplete ==
  \A k \in Token : Live(k) => born[k].era = era

\* A browser that is at rest still has its session unless it signed out, used
\* two tabs at once, met a failure, an expiry, a restart or an account that had
\* been disabled, or the chain was revoked; and a revocation is only ever caused by a browser that did one of
\* these: plain use, however long and from however many browsers, is safe.
SignOutExplained ==
  /\ \A b \in Browser :
       (b \notin excused /\ ~Busy(b)) => cookie[b] # 0 /\ Live(cookie[b])
  /\ \A t \in Tab : req[t].at = "revoke" => home[t] \in excused

\* After the answer to a logout, a browser whose requests never overlapped or
\* failed has no valid refresh token left anywhere on the server.
LogoutEndsSession ==
  \A b \in Browser :
    (b \in left \ untidy /\ ~Busy(b)) =>
      \A k \in Issued : born[k].owner = b => ~Live(k)

\* Sessions end for good: rotation, races, reuse checks and restarts included,
\* the tokens implement the abstract session family.
Continuing == {k \in Token : Live(k)}
              \cup {req[t].token : t \in {u \in Tab :
                      req[u].op = "refresh" /\ req[u].at \in {"lookup", "save"}}}
OpenSessions == {born[k].root : k \in Continuing}
EndedSessions == {born[k].root : k \in Issued} \ OpenSessions
Family == INSTANCE SessionFamily WITH
            Session <- Token, open <- OpenSessions, ended <- EndedSessions
SessionsEndForGood == Family!Spec

\* Calls that wait for a refresh are all answered, retried or rejected.
QueuedCallsSettle == \A t \in Tab : waiting[t] > 0 ~> waiting[t] = 0
=============================================================================
