------------------------- MODULE SubscriptionAccess -------------------------
(***************************************************************************)
(* Who gets which subscription: the rows of internal/users with their      *)
(* subscription tokens, the plans and hosts they point at, and the render  *)
(* of internal/subscription.                                               *)
(*                                                                         *)
(* An operator's Update or RotateSubToken reads the row of a user, changes *)
(* some columns and writes the whole row back; others run in between.  A   *)
(* client's GET /sub/{token} reads the user by its current token, then by  *)
(* its previous one, then the pools of the plan, host by host, each with a *)
(* query of its own.  The credentials are loaded last; a failure to load   *)
(* them changes only the text of the answer, which is left out.            *)
(***************************************************************************)
EXTENDS Naturals, FiniteSets

CONSTANTS User, Plan, Host,
          NoPlan,         \* no plan, or one that is not there
          HostsOf,        \* HostsOf[p]: the members of the pools of plan p
          Operator,       \* concurrent admin requests
          Client,         \* concurrent fetches
          MaxTokens,      \* bound: subscription tokens ever minted
          MaxEdits        \* bound: admin requests

ASSUME AccessAssumption ==
  /\ IsFiniteSet(User) /\ User # {}
  /\ NoPlan \notin Plan
  /\ HostsOf \in [Plan -> SUBSET Host]
  /\ MaxTokens \in Nat /\ MaxEdits \in Nat
  /\ MaxTokens >= Cardinality(User)

VARIABLES store,      \* which store holds the rows: "pg" or "memory"
          row,        \* row[u]: the row of user u
          minted,     \* tokens minted so far
          lapsed,     \* the rotations whose grace window is over
          plans,      \* the plans that exist
          enabled,    \* the hosts that are enabled
          edit,       \* edit[o]: the admin request o and its step; cur is the row
                      \* in its hands
          edits,      \* admin requests so far
          fetch,      \* fetch[c]: the fetch of client c and its step
          handed,     \* history: handed[u]: the token last shown for user u
          wanted,     \* history: wanted[u]: the columns last asked for
          raced,      \* history: users with a write based on an old read
          untold,     \* history: users with a change nobody was told of
          facts       \* history: facts[c]: what held since fetch c started

history == <<handed, wanted, raced, untold>>
catalog == <<plans, enabled>>
vars == <<store, row, minted, lapsed, catalog, edit, edits, fetch, history, facts>>

Token == 1..MaxTokens
Row == [there : BOOLEAN, token : 0..MaxTokens, prev : 0..MaxTokens,
        graced : 0..MaxTokens, live : BOOLEAN, plan : Plan \cup {NoPlan}]
NoRow == [there |-> FALSE, token |-> 0, prev |-> 0, graced |-> 0,
          live |-> FALSE, plan |-> NoPlan]
NoEdit == [at |-> "none", op |-> "none", user |-> CHOOSE u \in User : TRUE,
           cur |-> NoRow]
NoFetch == [at |-> "idle", token |-> 0, user |-> CHOOSE u \in User : TRUE, cur |-> NoRow,
            todo |-> {}, hosts |-> {}]

TypeOK ==
  /\ store \in {"pg", "memory"}
  /\ row \in [User -> Row]
  /\ \A u \in User :
       IF row[u].there THEN /\ row[u].prev < row[u].token /\ row[u].token <= minted
                            /\ row[u].prev = 0 <=> row[u].graced = 0
                       ELSE row[u] = NoRow
  /\ minted \in 0..MaxTokens
  /\ lapsed \subseteq Token
  /\ plans \subseteq Plan /\ enabled \subseteq Host
  /\ edit \in [Operator -> [at : {"none", "write", "reread"},
                            op : {"none", "update", "rotate", "delete"},
                            user : User, cur : Row]]
  /\ edits \in 0..MaxEdits
  /\ fetch \in [Client ->
       [at : {"idle", "current", "prev", "pools", "hosts", "ok",
              "notfound", "forbidden", "error"},
        token : 0..MaxTokens, user : User, cur : Row,
        todo : SUBSET Host, hosts : SUBSET Host]]
  /\ handed \in [User -> 0..MaxTokens]
  /\ wanted \in [User -> [live : BOOLEAN, plan : Plan \cup {NoPlan}]]
  /\ raced \subseteq User /\ untold \subseteq User

-----------------------------------------------------------------------------
(* The rows.                                                               *)

ByToken(k) == {u \in User : row[u].there /\ row[u].token = k}
ByPrev(k) == {u \in User : row[u].there /\ row[u].prev = k /\ row[u].graced \notin lapsed}
Valid(k) == k # 0 /\ ByToken(k) \cup ByPrev(k) # {}

\* What a fetch that runs now could be told.
Facts == {<<"token", k>> : k \in {k \in Token : Valid(k)}}
         \cup {<<"dead", k>> : k \in {k \in Token : ~Valid(k)}}
         \cup {<<"live", u>> : u \in {u \in User : row[u].live}}
         \cup {<<"host", h>> : h \in enabled}
Witness == facts' = [c \in Client |->
             IF fetch'[c].at \in {"idle", "ok", "notfound", "forbidden", "error"}
             THEN IF fetch'[c].at = "idle" THEN {} ELSE facts[c]
             ELSE facts[c] \cup Facts']

EditDone(o) == edit' = [edit EXCEPT ![o] = NoEdit]

\* Create mints a token and inserts the row; the answer shows the token.
Create(o) ==
  /\ edit[o].at = "none" /\ edits < MaxEdits /\ minted < MaxTokens
  /\ edits' = edits + 1
  /\ minted' = minted + 1
  /\ \E u \in User, p \in Plan \cup {NoPlan} :
       /\ ~row[u].there
       /\ row' = [row EXCEPT ![u] = [NoRow EXCEPT
            !.there = TRUE, !.token = minted + 1, !.live = TRUE, !.plan = p]]
       /\ handed' = [handed EXCEPT ![u] = minted + 1]
       /\ wanted' = [wanted EXCEPT ![u] = [live |-> TRUE, plan |-> p]]
  /\ UNCHANGED <<store, lapsed, catalog, edit, fetch, raced, untold>>

\* Update, RotateSubToken and Delete begin with a read of the row.
ReadRow(o) ==
  /\ edit[o].at = "none" /\ edits < MaxEdits
  /\ edits' = edits + 1
  /\ \E u \in User, op \in {"update", "rotate", "delete"} :
       /\ row[u].there
       /\ edit' = [edit EXCEPT ![o] =
            [at |-> "write", op |-> op, user |-> u, cur |-> row[u]]]
  /\ UNCHANGED <<store, row, minted, lapsed, catalog, fetch, history>>

\* Bug variant of Replace: the row comes back if it was deleted meanwhile.
ReplaceOrInsert(o, new) ==
  LET u == edit[o].user IN
  /\ row' = [row EXCEPT ![u] = new]
  /\ raced' = IF row[u].there /\ row[u] # edit[o].cur THEN raced \cup {u} ELSE raced
  /\ edit' = [edit EXCEPT ![o].at = "reread", ![o].cur = new]

\* Store.Update replaces the row if it is still there.
Replace(o, new) ==
  LET u == edit[o].user IN
  /\ row[u].there
  /\ row' = [row EXCEPT ![u] = new]
  /\ raced' = IF row[u] # edit[o].cur THEN raced \cup {u} ELSE raced
  /\ edit' = [edit EXCEPT ![o].at = "reread", ![o].cur = new]

\* Bug variant of WriteUpdate: a patch without a plan unlinks the plan.
WriteUpdateUnlinking(o) ==
  LET u == edit[o].user
      cur == edit[o].cur
  IN
  /\ edit[o].at = "write" /\ edit[o].op = "update"
  /\ \E new \in {[cur EXCEPT !.live = ~cur.live, !.plan = NoPlan]}
                \cup {[cur EXCEPT !.plan = p] : p \in (Plan \cup {NoPlan}) \ {cur.plan}} :
       /\ Replace(o, new)
       /\ wanted' = [wanted EXCEPT ![u] =
            IF new.live # cur.live THEN [@ EXCEPT !.live = new.live]
                                   ELSE [@ EXCEPT !.plan = new.plan]]
  /\ UNCHANGED <<store, minted, lapsed, catalog, edits, fetch, handed, untold>>

\* The row is written with a new status or a new plan.
WriteUpdate(o) ==
  LET u == edit[o].user
      cur == edit[o].cur
  IN
  /\ edit[o].at = "write" /\ edit[o].op = "update"
  /\ \E new \in {[cur EXCEPT !.live = ~cur.live]}
                \cup {[cur EXCEPT !.plan = p] : p \in (Plan \cup {NoPlan}) \ {cur.plan}} :
       /\ Replace(o, new)
       /\ wanted' = [wanted EXCEPT ![u] =
            IF new.live # cur.live THEN [@ EXCEPT !.live = new.live]
                                   ELSE [@ EXCEPT !.plan = new.plan]]
  /\ UNCHANGED <<store, minted, lapsed, catalog, edits, fetch, handed, untold>>

\* Bug variant of Rotated: the new token is set before the old one is parked.
RotatedParkingNew(cur, new) == [cur EXCEPT !.token = new, !.prev = new, !.graced = new]

\* The row with a new token: the old one is parked with a grace window of its
\* own (a grace of zero means 24 hours).
Rotated(cur, new) == [cur EXCEPT !.token = new, !.prev = cur.token, !.graced = new]

WriteRotate(o) ==
  /\ edit[o].at = "write" /\ edit[o].op = "rotate"
  /\ minted < MaxTokens
  /\ minted' = minted + 1
  /\ Replace(o, Rotated(edit[o].cur, minted + 1))
  /\ UNCHANGED <<store, lapsed, catalog, edits, fetch, handed, wanted, untold>>

\* The row is gone when it is written: 404.
WriteMissing(o) ==
  /\ edit[o].at = "write" /\ ~row[edit[o].user].there
  /\ EditDone(o)
  /\ UNCHANGED <<store, row, minted, lapsed, catalog, edits, fetch, history>>

DeleteRow(o) ==
  /\ edit[o].at = "write" /\ edit[o].op = "delete"
  /\ row[edit[o].user].there
  /\ row' = [row EXCEPT ![edit[o].user] = NoRow]
  /\ EditDone(o)
  /\ UNCHANGED <<store, minted, lapsed, catalog, edits, fetch, history>>

\* The row is read again for the answer, which shows its token; the audit entry
\* takes edit[o].cur as the row before.
Reread(o) ==
  LET u == edit[o].user IN
  /\ edit[o].at = "reread"
  /\ handed' = IF row[u].there THEN [handed EXCEPT ![u] = row[u].token] ELSE handed
  /\ EditDone(o)
  /\ UNCHANGED <<store, row, minted, lapsed, catalog, edits, fetch, wanted, raced, untold>>

\* A store call fails, or the request is cut off: what was written stays.
EditFails(o) ==
  /\ edit[o].at # "none"
  /\ untold' = IF edit[o].at = "reread" THEN untold \cup {edit[o].user} ELSE untold
  /\ EditDone(o)
  /\ UNCHANGED <<store, row, minted, lapsed, catalog, edits, fetch, handed, wanted, raced>>

\* The grace window of rotation k ends.
Lapse(k) ==
  /\ k \in 1..minted \ lapsed
  /\ \E u \in User : row[u].graced = k
  /\ lapsed' = lapsed \cup {k}
  /\ UNCHANGED <<store, row, minted, catalog, edit, edits, fetch, history>>

\* Plans and hosts change under the renders: a plan is deleted (plan_pool goes
\* with it, users.plan_id stays), a host is switched.
ChangeCatalog(o) ==
  /\ edit[o].at = "none" /\ edits < MaxEdits
  /\ edits' = edits + 1
  /\ \/ \E p \in plans : plans' = plans \ {p} /\ UNCHANGED enabled
     \/ \E h \in Host : /\ enabled' = IF h \in enabled THEN enabled \ {h} ELSE enabled \cup {h}
                        /\ UNCHANGED plans
  /\ UNCHANGED <<store, row, minted, lapsed, edit, fetch, history>>

-----------------------------------------------------------------------------
(* The fetch.                                                              *)

FetchStep(c, rec) ==
  /\ fetch' = [fetch EXCEPT ![c] = rec]
  /\ UNCHANGED <<store, row, minted, lapsed, catalog, edit, edits, history>>

Start(c) ==
  /\ fetch[c].at = "idle"
  /\ \E k \in 1..minted : FetchStep(c, [NoFetch EXCEPT !.at = "current", !.token = k])

Found(c, u) == [fetch[c] EXCEPT !.at = "pools", !.user = u, !.cur = row[u]]

\* Bug variant of ByCurrent: the parked token is not looked for.
ByCurrentOnly(c) ==
  LET k == fetch[c].token IN
  /\ fetch[c].at = "current"
  /\ \/ \E u \in ByToken(k) : FetchStep(c, Found(c, u))
     \/ ByToken(k) = {} /\ FetchStep(c, [fetch[c] EXCEPT !.at = "notfound"])

\* The query by the current token; the memory store asks for both at once.
ByCurrent(c) ==
  LET k == fetch[c].token IN
  /\ fetch[c].at = "current"
  /\ \/ \E u \in ByToken(k) : FetchStep(c, Found(c, u))
     \/ /\ ByToken(k) = {}
        /\ IF store = "pg" THEN FetchStep(c, [fetch[c] EXCEPT !.at = "prev"])
           ELSE \/ \E u \in ByPrev(k) : FetchStep(c, Found(c, u))
                \/ ByPrev(k) = {} /\ FetchStep(c, [fetch[c] EXCEPT !.at = "notfound"])

\* Bug variant of ByPrevious: the end of the grace window is not looked at.
ByPreviousAnyTime(c) ==
  LET U == {u \in User : row[u].there /\ row[u].prev = fetch[c].token} IN
  /\ fetch[c].at = "prev"
  /\ \/ \E u \in U : FetchStep(c, Found(c, u))
     \/ U = {} /\ FetchStep(c, [fetch[c] EXCEPT !.at = "notfound"])

\* The query by the previous token, which must be within its grace window.
ByPrevious(c) ==
  LET U == ByPrev(fetch[c].token) IN
  /\ fetch[c].at = "prev"
  /\ \/ \E u \in U : FetchStep(c, Found(c, u))
     \/ U = {} /\ FetchStep(c, [fetch[c] EXCEPT !.at = "notfound"])

\* ListPoolsForUser and ListPoolMembers: a plan that is not there has none.
PoolHosts(plan) == IF plan \in plans THEN HostsOf[plan] ELSE {}

\* ResolveHostsForUser: the status of the user as it was read, then the pools
\* and members of its plan.
Pools(c) ==
  LET u == fetch[c].cur IN
  /\ fetch[c].at = "pools"
  /\ IF ~u.live THEN FetchStep(c, [fetch[c] EXCEPT !.at = "forbidden"])
     ELSE FetchStep(c, [fetch[c] EXCEPT !.at = "hosts",
                                          !.todo = PoolHosts(u.plan)])

\* Each host is read on its own, and left out if it is disabled.  A plan with
\* no host left is answered with an empty subscription.
ReadHost(c) ==
  /\ fetch[c].at = "hosts"
  /\ \/ \E h \in fetch[c].todo :
          FetchStep(c, [fetch[c] EXCEPT !.todo = @ \ {h},
                          !.hosts = IF h \in enabled THEN @ \cup {h} ELSE @])
     \/ /\ fetch[c].todo = {}
        /\ FetchStep(c, [fetch[c] EXCEPT !.at = "ok"])

\* A query of the fetch fails: 500.
FetchFails(c) ==
  /\ fetch[c].at \in {"current", "prev", "pools", "hosts"}
  /\ FetchStep(c, [fetch[c] EXCEPT !.at = "error"])

Answered(c) ==
  /\ fetch[c].at \in {"ok", "notfound", "forbidden", "error"}
  /\ FetchStep(c, NoFetch)

-----------------------------------------------------------------------------
Init ==
  /\ store \in {"pg", "memory"}
  /\ \E f \in [User -> 1..Cardinality(User)], p \in [User -> Plan] :
       /\ \A u, v \in User : f[u] = f[v] => u = v
       /\ row = [u \in User |-> [NoRow EXCEPT !.there = TRUE, !.token = f[u],
                                              !.live = TRUE, !.plan = p[u]]]
       /\ handed = f
       /\ wanted = [u \in User |-> [live |-> TRUE, plan |-> p[u]]]
  /\ minted = Cardinality(User)
  /\ lapsed = {}
  /\ plans = Plan /\ enabled = Host
  /\ edit = [o \in Operator |-> NoEdit]
  /\ edits = 0
  /\ fetch = [c \in Client |-> NoFetch]
  /\ raced = {} /\ untold = {}
  /\ facts = [c \in Client |-> {}]

EditStep(o) ==
  \/ Create(o) \/ ReadRow(o) \/ WriteUpdate(o) \/ WriteRotate(o) \/ WriteMissing(o)
  \/ DeleteRow(o) \/ Reread(o) \/ EditFails(o) \/ ChangeCatalog(o)

RenderStep(c) ==
  \/ Start(c) \/ ByCurrent(c) \/ ByPrevious(c) \/ Pools(c) \/ ReadHost(c)
  \/ FetchFails(c) \/ Answered(c)

Next ==
  /\ \/ \E o \in Operator : EditStep(o)
     \/ \E c \in Client : RenderStep(c)
     \/ \E k \in Token : Lapse(k)
  /\ Witness

Spec == Init /\ [][Next]_vars

-----------------------------------------------------------------------------
(* Correctness.                                                            *)

\* A subscription that is delivered was called for: since the fetch began the
\* token has been valid at some moment, the user live at some moment, and each
\* of its hosts enabled, although no two of them are read together.
DeliveryWasDue ==
  \A c \in Client : fetch[c].at = "ok" =>
    /\ <<"token", fetch[c].token>> \in facts[c]
    /\ <<"live", fetch[c].user>> \in facts[c]
    /\ \A h \in fetch[c].hosts : <<"host", h>> \in facts[c]

\* A fetch answered with 404 used a token that was not valid at some moment
\* since it began: a rotation between its two queries does not make it miss
\* the user.  Only a write based on an old read, which brings a parked token
\* back into use, can.
MissWasDue ==
  \A c \in Client : fetch[c].at = "notfound" =>
    <<"dead", fetch[c].token>> \in facts[c] \/ raced # {}

\* A token that has ceased to be valid stays so: after its grace window, a
\* second rotation or the deletion of the user, whatever is edited next to it,
\* except for a write based on an old read.
RevokedForGood ==
  [][\A k \in 1..minted : ~Valid(k) /\ raced' = {} => ~Valid(k)']_vars

\* Every edit of status and plan is in effect until the next one, and the
\* token the operator was last shown is the current one: only a write based on
\* an old read undoes either, only a failed answer leaves the operator behind.
EditsStay ==
  \A u \in User \ raced :
    row[u].there =>
      /\ row[u].live = wanted[u].live /\ row[u].plan = wanted[u].plan
      /\ (u \notin untold /\ \A o \in Operator : edit[o].at # "reread")
           => handed[u] = row[u].token
=============================================================================
